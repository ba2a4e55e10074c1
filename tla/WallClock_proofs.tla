-------------------------- MODULE WallClock_proofs --------------------------
(***************************************************************************)
(* Type correctness of the Wall Clock protocol, and the lemmas about       *)
(* sequences, conversions and packets its other proofs rest on.            *)
(***************************************************************************)
EXTENDS WallClock, TLAPS, WellFoundedInduction

-----------------------------------------------------------------------------
(* Sequences: what is left when a datagram is taken out of a channel. *)

\* Taking an element out of a sequence leaves elements that were in it.
LEMMA RemoveAtElements ==
    ASSUME NEW T, NEW s \in Seq(T), NEW i \in 1 .. Len(s)
    PROVE  /\ RemoveAt(s, i) \in Seq(T)
           /\ \A j \in 1 .. Len(RemoveAt(s, i)) :
                 \E k \in 1 .. Len(s) : RemoveAt(s, i)[j] = s[k]
<1> DEFINE head == SubSeq(s, 1, i - 1)
           tail == SubSeq(s, i + 1, Len(s))
<1>1. head \in Seq(T) /\ tail \in Seq(T)
  OBVIOUS
<1>2. Len(head) = i - 1 /\ \A j \in 1 .. Len(head) : head[j] = s[j]
  OBVIOUS
<1>3. Len(tail) = Len(s) - i /\ \A j \in 1 .. Len(tail) : tail[j] = s[i + j]
  OBVIOUS
<1>4. RemoveAt(s, i) = head \o tail
  BY DEF RemoveAt
<1> HIDE DEF head, tail
<1>5. /\ head \o tail \in Seq(T)
      /\ Len(head \o tail) = Len(head) + Len(tail)
      /\ \A j \in 1 .. Len(head \o tail) :
            (head \o tail)[j] = IF j <= Len(head) THEN head[j] ELSE tail[j - Len(head)]
  BY <1>1
<1>6. ASSUME NEW j \in 1 .. Len(head \o tail)
      PROVE  \E k \in 1 .. Len(s) : (head \o tail)[j] = s[k]
  <2>1. CASE j <= Len(head)
    <3>1. (head \o tail)[j] = s[j] /\ j \in 1 .. Len(s)
      BY <1>2, <1>3, <1>5, <2>1
    <3> QED BY <3>1
  <2>2. CASE j > Len(head)
    <3>1. (head \o tail)[j] = s[i + (j - Len(head))] /\ i + (j - Len(head)) \in 1 .. Len(s)
      BY <1>2, <1>3, <1>5, <2>2
    <3> QED BY <3>1
  <2> QED BY <2>1, <2>2, <1>2
<1> QED BY <1>4, <1>5, <1>6

\* What a receive leaves in flight was in flight.
LEMMA ReceivedElements ==
    ASSUME NEW s \in Seq(Packets), NEW i \in 1 .. Len(s), NEW r \in Received(s, i)
    PROVE  /\ r \in Seq(Packets)
           /\ \A j \in 1 .. Len(r) : \E k \in 1 .. Len(s) : r[j] = s[k]
BY RemoveAtElements DEF Received

\* What a send leaves in flight was in flight, or is the datagram sent.
LEMMA SentElements ==
    ASSUME NEW s \in Seq(Packets), NEW m \in Packets, NEW r \in Sent(s, m)
    PROVE  /\ r \in Seq(Packets)
           /\ \A j \in 1 .. Len(r) : r[j] = m \/ \E k \in 1 .. Len(s) : r[j] = s[k]
<1>1. r = s \/ r = Append(s, m)
  BY DEF Sent
<1> QED BY <1>1

-----------------------------------------------------------------------------
(* Conversions. *)

\* A set of naturals that is not empty has a least element.
LEMMA LeastNat ==
    ASSUME NEW S, S \subseteq Nat, S # {}
    PROVE  \E x \in S : \A y \in S : x <= y
<1>1. PICK x \in S : \A y \in S : ~ (<<y, x>> \in OpToRel(<, Nat))
  BY WFMin, NatLessThanWellFounded
<1>2. \A y \in S : ~ (y < x)
  BY <1>1 DEF OpToRel
<1> QED BY <1>2

\* The precision is rounded up on its way over the wire, never down: what the
\* client decodes is no finer than what the server measured.
LEMMA EncodedServerPrecision ==
    /\ EncodePrecision(ServerPrecision) \in Exponents
    /\ DecodePrecision(EncodePrecision(ServerPrecision)) >= ServerPrecision
<1> DEFINE S == {e \in Exponents : 2^e >= ServerPrecision}
<1>1. PICK x \in S : \A y \in S : x <= y
  <2>1. S \subseteq Nat /\ S # {}
    BY PrecisionAssumption
  <2> HIDE DEF S
  <2> QED BY <2>1, LeastNat
<1>2. \E e \in Exponents : 2^e >= ServerPrecision
                          /\ \A f \in Exponents : 2^f >= ServerPrecision => e <= f
  BY <1>1
<1> QED BY <1>2 DEF EncodePrecision, DecodePrecision

\* A time read back from the wire is a time.
LEMMA OnWireNat == ASSUME NEW t \in Nat PROVE OnWire(t) \in Nat
BY WidthAssumption DEF OnWire, FromWcTimestamp, ToWcSeconds, ToWcFraction

\* A time whose seconds fit into 32 bits survives the wire.
LEMMA OnWireIdentity ==
    ASSUME NEW t \in Nat, t < U32 * SECOND PROVE OnWire(t) = t
BY WidthAssumption DEF OnWire, FromWcTimestamp, ToWcSeconds, ToWcFraction

\* What packet_new builds is a packet.
LEMMA NewPacketType ==
    ASSUME NEW k \in Kinds, NEW h \in Hosts, NEW t \in Nat
    PROVE  NewPacket(k, h, t) \in Packets
BY PrecisionAssumption DEF NewPacket, Packets

\* So is what stands for no packet.
LEMMA NoPacketType == NoPacket \in Packets
BY NewPacketType DEF NoPacket, Kinds, Hosts

\* Half of a time difference is one.
LEMMA HalfType == ASSUME NEW x \in Int PROVE Half(x) \in Int
BY DEF Half

\* What candidate_new builds from a packet is a candidate.
LEMMA CandidateType ==
    ASSUME NEW m \in Packets, NEW t \in Nat
    PROVE  Candidate(m, t) \in Candidates
<1>1. 2^(m.precision) \in Nat
  BY PrecisionAssumption DEF Packets
<1>2. m.maxFreq \div 256 \in Nat
  BY DEF Packets
<1>3. /\ (t - m.t1) - (m.t3 - m.t2) \in Int
      /\ (m.t3 + m.t2) - (t + m.t1) \in Int
  BY DEF Packets
<1>4. Half((m.t3 + m.t2) - (t + m.t1)) \in Int
  BY <1>3, HalfType
<1> QED
  BY <1>1, <1>2, <1>3, <1>4
  DEF Candidate, Candidates, DecodePrecision, DecodeMaxFreqError, Packets

\* What the server builds from a request is a packet.
LEMMA ResponseType == TypeOK => Response \in Packets
<1> SUFFICES ASSUME TypeOK PROVE Response \in Packets
  OBVIOUS
<1>1. OnWire(rxTime) \in Nat /\ OnWire(ServerClock) \in Nat
  BY OnWireNat DEF TypeOK, ServerTypeOK, NetworkTypeOK
<1>2. EncodePrecision(ServerPrecision) \in Exponents /\ EncodeMaxFreqError(ServerPpm) \in Nat
  BY EncodedServerPrecision, ServerAssumption DEF EncodeMaxFreqError
<1> HIDE DEF ServerClock
<1> QED
  BY <1>1, <1>2 DEF Response, TypeOK, ServerTypeOK, Packets, Kinds, Hosts

\* And what it builds from the response.
LEMMA FollowupReplyType == TypeOK => FollowupReply \in Packets
BY DEF FollowupReply, TypeOK, ServerTypeOK, Packets, Kinds

-----------------------------------------------------------------------------
(* Type correctness. *)

\* Type correctness holds initially,
LEMMA InitType == Init => TypeOK
<1> SUFFICES ASSUME Init PROVE TypeOK
  OBVIOUS
<1>1. NetworkTypeOK
  BY NetworkAssumption DEF Init, NetworkInit, NetworkTypeOK, ServerClock
<1>2. ServerTypeOK
  BY NoPacketType, ServerAssumption DEF Init, ServerInit, ServerTypeOK
<1>3. ClientTypeOK
  <2>1. lastType \in Kinds /\ servaddr \in Hosts
    BY DEF Init, ClientInit, Kinds, Hosts
  <2>2. resp \in Packets
    BY NoPacketType DEF Init, ClientInit
  <2>3. best \in Candidates \cup {None} /\ offset \in Int
    BY DEF Init, ClientInit
  <2>4. synced \in BOOLEAN /\ cliCancelled \in BOOLEAN
    BY DEF Init, ClientInit
  <2> QED BY <2>1, <2>2, <2>3, <2>4 DEF Init, ClientInit, ClientTypeOK
<1> QED BY <1>1, <1>2, <1>3 DEF TypeOK

\* every step of the network keeps it,
LEMMA NetworkStepType ==
    TypeOK /\ NetworkNext /\ UNCHANGED <<serverVars, clientVars>> => TypeOK'
<1> SUFFICES ASSUME TypeOK, NetworkNext, UNCHANGED <<serverVars, clientVars>> PROVE TypeOK'
  OBVIOUS
<1>1. ServerTypeOK' /\ ClientTypeOK'
  BY DEF TypeOK, ServerTypeOK, ClientTypeOK, serverVars, clientVars, packetVars,
         exchangeVars, clockVars
<1>2. NetworkTypeOK'
  <2>1. CASE Tick
    BY <2>1, NetworkAssumption DEF Tick, TypeOK, NetworkTypeOK, ServerClock
  <2>2. CASE StrayToServer
    <3>1. PICK k \in ServerStrays : c2s' = Append(c2s, NewPacket(k, "other", 0))
      BY <2>2 DEF StrayToServer
    <3>2. NewPacket(k, "other", 0) \in Packets
      BY NetworkAssumption, NewPacketType DEF Kinds, Hosts
    <3> QED BY <3>1, <3>2, <2>2 DEF StrayToServer, TypeOK, NetworkTypeOK, ServerClock
  <2>3. CASE StrayToClient
    <3>1. PICK k \in ClientStrays : s2c' = Append(s2c, NewPacket(k, "other", 0))
      BY <2>3 DEF StrayToClient
    <3>2. NewPacket(k, "other", 0) \in Packets
      BY NetworkAssumption, NewPacketType DEF Kinds, Hosts
    <3> QED BY <3>1, <3>2, <2>3 DEF StrayToClient, TypeOK, NetworkTypeOK, ServerClock
  <2> QED BY <2>1, <2>2, <2>3 DEF NetworkNext
<1> QED BY <1>1, <1>2 DEF TypeOK

\* every step of the server's process keeps it,
LEMMA ServerStepType ==
    TypeOK /\ ServerNext /\ UNCHANGED clientVars => TypeOK'
<1> SUFFICES ASSUME TypeOK, ServerNext, UNCHANGED clientVars PROVE TypeOK'
  OBVIOUS
<1>1. ClientTypeOK'
  BY DEF TypeOK, ClientTypeOK, clientVars, packetVars, exchangeVars, clockVars
<1> USE DEF TypeOK, NetworkTypeOK, ServerTypeOK
<1>2. CASE ServerReceive
  <2>1. PICK i \in 1 .. Len(c2s) : ServerReceives(i)
    BY <1>2 DEF ServerReceive
  <2>2. c2s' \in Seq(Packets)
    BY <2>1, ReceivedElements DEF ServerReceives
  <2>3. c2s[i] \in Packets
    OBVIOUS
  <2> QED BY <1>1, <2>1, <2>2, <2>3 DEF ServerReceives, ServerClock
<1>3. CASE ServerReceiveError
  <2>1. PICK i \in Deliverable(c2s) : c2s' = RemoveAt(c2s, i)
    BY <1>3 DEF ServerReceiveError
  <2>2. c2s' \in Seq(Packets)
    BY <2>1, RemoveAtElements DEF Deliverable
  <2> QED BY <1>1, <1>3, <2>2 DEF ServerReceiveError, ServerClock, serverVars
<1>4. CASE ServerReply
  <2>1. Response \in Packets
    BY ResponseType
  <2>2. s2c' \in Seq(Packets)
    BY <1>4, <2>1, SentElements DEF ServerReply
  <2> QED BY <1>1, <1>4, <2>1, <2>2 DEF ServerReply, ServerClock
<1>5. CASE ServerIgnore
  BY <1>1, <1>5, NoPacketType DEF ServerIgnore, NextRound, ServerClock, networkVars
<1>6. CASE ServerFollowup
  <2>1. FollowupReply \in Packets
    BY FollowupReplyType
  <2>2. s2c' \in Seq(Packets)
    BY <1>6, <2>1, SentElements DEF ServerFollowup
  <2> QED BY <1>1, <1>6, <2>2, NoPacketType DEF ServerFollowup, NextRound, ServerClock
<1>7. CASE ServerExit
  BY <1>1, <1>7 DEF ServerExit, ServerClock, networkVars
<1>8. CASE SetActive
  BY <1>1, <1>8, ServerAssumption DEF SetActive, ServerClock, networkVars
<1>9. CASE SetFollowup
  BY <1>1, <1>9, ServerAssumption DEF SetFollowup, ServerClock, networkVars
<1>10. CASE ServerStop
  BY <1>1, <1>10 DEF ServerStop, ServerClock, networkVars
<1> QED
  BY <1>2, <1>3, <1>4, <1>5, <1>6, <1>7, <1>8, <1>9, <1>10 DEF ServerNext, ServerThread

\* What the cases of the client's switch have in common.
LEMMA HandlingType ==
    ASSUME TypeOK, NEW k, Handling(k)
    PROVE  /\ NetworkTypeOK'
           /\ resp' \in Packets /\ respTime' \in Nat
           /\ servaddr' \in Hosts /\ cliCancelled' \in BOOLEAN
BY NoPacketType
DEF TypeOK, NetworkTypeOK, ClientTypeOK, Handling, ServerClock, networkVars

\* Waiting again, with or without a new best candidate, keeps the types.
LEMMA WaitingType ==
    ASSUME TypeOK, StartWaiting
    PROVE  cpc' \in {"send", "recv", "handle", "synced", "sleep", "done"} /\ deadline' \in Nat
BY ClientAssumption DEF TypeOK, NetworkTypeOK, StartWaiting

\* update keeps the types of what it changes.
LEMMA UpdateType ==
    ASSUME TypeOK, NEW c \in Candidates, Update(c)
    PROVE  /\ cpc' \in {"send", "recv", "handle", "synced", "sleep", "done"}
           /\ deadline' \in Nat
           /\ best' \in Candidates \cup {None}
           /\ offset' \in Int
           /\ synced' \in BOOLEAN
<1>1. CASE Accept(c)
  BY <1>1 DEF Accept, TypeOK, ClientTypeOK, Candidates
<1>2. CASE Reject(c)
  BY <1>2, WaitingType DEF Reject, TypeOK, ClientTypeOK, clockVars
<1> QED BY <1>1, <1>2 DEF Update

\* every step of the client's process keeps it.
LEMMA ClientStepType ==
    TypeOK /\ ClientNext /\ UNCHANGED serverVars => TypeOK'
<1> SUFFICES ASSUME TypeOK, ClientNext, UNCHANGED serverVars PROVE TypeOK'
  OBVIOUS
<1>1. ServerTypeOK'
  BY DEF TypeOK, ServerTypeOK, serverVars
<1> USE DEF TypeOK, ClientTypeOK
<1>2. CASE ClientSend
  <2>1. NewPacket("REQUEST", "client", OnWire(now)) \in Packets
    BY NewPacketType, OnWireNat DEF NetworkTypeOK, Kinds, Hosts
  <2>2. c2s' \in Seq(Packets)
    BY <1>2, <2>1, SentElements DEF ClientSend, NetworkTypeOK
  <2> QED
    BY <1>1, <1>2, <2>2, WaitingType
    DEF ClientSend, NetworkTypeOK, ServerClock, packetVars, exchangeVars, clockVars
<1>3. CASE ClientReceive
  <2>1. PICK i \in 1 .. Len(s2c) : ClientReceives(i)
    BY <1>3 DEF ClientReceive
  <2>2. s2c' \in Seq(Packets) /\ s2c[i] \in Packets
    BY <2>1, ReceivedElements DEF ClientReceives, NetworkTypeOK
  <2>3. s2c[i].from \in Hosts
    BY <2>2 DEF Packets
  <2> QED
    BY <1>1, <2>1, <2>2, <2>3
    DEF ClientReceives, NetworkTypeOK, ServerClock, exchangeVars, clockVars
<1>4. CASE ClientReceiveError
  <2>1. PICK i \in Deliverable(s2c) : s2c' = RemoveAt(s2c, i) /\ servaddr' = s2c[i].from
    BY <1>4 DEF ClientReceiveError
  <2>2. s2c' \in Seq(Packets) /\ s2c[i] \in Packets
    BY <2>1, RemoveAtElements DEF Deliverable, NetworkTypeOK
  <2>3. servaddr' \in Hosts
    BY <2>1, <2>2 DEF Packets
  <2>4. /\ cpc' = "sleep" /\ deadline' = now + Pause
        /\ UNCHANGED <<now, skew, settle, c2s, resp, respTime, lastType, responseTime,
                       lastResponse, best, offset, synced, cliCancelled>>
    BY <1>4 DEF ClientReceiveError, StartSleeping, packetVars, exchangeVars, clockVars
  <2> QED
    BY <1>1, <2>2, <2>3, <2>4, ClientAssumption DEF NetworkTypeOK, ServerClock
<1>5. CASE ClientTimeout \/ ClientInterrupted \/ ClientWake \/ ClientExit \/ ClientStop
  <2>1. /\ UNCHANGED networkVars
        /\ UNCHANGED <<resp, respTime, lastType, responseTime, lastResponse,
                       best, offset, synced, servaddr>>
    BY <1>5
    DEF ClientTimeout, ClientInterrupted, ClientWake, ClientExit, ClientStop,
        packetVars, exchangeVars, clockVars
  <2>2. cpc' \in {"send", "recv", "handle", "synced", "sleep", "done"} /\ deadline' \in Nat
    BY <1>5, ClientAssumption
    DEF ClientTimeout, ClientInterrupted, ClientWake, ClientExit, ClientStop, StartSleeping,
        NetworkTypeOK
  <2>3. cliCancelled' \in BOOLEAN
    BY <1>5 DEF ClientTimeout, ClientInterrupted, ClientWake, ClientExit, ClientStop
  <2>4. NetworkTypeOK'
    BY <2>1 DEF NetworkTypeOK, ServerClock, networkVars
  <2> QED BY <1>1, <2>1, <2>2, <2>3, <2>4
<1>6. CASE HandleRequest
  BY <1>1, <1>6, HandlingType, WaitingType DEF HandleRequest, Ignore, exchangeVars, clockVars
<1>7. CASE HandleResponse
  <2>1. Candidate(resp, respTime) \in Candidates
    BY CandidateType
  <2>2. lastType' \in Kinds /\ responseTime' \in Nat /\ lastResponse' \in Packets
    BY <1>7 DEF HandleResponse, RememberResponse, Packets
  <2> QED BY <1>1, <1>7, <2>1, <2>2, HandlingType, UpdateType DEF HandleResponse
<1>8. CASE HandleResponseWithFollowup
  <2>1. lastType' \in Kinds /\ responseTime' \in Nat /\ lastResponse' \in Packets
    BY <1>8 DEF HandleResponseWithFollowup, RememberResponse, Packets
  <2> QED
    BY <1>1, <1>8, <2>1, HandlingType, WaitingType
    DEF HandleResponseWithFollowup, Ignore, clockVars
<1>9. CASE HandleFollowup
  <2>1. Candidate(resp, MeasuredAt) \in Candidates
    BY CandidateType DEF MeasuredAt
  <2>2. lastType' \in Kinds
    BY <1>9 DEF HandleFollowup, Packets
  <2>3. CASE IsMeasurement
    BY <1>1, <1>9, <2>1, <2>2, <2>3, HandlingType, UpdateType DEF HandleFollowup
  <2>4. CASE ~IsMeasurement
    BY <1>1, <1>9, <2>2, <2>4, HandlingType, WaitingType DEF HandleFollowup, Ignore, clockVars
  <2> QED BY <2>3, <2>4
<1>10. CASE HandleOther
  <2>1. lastType' \in Kinds
    BY <1>10 DEF HandleOther, Packets
  <2> QED BY <1>1, <1>10, <2>1, HandlingType, WaitingType DEF HandleOther, Ignore, clockVars
<1>11. CASE SetSynced
  BY <1>1, <1>11, WaitingType
  DEF SetSynced, NetworkTypeOK, ServerClock, networkVars, packetVars, exchangeVars
<1> QED
  BY <1>2, <1>3, <1>4, <1>5, <1>6, <1>7, <1>8, <1>9, <1>10, <1>11
  DEF ClientNext, ClientThread

\* Every variable keeps to its type, for every network and every value of the
\* constants: the packets in flight hold times and encoded numbers, and each
\* thread is at one of the steps of its loop.
THEOREM TypeCorrect == Spec => []TypeOK
<1>1. Init => TypeOK
  BY InitType
<1>2. TypeOK /\ [Next]_vars => TypeOK'
  <2> SUFFICES ASSUME TypeOK, [Next]_vars PROVE TypeOK'
    OBVIOUS
  <2>1. CASE Next
    BY <2>1, NetworkStepType, ServerStepType, ClientStepType DEF Next
  <2>2. CASE UNCHANGED vars
    BY <2>2
    DEF vars, networkVars, serverVars, clientVars, packetVars, exchangeVars, clockVars,
        TypeOK, NetworkTypeOK, ServerTypeOK, ClientTypeOK, ServerClock
  <2> QED BY <2>1, <2>2
<1> QED BY <1>1, <1>2, PTL DEF Spec
=============================================================================
