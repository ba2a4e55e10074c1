------------------------- MODULE WallClockOnce_proofs -------------------------
(***************************************************************************)
(* No exchange is measured twice on a network that keeps the order and     *)
(* repeats nothing: OnceInv is inductive and implies MeasuredOnce.         *)
(***************************************************************************)
EXTENDS WallClockPairs_proofs

-----------------------------------------------------------------------------
(* What a step does to the two channels and to what the server holds. *)

\* A network that keeps the order and repeats nothing takes out what is received.
LEMMA TakesFirst ==
    ASSUME OnceAssumption, NEW s \in Seq(Packets), NEW i \in Deliverable(s),
           NEW r \in Received(s, i)
    PROVE  i = 1 /\ Len(s) > 0 /\ r = RemoveAt(s, 1)
BY DEF OnceAssumption, Deliverable, Received

\* Requests are sent with the time they are sent at, and received one by one.
LEMMA RequestChannel ==
    ASSUME OnceAssumption, TypeOK, now <= MaxTime, Next
    PROVE  \/ c2s' = c2s
           \/ \E m \in Packets :
                 /\ c2s' = Append(c2s, m)
                 /\ Asks(m) => /\ m.t1 = now /\ now' = now
                               /\ cpc = "send" /\ ~cliCancelled /\ cpc' = "recv"
           \/ Len(c2s) > 0 /\ c2s' = RemoveAt(c2s, 1)
<1>1. c2s \in Seq(Packets) /\ now \in Nat
  BY DEF TypeOK, NetworkTypeOK
<1>2. CASE StrayToServer
  <2>1. PICK h \in ServerStrays : c2s' = Append(c2s, NewPacket(h, "other", 0))
    BY <1>2 DEF StrayToServer
  <2>2. NewPacket(h, "other", 0) \in Packets /\ ~ Asks(NewPacket(h, "other", 0))
    <3>1. NewPacket(h, "other", 0) \in Packets
      BY NetworkAssumption, NewPacketType DEF Kinds, Hosts
    <3> QED BY <3>1, NetworkAssumption DEF Asks, NewPacket
  <2> HIDE DEF NewPacket
  <2> QED BY <2>1, <2>2
<1>3. CASE ClientSend
  <2> DEFINE m == NewPacket("REQUEST", "client", OnWire(now))
  <2>1. c2s' = c2s \/ c2s' = Append(c2s, m)
    BY <1>3 DEF ClientSend, Sent
  <2>2. m \in Packets
    BY <1>1, NewPacketType, OnWireNat DEF Kinds, Hosts
  <2>3. m.t1 = now
    <3>1. now < U32 * SECOND
      BY <1>1, NetworkAssumption, WidthAssumption DEF OnceAssumption
    <3> QED BY <1>1, <3>1, OnWireIdentity DEF NewPacket
  <2>4. cpc = "send" /\ ~cliCancelled /\ cpc' = "recv" /\ now' = now
    BY <1>3 DEF ClientSend, StartWaiting
  <2> HIDE DEF m
  <2> QED BY <2>1, <2>2, <2>3, <2>4
<1>4. CASE ServerReceive
  <2>1. PICK i \in Deliverable(c2s) : c2s' \in Received(c2s, i)
    BY <1>4 DEF ServerReceive, ServerReceives
  <2> QED BY <1>1, <2>1, TakesFirst
<1>5. CASE ServerReceiveError
  <2>1. PICK i \in Deliverable(c2s) : c2s' = RemoveAt(c2s, i)
    BY <1>5 DEF ServerReceiveError
  <2> QED BY <1>1, <2>1, TakesFirst DEF Received
<1>6. CASE ~ StrayToServer /\ ~ ClientSend /\ ~ ServerReceive /\ ~ ServerReceiveError
  <2>1. c2s' = c2s
    BY <1>6
    DEF Next, NetworkNext, Tick, StrayToClient, ServerNext, ServerThread, ServerReply,
        ServerIgnore, ServerFollowup, ServerExit, SetActive, SetFollowup, ServerStop,
        ClientNext, ClientThread, ClientReceive, ClientReceives, ClientReceiveError,
        ClientTimeout, ClientInterrupted, ClientWake, Handling, HandleRequest,
        HandleResponse, HandleResponseWithFollowup, HandleFollowup, HandleOther, SetSynced,
        ClientExit, ClientStop, networkVars
  <2> QED BY <2>1
<1> QED BY <1>2, <1>3, <1>4, <1>5, <1>6

\* The server sends the response to the request it holds, or the follow-up to the
\* response it has sent.
LEMMA ReplyChannel ==
    ASSUME OnceAssumption, TypeOK, Next
    PROVE  \/ s2c' = s2c
           \/ \E m \in Packets :
                 /\ s2c' = Append(s2c, m)
                 /\ Answers(m) =>
                       \/ /\ spc = "reply" /\ Asks(rx) /\ spc' = "follow"
                          /\ reply'.t1 = rx.t1 /\ m.t1 = rx.t1 /\ m.kind # "FOLLOWUP"
                       \/ /\ spc = "follow" /\ spc' = "wait"
                          /\ m.t1 = reply.t1 /\ m.kind = "FOLLOWUP"
           \/ Len(s2c) > 0 /\ s2c' = RemoveAt(s2c, 1)
<1>1. s2c \in Seq(Packets) /\ rx \in Packets /\ reply \in Packets
  BY DEF TypeOK, NetworkTypeOK, ServerTypeOK
<1>2. CASE StrayToClient
  <2>1. PICK h \in ClientStrays : s2c' = Append(s2c, NewPacket(h, "other", 0))
    BY <1>2 DEF StrayToClient
  <2>2. NewPacket(h, "other", 0) \in Packets /\ ~ Answers(NewPacket(h, "other", 0))
    <3>1. NewPacket(h, "other", 0) \in Packets
      BY NetworkAssumption, NewPacketType DEF Kinds, Hosts
    <3> QED BY <3>1, NetworkAssumption DEF Answers, Replies, NewPacket
  <2> HIDE DEF NewPacket
  <2> QED BY <2>1, <2>2
<1>3. CASE ServerReply
  <2>1. s2c' = s2c \/ s2c' = Append(s2c, Response)
    BY <1>3 DEF ServerReply, Sent
  <2>2. Response \in Packets /\ Response.t1 = rx.t1 /\ Response.kind # "FOLLOWUP"
    BY <1>1, ResponseType DEF Response, Packets
  <2>3. spc = "reply" /\ Asks(rx) /\ spc' = "follow" /\ reply' = Response
    BY <1>3 DEF ServerReply, ServerAnswers, Asks
  <2> HIDE DEF Response
  <2> QED BY <2>1, <2>2, <2>3
<1>4. CASE ServerFollowup
  <2>1. s2c' = s2c \/ s2c' = Append(s2c, FollowupReply)
    BY <1>4 DEF ServerFollowup, Sent
  <2>2. FollowupReply \in Packets /\ FollowupReply.t1 = reply.t1 /\ FollowupReply.kind = "FOLLOWUP"
    BY <1>1, FollowupReplyType DEF FollowupReply, Packets
  <2>3. spc = "follow" /\ spc' = "wait"
    BY <1>4 DEF ServerFollowup, NextRound
  <2> HIDE DEF FollowupReply
  <2> QED BY <2>1, <2>2, <2>3
<1>5. CASE ClientReceive
  <2>1. PICK i \in Deliverable(s2c) : s2c' \in Received(s2c, i)
    BY <1>5 DEF ClientReceive, ClientReceives
  <2> QED BY <1>1, <2>1, TakesFirst
<1>6. CASE ClientReceiveError
  <2>1. PICK i \in Deliverable(s2c) : s2c' = RemoveAt(s2c, i)
    BY <1>6 DEF ClientReceiveError
  <2> QED BY <1>1, <2>1, TakesFirst DEF Received
<1>7. CASE /\ ~ StrayToClient /\ ~ ServerReply /\ ~ ServerFollowup
           /\ ~ ClientReceive /\ ~ ClientReceiveError
  <2>1. s2c' = s2c
    BY <1>7
    DEF Next, NetworkNext, Tick, StrayToServer, ServerNext, ServerThread, ServerReceive,
        ServerReceives, ServerReceiveError, ServerIgnore, ServerExit, SetActive, SetFollowup,
        ServerStop, ClientNext, ClientThread, ClientSend, ClientTimeout, ClientInterrupted,
        ClientWake, Handling, HandleRequest, HandleResponse, HandleResponseWithFollowup,
        HandleFollowup, HandleOther, SetSynced, ClientExit, ClientStop, networkVars
  <2> QED BY <2>1
<1> QED BY <1>2, <1>3, <1>4, <1>5, <1>6, <1>7

\* The server answers the request it took out of the channel, with its t1.
LEMMA ServerHolds ==
    ASSUME OnceAssumption, TypeOK, Next
    PROVE  /\ spc' = "reply" => \/ spc = "reply" /\ rx' = rx
                                \/ Len(c2s) > 0 /\ rx' = c2s[1] /\ c2s' = RemoveAt(c2s, 1)
           /\ spc' = "follow" => \/ spc = "follow" /\ reply' = reply
                                 \/ spc = "reply" /\ Asks(rx) /\ reply'.t1 = rx.t1
<1>1. c2s \in Seq(Packets) /\ rx \in Packets
  BY DEF TypeOK, NetworkTypeOK, ServerTypeOK
<1>2. CASE ServerReceive
  <2>1. PICK i \in 1 .. Len(c2s) : ServerReceives(i)
    BY <1>2 DEF ServerReceive
  <2>2. i = 1 /\ Len(c2s) > 0 /\ c2s' = RemoveAt(c2s, 1)
    BY <1>1, <2>1, TakesFirst DEF ServerReceives
  <2> QED BY <2>1, <2>2 DEF ServerReceives
<1>3. CASE ServerReply
  <2>1. Response.t1 = rx.t1
    BY <1>1 DEF Response, Packets
  <2> QED BY <1>3, <2>1 DEF ServerReply, ServerAnswers, Asks
<1>4. CASE ~ ServerReceive /\ ~ ServerReply
  BY <1>4
  DEF Next, ServerNext, ServerThread, ServerReceiveError, ServerIgnore, ServerFollowup,
      ServerExit, SetActive, SetFollowup, ServerStop, NextRound, serverVars
<1> QED BY <1>2, <1>3, <1>4

-----------------------------------------------------------------------------
(* What is behind everything stays behind it. *)

\* The client's next request is always later than what is past.
LEMMA AskedBeforeStays ==
    ASSUME OnceAssumption, TypeOK, Next, NEW t \in Nat, AskedBefore(t)
    PROVE  AskedBefore(t)'
<1>1. /\ now \in Nat /\ deadline \in Nat /\ cliCancelled \in BOOLEAN
      /\ Pause \in Nat /\ Pause > 0
  BY ClientAssumption DEF TypeOK, NetworkTypeOK, ClientTypeOK, OnceAssumption
<1>2. CASE NetworkNext /\ UNCHANGED <<serverVars, clientVars>>
  <2>1. UNCHANGED <<cpc, deadline, cliCancelled>>
    BY <1>2 DEF clientVars
  <2>2. now' = now \/ now' = now + 1
    BY <1>2 DEF NetworkNext, Tick, StrayToServer, StrayToClient
  <2> QED BY <1>1, <2>1, <2>2 DEF AskedBefore
<1>3. CASE ServerNext /\ UNCHANGED clientVars
  <2>1. UNCHANGED <<now, cpc, deadline, cliCancelled>>
    BY <1>3
    DEF ServerNext, ServerThread, ServerReceive, ServerReceives, ServerReceiveError,
        ServerReply, ServerIgnore, ServerFollowup, ServerExit, SetActive, SetFollowup,
        ServerStop, networkVars, clientVars
  <2> QED BY <2>1 DEF AskedBefore
<1>4. CASE ClientNext /\ UNCHANGED serverVars
  <2> USE <1>4 DEF ClientNext, ClientThread
  <2>1. now' = now
    BY DEF ClientSend, ClientReceive, ClientReceives, ClientReceiveError, ClientTimeout,
           ClientInterrupted, ClientWake, Handling, HandleRequest, HandleResponse,
           HandleResponseWithFollowup, HandleFollowup, HandleOther, SetSynced, ClientExit,
           ClientStop, networkVars
  <2>2. CASE ClientReceiveError \/ ClientTimeout
    <3>1. cpc' = "sleep" /\ deadline' = now + Pause
      BY <2>2 DEF ClientReceiveError, ClientTimeout, StartSleeping
    <3> QED BY <1>1, <2>1, <3>1 DEF AskedBefore
  <2>3. CASE ClientWake
    <3>1. cpc = "sleep" /\ now >= deadline /\ cpc' = "send"
      BY <2>3 DEF ClientWake
    <3> QED BY <1>1, <2>1, <3>1 DEF AskedBefore
  <2>4. CASE ClientInterrupted
    BY <2>1, <2>4 DEF ClientInterrupted, AskedBefore
  <2>5. CASE ClientStop
    BY <2>1, <2>5 DEF ClientStop, AskedBefore
  <2>6. CASE /\ ~ ClientReceiveError /\ ~ ClientTimeout /\ ~ ClientWake
             /\ ~ ClientInterrupted /\ ~ ClientStop
    <3>1. cpc' \notin {"send", "sleep"}
      BY <2>6
      DEF ClientSend, ClientReceive, ClientReceives, HandleRequest, HandleResponse,
          HandleResponseWithFollowup, HandleFollowup, HandleOther, SetSynced, ClientExit,
          StartWaiting, Ignore, Update, Accept, Reject
    <3> QED BY <2>1, <3>1 DEF AskedBefore
  <2> QED BY <2>2, <2>3, <2>4, <2>5, <2>6
<1> QED BY <1>2, <1>3, <1>4 DEF Next

\* Requests in flight stay ahead of what they are ahead of, and so are new ones.
LEMMA AheadOfRequestsStays ==
    ASSUME OnceAssumption, TypeOK, now <= MaxTime, Next, NEW t \in Nat, AheadOfRequests(t)
    PROVE  AheadOfRequests(t)'
<1>1. c2s \in Seq(Packets)
  BY DEF TypeOK, NetworkTypeOK
<1>2. AskedBefore(t)'
  BY AskedBeforeStays DEF AheadOfRequests
<1>3. ASSUME NEW i \in 1 .. Len(c2s'), Asks(c2s'[i]) PROVE t < c2s'[i].t1
  <2>1. CASE c2s' = c2s
    BY <1>3, <2>1 DEF AheadOfRequests
  <2>2. ASSUME NEW m \in Packets, c2s' = Append(c2s, m),
               Asks(m) => m.t1 = now /\ cpc = "send" /\ ~cliCancelled
        PROVE  t < c2s'[i].t1
    <3>1. CASE i <= Len(c2s)
      <4>1. i \in 1 .. Len(c2s) /\ c2s'[i] = c2s[i]
        BY <1>1, <2>2, <3>1
      <4> QED BY <1>3, <4>1 DEF AheadOfRequests
    <3>2. CASE i > Len(c2s)
      <4>1. c2s'[i] = m
        BY <1>1, <2>2, <3>2
      <4> QED BY <1>3, <2>2, <4>1 DEF AheadOfRequests, AskedBefore
    <3> QED BY <1>1, <3>1, <3>2
  <2>3. CASE Len(c2s) > 0 /\ c2s' = RemoveAt(c2s, 1)
    <3>1. i + 1 \in 1 .. Len(c2s) /\ c2s'[i] = c2s[i + 1]
      BY <1>1, <2>3, FirstTaken
    <3> QED BY <1>3, <3>1 DEF AheadOfRequests
  <2> QED BY <2>1, <2>2, <2>3, RequestChannel
<1> QED BY <1>2, <1>3 DEF AheadOfRequests

\* So is what the server answers next,
LEMMA AheadOfServerStays ==
    ASSUME OnceAssumption, TypeOK, now <= MaxTime, Next, NEW t \in Nat, AheadOfServer(t)
    PROVE  AheadOfServer(t)'
<1>1. AheadOfRequests(t)'
  BY AheadOfRequestsStays DEF AheadOfServer
<1>2. spc' = "reply" /\ Asks(rx') => t < rx'.t1
  <2>1. Len(c2s) > 0 /\ Asks(c2s[1]) => t < c2s[1].t1
    BY DEF AheadOfServer, AheadOfRequests, TypeOK, NetworkTypeOK
  <2> QED BY <2>1, ServerHolds DEF AheadOfServer
<1>3. spc' = "follow" => t <= reply'.t1
  <2>1. rx.t1 \in Nat
    BY DEF TypeOK, ServerTypeOK, Packets
  <2> QED BY <2>1, ServerHolds DEF AheadOfServer
<1> QED BY <1>1, <1>2, <1>3 DEF AheadOfServer

\* and what is on its way to the client.
LEMMA AheadOfRepliesStays ==
    ASSUME OnceAssumption, TypeOK, now <= MaxTime, Next, NEW t \in Nat, AheadOfReplies(t)
    PROVE  AheadOfReplies(t)'
<1>1. s2c \in Seq(Packets) /\ rx.t1 \in Nat /\ reply.t1 \in Nat
  BY DEF TypeOK, NetworkTypeOK, ServerTypeOK, Packets
<1>2. AheadOfServer(t)'
  BY AheadOfServerStays DEF AheadOfReplies
<1>3. ASSUME NEW i \in 1 .. Len(s2c'), Answers(s2c'[i]) PROVE ComesAfter(s2c'[i], t)
  <2>1. CASE s2c' = s2c
    BY <1>3, <2>1 DEF AheadOfReplies
  <2>2. ASSUME NEW m \in Packets, s2c' = Append(s2c, m),
               Answers(m) => \/ spc = "reply" /\ Asks(rx) /\ m.t1 = rx.t1
                             \/ spc = "follow" /\ m.t1 = reply.t1 /\ m.kind = "FOLLOWUP"
        PROVE  ComesAfter(s2c'[i], t)
    <3>1. CASE i <= Len(s2c)
      <4>1. i \in 1 .. Len(s2c) /\ s2c'[i] = s2c[i]
        BY <1>1, <2>2, <3>1
      <4> QED BY <1>3, <4>1 DEF AheadOfReplies
    <3>2. CASE i > Len(s2c)
      <4>1. s2c'[i] = m
        BY <1>1, <2>2, <3>2
      <4> QED BY <1>1, <1>3, <2>2, <4>1 DEF AheadOfReplies, AheadOfServer, ComesAfter
    <3> QED BY <1>1, <3>1, <3>2
  <2>3. CASE Len(s2c) > 0 /\ s2c' = RemoveAt(s2c, 1)
    <3>1. i + 1 \in 1 .. Len(s2c) /\ s2c'[i] = s2c[i + 1]
      BY <1>1, <2>3, FirstTaken
    <3> QED BY <1>3, <3>1 DEF AheadOfReplies
  <2> QED BY <2>1, <2>2, <2>3, ReplyChannel
<1> QED BY <1>2, <1>3 DEF AheadOfReplies

-----------------------------------------------------------------------------
(* The invariant is inductive. *)

\* It holds initially: nothing was asked.
LEMMA InitOnceInv == OnceAssumption /\ Init => OnceInv
<1> SUFFICES ASSUME OnceAssumption, Init PROVE OnceInv
  OBVIOUS
<1>1. TypeOK /\ now <= MaxTime
  BY InitType DEF Init, NetworkInit, OnceAssumption
<1>2. /\ Len(c2s) = 0 /\ Len(s2c) = 0 /\ spc = "wait" /\ cpc = "send"
      /\ lastType = "REQUEST" /\ best = None
  BY DEF Init, NetworkInit, ServerInit, ClientInit
<1> QED
  BY <1>1, <1>2 DEF OnceInv, RequestsInOrder, ServerInOrder, RepliesInOrder, ClientInOrder

\* The times of a channel are times.
LEMMA ChannelTimes ==
    ASSUME NEW s \in Seq(Packets), NEW i \in 1 .. Len(s) PROVE s[i] \in Packets /\ s[i].t1 \in Nat
<1>1. s[i] \in Packets
  OBVIOUS
<1> QED BY <1>1 DEF Packets

\* Requests stay in order: a new one is later than all before it.
LEMMA RequestsStayInOrder ==
    ASSUME OnceAssumption, OnceInv, Next PROVE RequestsInOrder'
<1>1. TypeOK /\ now <= MaxTime /\ c2s \in Seq(Packets) /\ now \in Nat
  BY DEF OnceInv, TypeOK, NetworkTypeOK
<1>2. /\ \A i, j \in 1 .. Len(c2s) :
            i < j /\ Asks(c2s[i]) /\ Asks(c2s[j]) => c2s[i].t1 < c2s[j].t1
      /\ \A i \in 1 .. Len(c2s) : Asks(c2s[i]) => AskedBefore(c2s[i].t1)
  BY DEF OnceInv, RequestsInOrder
<1>3. ASSUME NEW i \in 1 .. Len(c2s), Asks(c2s[i])
      PROVE  \E t \in Nat : t = c2s[i].t1 /\ AskedBefore(t)'
  <2>1. PICK t \in Nat : t = c2s[i].t1
    BY <1>1, ChannelTimes
  <2>2. AskedBefore(t)
    BY <1>2, <1>3, <2>1
  <2> QED BY <1>1, <2>1, <2>2, AskedBeforeStays
<1> DEFINE
      Ordered == \A i, j \in 1 .. Len(c2s') :
          i < j /\ Asks(c2s'[i]) /\ Asks(c2s'[j]) => c2s'[i].t1 < c2s'[j].t1
      Behind == \A i \in 1 .. Len(c2s') :
          Asks(c2s'[i]) => \E t \in Nat : t = c2s'[i].t1 /\ AskedBefore(t)'
<1>4. Ordered /\ Behind
  <2>1. CASE c2s' = c2s
    BY <1>2, <1>3, <2>1
  <2>2. ASSUME NEW m \in Packets, c2s' = Append(c2s, m),
               Asks(m) => /\ m.t1 = now /\ now' = now
                          /\ cpc = "send" /\ ~cliCancelled /\ cpc' = "recv"
        PROVE  Ordered /\ Behind
    <3>1. Len(c2s') = Len(c2s) + 1 /\ c2s'[Len(c2s) + 1] = m
          /\ \A i \in 1 .. Len(c2s) : c2s'[i] = c2s[i]
      BY <1>1, <2>2
    <3>2. Asks(m) => \A i \in 1 .. Len(c2s) : Asks(c2s[i]) => c2s[i].t1 < m.t1
      BY <1>2, <2>2 DEF AskedBefore
    <3>3. Asks(m) => \E t \in Nat : t = m.t1 /\ AskedBefore(t)'
      BY <1>1, <2>2 DEF AskedBefore
    <3>4. Len(c2s) \in Nat
      BY <1>1
    <3> QED BY <1>2, <1>3, <3>1, <3>2, <3>3, <3>4
  <2>3. CASE Len(c2s) > 0 /\ c2s' = RemoveAt(c2s, 1)
    <3>1. /\ Len(c2s') = Len(c2s) - 1 /\ Len(c2s) \in Nat
          /\ \A j \in 1 .. Len(c2s) - 1 : c2s'[j] = c2s[j + 1]
      BY <1>1, <2>3, FirstTaken
    <3>2. ASSUME NEW i \in 1 .. Len(c2s')
          PROVE  i + 1 \in 1 .. Len(c2s) /\ c2s'[i] = c2s[i + 1]
      BY <3>1
    <3>3. ASSUME NEW i \in 1 .. Len(c2s'), NEW j \in 1 .. Len(c2s'), i < j,
                 Asks(c2s'[i]), Asks(c2s'[j])
          PROVE  c2s'[i].t1 < c2s'[j].t1
      <4>1. i + 1 < j + 1
        BY <3>1, <3>3
      <4> QED BY <1>2, <3>2, <3>3, <4>1
    <3> QED BY <1>3, <3>2, <3>3
  <2> QED BY <1>1, <2>1, <2>2, <2>3, RequestChannel
<1> QED BY <1>4 DEF RequestsInOrder, AskedBefore

\* The server holds what is earlier than the requests in flight.
LEMMA ServerStaysInOrder ==
    ASSUME OnceAssumption, OnceInv, Next PROVE ServerInOrder'
<1>1. /\ TypeOK /\ now <= MaxTime /\ c2s \in Seq(Packets)
      /\ rx \in Packets /\ reply \in Packets
  BY DEF OnceInv, TypeOK, NetworkTypeOK, ServerTypeOK
<1>2. ASSUME spc' = "reply", Asks(rx')
      PROVE  \E t \in Nat : t = rx'.t1 /\ AheadOfRequests(t)'
  <2>1. CASE spc = "reply" /\ rx' = rx
    <3>1. PICK t \in Nat : t = rx.t1
      BY <1>1 DEF Packets
    <3>2. AheadOfRequests(t)
      BY <1>2, <2>1, <3>1 DEF OnceInv, ServerInOrder
    <3> QED BY <1>1, <2>1, <3>1, <3>2, AheadOfRequestsStays
  <2>2. CASE Len(c2s) > 0 /\ rx' = c2s[1] /\ c2s' = RemoveAt(c2s, 1)
    <3>1. 1 \in 1 .. Len(c2s) /\ Len(c2s) \in Nat
      BY <1>1, <2>2
    <3>2. PICK t \in Nat : t = c2s[1].t1
      BY <1>1, <3>1, ChannelTimes
    <3>3. AskedBefore(t)
      BY <1>2, <2>2, <3>1, <3>2 DEF OnceInv, RequestsInOrder
    <3>4. AskedBefore(t)'
      BY <1>1, <3>3, AskedBeforeStays
    <3>5. ASSUME NEW i \in 1 .. Len(c2s'), Asks(c2s'[i]) PROVE t < c2s'[i].t1
      <4>1. i + 1 \in 1 .. Len(c2s) /\ 1 < i + 1 /\ c2s'[i] = c2s[i + 1]
        BY <1>1, <2>2, FirstTaken
      <4> QED BY <1>2, <2>2, <3>1, <3>2, <3>5, <4>1 DEF OnceInv, RequestsInOrder
    <3>6. AheadOfRequests(t)'
      BY <3>4, <3>5 DEF AheadOfRequests
    <3> QED BY <2>2, <3>2, <3>6
  <2> QED BY <1>1, <1>2, <2>1, <2>2, ServerHolds
<1>3. ASSUME spc' = "follow" PROVE \E t \in Nat : t = reply'.t1 /\ AheadOfRequests(t)'
  <2>1. PICK t \in Nat : t = reply'.t1 /\ AheadOfRequests(t)
    <3>1. CASE spc = "follow" /\ reply' = reply
      BY <1>1, <3>1 DEF Packets, OnceInv, ServerInOrder
    <3>2. CASE spc = "reply" /\ Asks(rx) /\ reply'.t1 = rx.t1
      BY <1>1, <3>2 DEF Packets, OnceInv, ServerInOrder
    <3> QED BY <1>1, <1>3, <3>1, <3>2, ServerHolds
  <2> QED BY <1>1, <2>1, AheadOfRequestsStays
<1> QED BY <1>2, <1>3 DEF ServerInOrder, AheadOfRequests, AskedBefore, Asks

\* Answers stay in order: a new one is of the exchange the server is at.
LEMMA RepliesStayInOrder ==
    ASSUME OnceAssumption, OnceInv, Next PROVE RepliesInOrder'
<1>1. /\ TypeOK /\ now <= MaxTime /\ s2c \in Seq(Packets)
      /\ rx \in Packets /\ reply \in Packets
  BY DEF OnceInv, TypeOK, NetworkTypeOK, ServerTypeOK
<1>2. /\ \A i, j \in 1 .. Len(s2c) :
            i < j /\ Answers(s2c[i]) /\ Answers(s2c[j]) => ComesAfter(s2c[j], s2c[i].t1)
      /\ \A i \in 1 .. Len(s2c) : Answers(s2c[i]) => AheadOfServer(s2c[i].t1)
  BY DEF OnceInv, RepliesInOrder
<1>3. ASSUME NEW i \in 1 .. Len(s2c), Answers(s2c[i])
      PROVE  \E t \in Nat : t = s2c[i].t1 /\ AheadOfServer(t)'
  <2>1. PICK t \in Nat : t = s2c[i].t1
    BY <1>1, ChannelTimes
  <2>2. AheadOfServer(t)
    BY <1>2, <1>3, <2>1
  <2> QED BY <1>1, <2>1, <2>2, AheadOfServerStays
<1> DEFINE
      Ordered == \A i, j \in 1 .. Len(s2c') :
          i < j /\ Answers(s2c'[i]) /\ Answers(s2c'[j]) => ComesAfter(s2c'[j], s2c'[i].t1)
      Behind == \A i \in 1 .. Len(s2c') :
          Answers(s2c'[i]) => \E t \in Nat : t = s2c'[i].t1 /\ AheadOfServer(t)'
<1>4. Ordered /\ Behind
  <2>1. CASE s2c' = s2c
    BY <1>2, <1>3, <2>1
  <2>2. ASSUME NEW m \in Packets, s2c' = Append(s2c, m),
               Answers(m) =>
                 \/ /\ spc = "reply" /\ Asks(rx) /\ spc' = "follow"
                    /\ reply'.t1 = rx.t1 /\ m.t1 = rx.t1 /\ m.kind # "FOLLOWUP"
                 \/ /\ spc = "follow" /\ spc' = "wait"
                    /\ m.t1 = reply.t1 /\ m.kind = "FOLLOWUP"
        PROVE  Ordered /\ Behind
    <3>1. Len(s2c') = Len(s2c) + 1 /\ s2c'[Len(s2c) + 1] = m
          /\ \A i \in 1 .. Len(s2c) : s2c'[i] = s2c[i]
      BY <1>1, <2>2
    <3>2. ASSUME Answers(m), NEW i \in 1 .. Len(s2c), Answers(s2c[i])
          PROVE  ComesAfter(m, s2c[i].t1)
      <4>1. s2c[i].t1 \in Nat /\ rx.t1 \in Nat /\ reply.t1 \in Nat
        BY <1>1, ChannelTimes DEF Packets
      <4>2. AheadOfServer(s2c[i].t1)
        BY <1>2, <3>2
      <4> QED BY <2>2, <3>2, <4>1, <4>2 DEF AheadOfServer, ComesAfter
    <3>3. ASSUME Answers(m) PROVE \E t \in Nat : t = m.t1 /\ AheadOfServer(t)'
      <4>1. PICK t \in Nat : t = m.t1
        BY DEF Packets
      <4>2. AheadOfRequests(t)
        BY <2>2, <3>3, <4>1 DEF OnceInv, ServerInOrder
      <4>3. AheadOfRequests(t)'
        BY <1>1, <4>2, AheadOfRequestsStays
      <4>4. AheadOfServer(t)'
        BY <2>2, <3>3, <4>1, <4>3 DEF AheadOfServer
      <4> QED BY <4>1, <4>4
    <3>4. Len(s2c) \in Nat
      BY <1>1
    <3> QED BY <1>2, <1>3, <3>1, <3>2, <3>3, <3>4
  <2>3. CASE Len(s2c) > 0 /\ s2c' = RemoveAt(s2c, 1)
    <3>1. /\ Len(s2c') = Len(s2c) - 1 /\ Len(s2c) \in Nat
          /\ \A j \in 1 .. Len(s2c) - 1 : s2c'[j] = s2c[j + 1]
      BY <1>1, <2>3, FirstTaken
    <3>2. ASSUME NEW i \in 1 .. Len(s2c')
          PROVE  i + 1 \in 1 .. Len(s2c) /\ s2c'[i] = s2c[i + 1]
      BY <3>1
    <3>3. ASSUME NEW i \in 1 .. Len(s2c'), NEW j \in 1 .. Len(s2c'), i < j,
                 Answers(s2c'[i]), Answers(s2c'[j])
          PROVE  ComesAfter(s2c'[j], s2c'[i].t1)
      <4>1. i + 1 < j + 1
        BY <3>1, <3>3
      <4> QED BY <1>2, <3>2, <3>3, <4>1
    <3> QED BY <1>3, <3>2, <3>3
  <2> QED BY <1>1, <2>1, <2>2, <2>3, ReplyChannel
<1> QED BY <1>4 DEF RepliesInOrder, AheadOfServer, AheadOfRequests, AskedBefore

\* What a step does to what the client knows: it receives, it handles, or nothing.
LEMMA ClientHolds ==
    ASSUME OnceAssumption, TypeOK, Next
    PROVE  \/ /\ Len(s2c) > 0 /\ resp' = s2c[1] /\ s2c' = RemoveAt(s2c, 1)
              /\ UNCHANGED <<lastType, lastResponse, best>>
           \/ /\ cpc = "handle" /\ cpc' # "handle"
              /\ lastType' = "RESPONSE_WITH_FOLLOWUP" =>
                    \/ lastType' = lastType /\ lastResponse' = lastResponse
                    \/ resp.kind = "RESPONSE_WITH_FOLLOWUP" /\ lastResponse' = resp
              /\ \/ best' = best
                 \/ /\ Answers(resp) /\ lastType' # "RESPONSE_WITH_FOLLOWUP"
                    /\ best'.t1 = resp.t1
           \/ /\ UNCHANGED <<resp, lastType, lastResponse, best>>
              /\ cpc' = "handle" => cpc = "handle"
<1>1. s2c \in Seq(Packets)
  BY DEF TypeOK, NetworkTypeOK
<1>2. CASE ClientReceive
  <2>1. PICK i \in 1 .. Len(s2c) : ClientReceives(i)
    BY <1>2 DEF ClientReceive
  <2>2. Len(s2c) > 0 /\ resp' = s2c[1] /\ s2c' = RemoveAt(s2c, 1)
    BY <1>1, <2>1, TakesFirst DEF ClientReceives
  <2> QED BY <2>1, <2>2 DEF ClientReceives, exchangeVars, clockVars
<1>3. CASE HandleResponse \/ HandleFollowup
  <2> DEFINE c(t) == Candidate(resp, t)
  <2>1. /\ cpc = "handle" /\ Answers(resp) /\ lastType' = resp.kind
        /\ resp.kind \in {"RESPONSE", "FOLLOWUP"}
    BY <1>3 DEF HandleResponse, HandleFollowup, Handling, RememberResponse, Answers, Replies
  <2>2. Ignore \/ \E t \in {respTime, MeasuredAt} : Update(c(t))
    BY <1>3 DEF HandleResponse, HandleFollowup
  <2>3. \A t : c(t).t1 = resp.t1
    BY DEF Candidate
  <2> HIDE DEF c
  <2>4. cpc' # "handle" /\ (best' = best \/ best'.t1 = resp.t1)
    BY <2>2, <2>3 DEF Ignore, Update, Accept, Reject, StartWaiting, clockVars
  <2> QED BY <2>1, <2>4
<1>4. CASE HandleRequest \/ HandleResponseWithFollowup \/ HandleOther
  BY <1>4
  DEF HandleRequest, HandleResponseWithFollowup, HandleOther, Handling, Ignore, StartWaiting,
      RememberResponse, exchangeVars, clockVars
<1>5. CASE /\ ~ ClientReceive /\ ~ HandleResponse /\ ~ HandleFollowup
           /\ ~ HandleRequest /\ ~ HandleResponseWithFollowup /\ ~ HandleOther
  BY <1>5
  DEF Next, ClientNext, ClientThread, ClientSend, ClientReceiveError, ClientTimeout,
      ClientInterrupted, ClientWake, SetSynced, ClientExit, ClientStop, StartWaiting,
      StartSleeping, clientVars, packetVars, exchangeVars, clockVars
<1> QED BY <1>2, <1>3, <1>4, <1>5

\* What the client takes from the channel is ahead of what it knows, and behind what
\* stays there.
LEMMA ReceivedInOrder ==
    ASSUME OnceAssumption, OnceInv, Next,
           Len(s2c) > 0, s2c' = RemoveAt(s2c, 1), Answers(s2c[1])
    PROVE  /\ \E t \in Nat : t = s2c[1].t1 /\ AheadOfReplies(t)'
           /\ \A t : AheadOfReplies(t) => ComesAfter(s2c[1], t)
<1>1. TypeOK /\ now <= MaxTime /\ s2c \in Seq(Packets)
  BY DEF OnceInv, TypeOK, NetworkTypeOK
<1>2. 1 \in 1 .. Len(s2c) /\ Len(s2c) \in Nat
  BY <1>1
<1>3. PICK t \in Nat : t = s2c[1].t1
  BY <1>1, <1>2, ChannelTimes
<1>4. AheadOfServer(t)
  BY <1>2, <1>3 DEF OnceInv, RepliesInOrder
<1>5. AheadOfServer(t)'
  BY <1>1, <1>4, AheadOfServerStays
<1>6. ASSUME NEW i \in 1 .. Len(s2c'), Answers(s2c'[i]) PROVE ComesAfter(s2c'[i], t)
  <2>1. i + 1 \in 1 .. Len(s2c) /\ 1 < i + 1 /\ s2c'[i] = s2c[i + 1]
    BY <1>1, <1>2, FirstTaken
  <2> QED BY <1>2, <1>3, <1>6, <2>1 DEF OnceInv, RepliesInOrder
<1>7. AheadOfReplies(t)'
  BY <1>5, <1>6 DEF AheadOfReplies
<1>8. \A u : AheadOfReplies(u) => ComesAfter(s2c[1], u)
  BY <1>2 DEF AheadOfReplies
<1> QED BY <1>3, <1>7, <1>8

\* What the client knows stays behind what is in flight, and in order: a response kept
\* for its follow-up is later than what was measured before.
LEMMA ClientStaysInOrder ==
    ASSUME OnceAssumption, OnceInv, Next PROVE ClientInOrder'
<1>1. TypeOK /\ now <= MaxTime /\ resp.t1 \in Nat /\ lastResponse.t1 \in Nat
  BY DEF OnceInv, TypeOK, ClientTypeOK, Packets
<1>2. best # None => best.t1 \in Nat
  BY DEF OnceInv, TypeOK, ClientTypeOK, Candidates
<1>3. ClientInOrder
  BY DEF OnceInv
<1>4. ASSUME NEW x \in Nat, AheadOfReplies(x)
      PROVE  \E t \in Nat : t = x /\ AheadOfReplies(t)'
  BY <1>1, <1>4, AheadOfRepliesStays
<1> DEFINE
      Packet   == cpc' = "handle" /\ Answers(resp') =>
                     \E t \in Nat : t = resp'.t1 /\ AheadOfReplies(t)'
      Kept     == lastType' = "RESPONSE_WITH_FOLLOWUP" =>
                     /\ \E t \in Nat : t = lastResponse'.t1 /\ AheadOfReplies(t)'
                     /\ cpc' = "handle" /\ Answers(resp') => lastResponse'.t1 <= resp'.t1
                     /\ best' # None => best'.t1 < lastResponse'.t1
      Best     == best' # None =>
                     /\ \E t \in Nat : t = best'.t1 /\ AheadOfReplies(t)'
                     /\ cpc' = "handle" /\ Answers(resp') => ComesAfter(resp', best'.t1)
<1>5. Packet /\ Kept /\ Best
  <2>1. ASSUME Len(s2c) > 0, resp' = s2c[1], s2c' = RemoveAt(s2c, 1),
               UNCHANGED <<lastType, lastResponse, best>>
        PROVE  Packet /\ Kept /\ Best
    <3>1. Answers(s2c[1]) => /\ \E t \in Nat : t = s2c[1].t1 /\ AheadOfReplies(t)'
                             /\ \A t : AheadOfReplies(t) => ComesAfter(s2c[1], t)
      BY <2>1, ReceivedInOrder
    <3>2. Packet
      BY <2>1, <3>1
    <3>3. Kept
      <4> SUFFICES ASSUME lastType = "RESPONSE_WITH_FOLLOWUP"
                   PROVE  /\ \E t \in Nat : t = lastResponse.t1 /\ AheadOfReplies(t)'
                          /\ Answers(s2c[1]) => lastResponse.t1 <= s2c[1].t1
                          /\ best # None => best.t1 < lastResponse.t1
        BY <2>1
      <4>1. AheadOfReplies(lastResponse.t1) /\ (best # None => best.t1 < lastResponse.t1)
        BY <1>3 DEF ClientInOrder
      <4>2. s2c[1].t1 \in Nat
        BY <1>1, <2>1, ChannelTimes DEF TypeOK, NetworkTypeOK
      <4> QED BY <1>1, <1>4, <3>1, <4>1, <4>2 DEF ComesAfter
    <3>4. Best
      <4>1. best # None => AheadOfReplies(best.t1)
        BY <1>3 DEF ClientInOrder
      <4> QED BY <1>2, <1>4, <2>1, <3>1, <4>1
    <3> QED BY <3>2, <3>3, <3>4
  <2>2. ASSUME cpc = "handle", cpc' # "handle",
               lastType' = "RESPONSE_WITH_FOLLOWUP" =>
                    \/ lastType' = lastType /\ lastResponse' = lastResponse
                    \/ resp.kind = "RESPONSE_WITH_FOLLOWUP" /\ lastResponse' = resp,
               \/ best' = best
               \/ /\ Answers(resp) /\ lastType' # "RESPONSE_WITH_FOLLOWUP"
                  /\ best'.t1 = resp.t1
        PROVE  Packet /\ Kept /\ Best
    <3>1. Answers(resp) => AheadOfReplies(resp.t1)
      BY <1>3, <2>2 DEF ClientInOrder
    <3>2. resp.kind = "RESPONSE_WITH_FOLLOWUP" => Answers(resp)
      BY DEF Answers, Replies
    <3>3. Kept
      <4> SUFFICES ASSUME lastType' = "RESPONSE_WITH_FOLLOWUP"
                   PROVE  /\ \E t \in Nat : t = lastResponse'.t1 /\ AheadOfReplies(t)'
                          /\ best # None => best.t1 < lastResponse'.t1
        BY <2>2
      <4>1. CASE lastType = "RESPONSE_WITH_FOLLOWUP" /\ lastResponse' = lastResponse
        <5>1. AheadOfReplies(lastResponse.t1) /\ (best # None => best.t1 < lastResponse.t1)
          BY <1>3, <4>1 DEF ClientInOrder
        <5> QED BY <1>1, <1>4, <4>1, <5>1
      <4>2. CASE resp.kind = "RESPONSE_WITH_FOLLOWUP" /\ lastResponse' = resp
        <5>1. best # None => best.t1 < resp.t1
          BY <1>2, <1>3, <2>2, <3>2, <4>2 DEF ClientInOrder, ComesAfter
        <5> QED BY <1>1, <1>4, <3>1, <3>2, <4>2, <5>1
      <4> QED BY <2>2, <4>1, <4>2
    <3>4. Best
      <4>1. best # None => AheadOfReplies(best.t1)
        BY <1>3 DEF ClientInOrder
      <4> QED BY <1>1, <1>2, <1>4, <2>2, <3>1, <4>1
    <3> QED BY <2>2, <3>3, <3>4
  <2>3. ASSUME UNCHANGED <<resp, lastType, lastResponse, best>>, cpc' = "handle" => cpc = "handle"
        PROVE  Packet /\ Kept /\ Best
    BY <1>1, <1>2, <1>3, <1>4, <2>3 DEF ClientInOrder
  <2> QED BY <1>1, <2>1, <2>2, <2>3, ClientHolds
<1> QED
  BY <1>5 DEF ClientInOrder, AheadOfReplies, AheadOfServer, AheadOfRequests, AskedBefore

\* Time is bounded by MaxTime.
LEMMA TimeBounded == ASSUME TypeOK, now <= MaxTime, Next PROVE now' <= MaxTime
<1>1. now \in Nat /\ MaxTime \in Nat
  BY NetworkAssumption DEF TypeOK, NetworkTypeOK
<1>2. CASE Tick
  BY <1>1, <1>2 DEF Tick
<1>3. CASE ~ Tick
  <2>1. now' = now
    BY <1>3
    DEF Next, NetworkNext, StrayToServer, StrayToClient, ServerNext, ServerThread,
        ServerReceive, ServerReceives, ServerReceiveError, ServerReply, ServerIgnore,
        ServerFollowup, ServerExit, SetActive, SetFollowup, ServerStop, ClientNext,
        ClientThread, ClientSend, ClientReceive, ClientReceives, ClientReceiveError,
        ClientTimeout, ClientInterrupted, ClientWake, Handling, HandleRequest, HandleResponse,
        HandleResponseWithFollowup, HandleFollowup, HandleOther, SetSynced, ClientExit,
        ClientStop, networkVars
  <2> QED BY <2>1
<1> QED BY <1>2, <1>3

\* Exchanges stay in order, from the requests in flight to the best candidate.
THEOREM InOrder == ASSUME OnceAssumption PROVE Spec => []OnceInv
<1>1. Init => OnceInv
  BY InitOnceInv
<1>2. OnceInv /\ [Next]_vars => OnceInv'
  <2> SUFFICES ASSUME OnceInv, [Next]_vars PROVE OnceInv'
    OBVIOUS
  <2>1. CASE Next
    <3>1. TypeOK'
      BY <2>1, NetworkStepType, ServerStepType, ClientStepType DEF OnceInv, Next
    <3>2. now' <= MaxTime
      BY <2>1, TimeBounded DEF OnceInv
    <3>3. RequestsInOrder' /\ ServerInOrder' /\ RepliesInOrder' /\ ClientInOrder'
      BY <2>1, RequestsStayInOrder, ServerStaysInOrder, RepliesStayInOrder, ClientStaysInOrder
    <3>4. MaxTime' = MaxTime
      OBVIOUS
    <3> QED BY <3>1, <3>2, <3>3 DEF OnceInv
  <2>2. CASE UNCHANGED vars
    <3>1. /\ UNCHANGED <<now, skew, settle, c2s, s2c>>
          /\ UNCHANGED <<spc, rx, rxTime, reply, active, followup, srvCancelled>>
          /\ UNCHANGED <<cpc, deadline, resp, respTime, lastType, responseTime, lastResponse>>
          /\ UNCHANGED <<best, offset, synced, servaddr, cliCancelled>>
      BY <2>2
      DEF vars, networkVars, serverVars, clientVars, packetVars, exchangeVars, clockVars
    <3>2. TypeOK' /\ now' <= MaxTime
      BY <3>1
      DEF OnceInv, TypeOK, NetworkTypeOK, ServerTypeOK, ClientTypeOK, ServerClock
    <3>3. RequestsInOrder' /\ ServerInOrder' /\ RepliesInOrder' /\ ClientInOrder'
      BY <3>1
      DEF OnceInv, RequestsInOrder, ServerInOrder, RepliesInOrder, ClientInOrder,
          AheadOfReplies, AheadOfServer, AheadOfRequests, AskedBefore
    <3> QED BY <3>2, <3>3 DEF OnceInv
  <2> QED BY <2>1, <2>2
<1> QED BY <1>1, <1>2, PTL DEF Spec

\* On a network that keeps the order and repeats nothing (it may lose), and for every
\* value of the other constants: what is given to update was always asked for later
\* than what the clock is calibrated with, whether the server announces follow-ups or
\* not and whenever it changes its mind (gst_dvb_css_wc_client_internal_clock_thread).
THEOREM OnlyOnce == ASSUME OnceAssumption PROVE Spec => []MeasuredOnce
<1>1. Spec => []OnceInv
  BY InOrder
<1>2. OnceInv => MeasuredOnce
  <2> SUFFICES ASSUME OnceInv, cpc = "handle", IsMeasurement, best # None
               PROVE  resp.t1 > best.t1
    BY DEF MeasuredOnce
  <2>1. resp.t1 \in Nat /\ lastResponse.t1 \in Nat /\ best.t1 \in Nat
    BY DEF OnceInv, TypeOK, ClientTypeOK, Packets, Candidates
  <2>2. Answers(resp)
    BY DEF IsMeasurement, Answers, Replies
  <2> QED BY <2>1, <2>2 DEF OnceInv, ClientInOrder, IsMeasurement, ComesAfter
<1> QED BY <1>1, <1>2, PTL
=============================================================================
