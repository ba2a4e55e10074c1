----------------------- MODULE WallClockPairs_proofs ------------------------
(***************************************************************************)
(* Follow-ups are evaluated with the time their own response was received  *)
(* at, if the network neither loses nor reorders: FollowupInv is inductive.*)
(***************************************************************************)
EXTENDS WallClock_proofs

Follows == {"RESPONSE_WITH_FOLLOWUP", "FOLLOWUP"}

-----------------------------------------------------------------------------
(* Sequences: what a channel that keeps the order hands out. *)

\* Taking out the first element moves the others up by one.
LEMMA FirstTaken ==
    ASSUME NEW T, NEW s \in Seq(T), Len(s) > 0
    PROVE  /\ RemoveAt(s, 1) \in Seq(T)
           /\ Len(RemoveAt(s, 1)) = Len(s) - 1
           /\ \A j \in 1 .. Len(s) - 1 : RemoveAt(s, 1)[j] = s[j + 1]
<1>1. PICK i \in 1 .. Len(s) : i = 1
  OBVIOUS
<1> DEFINE head == SubSeq(s, 1, i - 1)
           tail == SubSeq(s, i + 1, Len(s))
<1>2. tail \in Seq(T) /\ Len(tail) = Len(s) - i /\ \A j \in 1 .. Len(tail) : tail[j] = s[i + j]
  OBVIOUS
<1>3. head = <<>>
  BY <1>1
<1>4. RemoveAt(s, i) = head \o tail
  BY DEF RemoveAt
<1> HIDE DEF head, tail
<1>5. head \o tail = tail
  BY <1>2, <1>3
<1> QED BY <1>1, <1>2, <1>4, <1>5

\* A network without reordering hands out the oldest datagram.
LEMMA DeliversFirst ==
    ASSUME Faults \subseteq {"lose", "duplicate"}, NEW s \in Seq(Packets), NEW i \in Deliverable(s)
    PROVE  i = 1 /\ Len(s) > 0
BY DEF Deliverable

\* A network without loss takes what is sent.
LEMMA SendsAll ==
    ASSUME "lose" \notin Faults, NEW s \in Seq(Packets), NEW m, NEW r \in Sent(s, m)
    PROVE  r = Append(s, m)
BY DEF Sent

-----------------------------------------------------------------------------
(* No follow-ups. *)

\* Where nothing was announced, nothing can be paired wrongly.
LEMMA NoFollowupsPair == FollowupModes = {FALSE} /\ NoFollowupsInv => PairsInv
<1> SUFFICES ASSUME FollowupModes = {FALSE}, NoFollowupsInv PROVE PairsInv
  OBVIOUS
<1>1. Remembered.kind # "RESPONSE_WITH_FOLLOWUP"
  BY DEF NoFollowupsInv, Remembered, NoPacket, NewPacket
<1> HIDE DEF Remembered
<1> QED BY <1>1 DEF NoFollowupsInv, PairsInv, PairsAfter, Pairs

\* The packet a server without follow-ups builds is a response.
LEMMA PlainResponse ==
    ASSUME TypeOK, followup = FALSE PROVE Response.kind = "RESPONSE"
BY DEF Response, TypeOK, ServerTypeOK, Packets

\* A server that is never told to send follow-ups announces and sends none.
LEMMA NoFollowupsStep ==
    ASSUME TypeOK, NoFollowupsInv, Next PROVE NoFollowupsInv'
<1> SUFFICES ASSUME FollowupModes = {FALSE}
             PROVE  /\ followup' = FALSE
                    /\ \A i \in 1 .. Len(s2c') : s2c'[i].kind \notin Follows
                    /\ resp'.kind \notin Follows
                    /\ lastType' # "RESPONSE_WITH_FOLLOWUP"
  BY DEF NoFollowupsInv, Follows
<1>1. /\ followup = FALSE
      /\ \A i \in 1 .. Len(s2c) : s2c[i].kind \notin Follows
      /\ resp.kind \notin Follows
      /\ lastType # "RESPONSE_WITH_FOLLOWUP"
  BY DEF NoFollowupsInv, Follows
<1>2. s2c \in Seq(Packets)
  BY DEF TypeOK, NetworkTypeOK
<1>3. CASE NetworkNext /\ UNCHANGED <<serverVars, clientVars>>
  <2>1. UNCHANGED <<followup, resp, lastType>>
    BY <1>3 DEF serverVars, clientVars, packetVars, exchangeVars
  <2>2. CASE StrayToClient
    <3>1. PICK h \in ClientStrays : s2c' = Append(s2c, NewPacket(h, "other", 0))
      BY <2>2 DEF StrayToClient
    <3>2. NewPacket(h, "other", 0).kind \notin Follows
      BY NetworkAssumption DEF NewPacket, Follows
    <3> HIDE DEF NewPacket
    <3> QED BY <1>1, <1>2, <2>1, <3>1, <3>2
  <2>3. CASE Tick \/ StrayToServer
    BY <1>1, <2>1, <2>3 DEF Tick, StrayToServer
  <2> QED BY <1>3, <2>2, <2>3 DEF NetworkNext
<1>4. CASE ServerNext /\ UNCHANGED clientVars
  <2> USE <1>4 DEF ServerNext, ServerThread
  <2>1. UNCHANGED <<resp, lastType>>
    BY DEF clientVars, packetVars, exchangeVars
  <2>2. followup' = FALSE
    BY <1>1
    DEF ServerReceive, ServerReceives, ServerReceiveError, ServerReply, ServerIgnore,
        ServerFollowup, ServerExit, SetActive, SetFollowup, ServerStop, serverVars
  <2>3. CASE ServerReply
    <3>1. s2c' \in Sent(s2c, Response) /\ Response \in Packets /\ Response.kind = "RESPONSE"
      BY <1>1, <2>3, ResponseType, PlainResponse DEF ServerReply
    <3>2. \A j \in 1 .. Len(s2c') : s2c'[j] = Response \/ \E k \in 1 .. Len(s2c) : s2c'[j] = s2c[k]
      BY <1>2, <3>1, SentElements
    <3> QED BY <1>1, <2>1, <2>2, <3>1, <3>2 DEF Follows
  <2>4. CASE ~ ServerReply
    <3>1. s2c' = s2c
      BY <1>1, <2>4
      DEF ServerReceive, ServerReceives, ServerReceiveError, ServerIgnore,
          ServerFollowup, ServerExit, SetActive, SetFollowup, ServerStop, networkVars
    <3> QED BY <1>1, <2>1, <2>2, <3>1
  <2> QED BY <2>3, <2>4
<1>5. CASE ClientNext /\ UNCHANGED serverVars
  <2> USE <1>5 DEF ClientNext, ClientThread
  <2>1. followup' = FALSE
    BY <1>1 DEF serverVars
  <2>2. CASE ClientReceive
    <3>1. PICK i \in 1 .. Len(s2c) : ClientReceives(i)
      BY <2>2 DEF ClientReceive
    <3>2. s2c' \in Received(s2c, i) /\ resp' = s2c[i] /\ lastType' = lastType
      BY <3>1 DEF ClientReceives, exchangeVars
    <3> QED BY <1>1, <1>2, <2>1, <3>2, ReceivedElements
  <2>3. CASE ClientReceiveError
    <3>1. PICK i \in 1 .. Len(s2c) : s2c' = RemoveAt(s2c, i)
      BY <2>3 DEF ClientReceiveError, Deliverable
    <3>2. resp' = resp /\ lastType' = lastType
      BY <2>3 DEF ClientReceiveError, packetVars, exchangeVars
    <3>3. \A j \in 1 .. Len(s2c') : \E k \in 1 .. Len(s2c) : s2c'[j] = s2c[k]
      BY <1>2, <3>1, RemoveAtElements
    <3> QED BY <1>1, <2>1, <3>2, <3>3
  <2>4. CASE ~ ClientReceive /\ ~ ClientReceiveError
    <3>1. s2c' = s2c
      BY <2>4
      DEF ClientSend, ClientTimeout, ClientInterrupted, ClientWake, Handling, HandleRequest,
          HandleResponse, HandleResponseWithFollowup, HandleFollowup, HandleOther, SetSynced,
          ClientExit, ClientStop, networkVars
    <3>2. resp' = resp \/ resp' = NoPacket
      BY <2>4
      DEF ClientSend, ClientTimeout, ClientInterrupted, ClientWake, Handling, HandleRequest,
          HandleResponse, HandleResponseWithFollowup, HandleFollowup, HandleOther, SetSynced,
          ClientExit, ClientStop, packetVars
    <3>3. lastType' = lastType \/ lastType' = resp.kind
      BY <2>4
      DEF ClientSend, ClientTimeout, ClientInterrupted, ClientWake, Handling, HandleRequest,
          HandleResponse, HandleResponseWithFollowup, HandleFollowup, HandleOther, SetSynced,
          ClientExit, ClientStop, RememberResponse, exchangeVars
    <3>4. NoPacket.kind \notin Follows
      BY DEF NoPacket, NewPacket, Follows
    <3> QED BY <1>1, <2>1, <3>1, <3>2, <3>3, <3>4 DEF Follows
  <2> QED BY <2>2, <2>3, <2>4
<1> QED BY <1>3, <1>4, <1>5 DEF Next

-----------------------------------------------------------------------------
(* Follow-ups in a channel that keeps the order. *)

\* Sending leaves alone what was sent before.
LEMMA AppendKeepsPairs ==
    ASSUME NEW net \in Seq(Packets), NEW x \in Packets, NEW r, NEW m,
           NEW n \in 0 .. Len(net), PairsAfter(net, r, n, m)
    PROVE  PairsAfter(Append(net, x), r, n, m)
<1> DEFINE net2 == Append(net, x)
<1>1. \A k \in 1 .. n : net2[k] = net[k]
  OBVIOUS
<1> HIDE DEF net2
<1>2. PairsAfter(net2, r, n, m)
  BY <1>1 DEF PairsAfter
<1> QED BY <1>2 DEF net2

\* A datagram that announces nothing may come in between,
LEMMA SilentKeepsPairs ==
    ASSUME NEW net \in Seq(Packets), NEW x \in Packets, NEW r, NEW m,
           x.kind # "RESPONSE_WITH_FOLLOWUP", PairsAfter(net, r, Len(net), m)
    PROVE  PairsAfter(Append(net, x), r, Len(net) + 1, m)
<1> DEFINE net2 == Append(net, x)
           n    == Len(net)
<1>1. n \in Nat /\ net2[n + 1] = x /\ \A k \in 1 .. n : net2[k] = net[k]
  OBVIOUS
<1> HIDE DEF net2, n
<1>2. PairsAfter(net2, r, n + 1, m)
  <2>1. PairsAfter(net, r, n, m)
    BY DEF n
  <2>2. ASSUME NEW j \in 1 .. n + 1, \A k \in j + 1 .. n + 1 : net2[k].kind \in PassedOver
        PROVE  Pairs(net2[j], m)
    <3>1. CASE j = n + 1
      BY <1>1, <3>1 DEF Pairs
    <3>2. CASE j # n + 1
      <4>1. j \in 1 .. n /\ \A k \in j + 1 .. n : net[k].kind \in PassedOver
        BY <1>1, <2>2, <3>2
      <4> QED BY <1>1, <2>1, <4>1 DEF PairsAfter
    <3> QED BY <3>1, <3>2
  <2>3. ASSUME \A k \in 1 .. n + 1 : net2[k].kind \in PassedOver PROVE Pairs(r, m)
    <3>1. \A k \in 1 .. n : net[k].kind \in PassedOver
      BY <1>1, <2>3
    <3> QED BY <2>1, <3>1 DEF PairsAfter
  <2> QED BY <2>2, <2>3 DEF PairsAfter
<1> QED BY <1>2 DEF net2, n

\* and so may the response itself.
LEMMA ResponsePairs ==
    ASSUME NEW net \in Seq(Packets), NEW x \in Packets, NEW r, NEW m,
           x.kind \notin PassedOver, SameExchange(x, m)
    PROVE  PairsAfter(Append(net, x), r, Len(net) + 1, m)
<1> DEFINE net2 == Append(net, x)
           n    == Len(net)
<1>1. n \in Nat /\ net2[n + 1] = x
  OBVIOUS
<1> HIDE DEF net2, n
<1>2. PairsAfter(net2, r, n + 1, m)
  <2>1. ASSUME NEW j \in 1 .. n + 1, \A k \in j + 1 .. n + 1 : net2[k].kind \in PassedOver
        PROVE  Pairs(net2[j], m)
    <3>1. j = n + 1
      BY <1>1, <2>1
    <3> QED BY <1>1, <3>1 DEF Pairs
  <2>2. ~ \A k \in 1 .. n + 1 : net2[k].kind \in PassedOver
    BY <1>1
  <2> QED BY <2>1, <2>2 DEF PairsAfter
<1> QED BY <1>2 DEF net2, n

\* What is remembered once p was received after r.
After(r, p) == IF p.kind \notin PassedOver THEN p ELSE r

\* Receiving the first datagram and taking it out of the channel.
LEMMA ReceiveKeepsPairs ==
    ASSUME NEW net \in Seq(Packets), NEW r, NEW m,
           NEW n \in 1 .. Len(net), PairsAfter(net, r, n, m)
    PROVE  PairsAfter(RemoveAt(net, 1), After(r, net[1]), n - 1, m)
<1> DEFINE net2 == RemoveAt(net, 1)
           r2   == After(r, net[1])
<1>1. \A k \in 1 .. n - 1 : net2[k] = net[k + 1]
  BY FirstTaken
<1> HIDE DEF net2
<1>2. ASSUME NEW j \in 1 .. n - 1, \A k \in j + 1 .. n - 1 : net2[k].kind \in PassedOver
      PROVE  Pairs(net2[j], m)
  <2>1. ASSUME NEW k \in (j + 1) + 1 .. n PROVE net[k].kind \in PassedOver
    <3>1. k - 1 \in j + 1 .. n - 1 /\ k - 1 \in 1 .. n - 1 /\ (k - 1) + 1 = k
      OBVIOUS
    <3> QED BY <1>1, <1>2, <3>1
  <2>2. j + 1 \in 1 .. n /\ net2[j] = net[j + 1]
    BY <1>1
  <2> QED BY <2>1, <2>2 DEF PairsAfter
<1>3. ASSUME \A k \in 1 .. n - 1 : net2[k].kind \in PassedOver
      PROVE  Pairs(r2, m)
  <2>1. ASSUME NEW k \in 1 + 1 .. n PROVE net[k].kind \in PassedOver
    <3>1. k - 1 \in 1 .. n - 1 /\ (k - 1) + 1 = k
      OBVIOUS
    <3> QED BY <1>1, <1>3, <3>1
  <2>2. CASE net[1].kind \notin PassedOver
    <3>1. 1 \in 1 .. n /\ r2 = net[1]
      BY <2>2 DEF After
    <3> QED BY <2>1, <3>1 DEF PairsAfter
  <2>3. CASE net[1].kind \in PassedOver
    <3>1. r2 = r /\ \A k \in 1 .. n : k = 1 \/ k \in 1 + 1 .. n
      BY <2>3 DEF After
    <3> QED BY <2>1, <2>3, <3>1 DEF PairsAfter
  <2> QED BY <2>2, <2>3
<1>4. PairsAfter(net2, r2, n - 1, m)
  BY <1>2, <1>3 DEF PairsAfter
<1> QED BY <1>4 DEF net2

\* Receiving the first datagram of a channel that duplicates it.
LEMMA RepeatKeepsPairs ==
    ASSUME NEW net \in Seq(Packets), NEW r, NEW m, NEW n \in 0 .. Len(net), Len(net) > 0,
           PairsAfter(net, r, n, m),
           n = 0 => m = net[1] /\ m.kind = "FOLLOWUP"
    PROVE  PairsAfter(net, After(r, net[1]), n, m)
<1>1. CASE n = 0
  BY <1>1 DEF PairsAfter, Pairs, After, PassedOver
<1>2. CASE n # 0
  <2>1. 1 \in 1 .. n
    BY <1>2
  <2> QED BY <2>1 DEF PairsAfter, After
<1> QED BY <1>1, <1>2

\* Forgetting a datagram that announced nothing.
LEMMA ForgetKeepsPairs ==
    ASSUME NEW net, NEW r, NEW r2, NEW m, NEW n, PairsAfter(net, r, n, m),
           r2 = r \/ r2.kind # "RESPONSE_WITH_FOLLOWUP"
    PROVE  PairsAfter(net, r2, n, m)
BY DEF PairsAfter, Pairs

\* Every follow-up in the channel comes to its own response.
Channel(net, r) ==
    \A i \in 1 .. Len(net) : net[i].kind = "FOLLOWUP" => PairsAfter(net, r, i - 1, net[i])

\* So it does if a follow-up is only sent where it belongs,
LEMMA AppendChannel ==
    ASSUME NEW net \in Seq(Packets), NEW x \in Packets, NEW r, Channel(net, r),
           x.kind = "FOLLOWUP" => PairsAfter(net, r, Len(net), x)
    PROVE  Channel(Append(net, x), r)
<1> DEFINE net2 == Append(net, x)
<1>1. Len(net2) = Len(net) + 1 /\ Len(net) \in Nat /\ net2[Len(net) + 1] = x
      /\ \A i \in 1 .. Len(net) : net2[i] = net[i]
  OBVIOUS
<1>2. ASSUME NEW i \in 1 .. Len(net2), net2[i].kind = "FOLLOWUP"
      PROVE  PairsAfter(net, r, i - 1, net2[i]) /\ i - 1 \in 0 .. Len(net)
  <2>1. CASE i \in 1 .. Len(net)
    BY <1>1, <1>2, <2>1 DEF Channel
  <2>2. CASE i = Len(net) + 1
    BY <1>1, <1>2, <2>2
  <2> HIDE DEF net2
  <2> QED BY <1>1, <2>1, <2>2
<1>3. ASSUME NEW i \in 1 .. Len(net2), net2[i].kind = "FOLLOWUP"
      PROVE  PairsAfter(net2, r, i - 1, net2[i])
  BY <1>2, <1>3, AppendKeepsPairs
<1> HIDE DEF net2
<1>4. Channel(net2, r)
  BY <1>3 DEF Channel
<1> QED BY <1>4 DEF net2

\* once the first datagram was received and remembered,
LEMMA ReceiveChannel ==
    ASSUME NEW net \in Seq(Packets), Len(net) > 0, NEW r, Channel(net, r)
    PROVE  Channel(RemoveAt(net, 1), After(r, net[1]))
<1> DEFINE net2 == RemoveAt(net, 1)
<1>1. /\ Len(net2) = Len(net) - 1
      /\ \A j \in 1 .. Len(net) - 1 : net2[j] = net[j + 1]
  BY FirstTaken
<1>2. ASSUME NEW i \in 1 .. Len(net2), net2[i].kind = "FOLLOWUP"
      PROVE  PairsAfter(net2, After(r, net[1]), i - 1, net2[i])
  <2>1. net2[i] = net[i + 1] /\ i + 1 \in 1 .. Len(net) /\ i \in 1 .. Len(net) /\ (i + 1) - 1 = i
    BY <1>1
  <2> HIDE DEF net2
  <2>2. PairsAfter(net, r, i, net[i + 1])
    BY <1>2, <2>1 DEF Channel
  <2>3. PairsAfter(RemoveAt(net, 1), After(r, net[1]), i - 1, net[i + 1])
    BY <2>1, <2>2, ReceiveKeepsPairs
  <2> QED BY <2>1, <2>3 DEF net2
<1> HIDE DEF net2
<1>3. Channel(net2, After(r, net[1]))
  BY <1>2 DEF Channel
<1> QED BY <1>3 DEF net2

\* even if it is also left in the channel.
LEMMA RepeatChannel ==
    ASSUME NEW net \in Seq(Packets), Len(net) > 0, NEW r, Channel(net, r)
    PROVE  Channel(net, After(r, net[1]))
<1> SUFFICES ASSUME NEW i \in 1 .. Len(net), net[i].kind = "FOLLOWUP"
             PROVE  PairsAfter(net, After(r, net[1]), i - 1, net[i])
  BY DEF Channel
<1>1. PairsAfter(net, r, i - 1, net[i])
  BY DEF Channel
<1>2. i - 1 \in 0 .. Len(net) /\ (i - 1 = 0 => net[i] = net[1] /\ net[i].kind = "FOLLOWUP")
  OBVIOUS
<1> QED BY <1>1, <1>2, RepeatKeepsPairs

\* A follow-up pairs like the response it is a copy of.
LEMMA CopyKeepsPairs ==
    ASSUME NEW net, NEW r, NEW n, NEW m, NEW m2, SameExchange(m, m2), PairsAfter(net, r, n, m)
    PROVE  PairsAfter(net, r, n, m2)
BY DEF PairsAfter, Pairs, SameExchange

-----------------------------------------------------------------------------
(* The steps of the three on a network that neither loses nor reorders. *)

\* The third part of PairsInv.
KeptResponse ==
    lastType = "RESPONSE_WITH_FOLLOWUP" =>
          /\ lastResponse.kind = "RESPONSE_WITH_FOLLOWUP"
          /\ cpc = "handle" /\ resp.kind = "FOLLOWUP" => SameExchange(lastResponse, resp)

\* PairsInv, in the words of the lemmas above.
LEMMA PairsInvParts ==
    PairsInv <=> /\ Channel(s2c, Remembered)
                 /\ spc = "follow" => PairsAfter(s2c, Remembered, Len(s2c), reply)
                 /\ KeptResponse
<1> HIDE DEF Remembered
<1> QED BY DEF PairsInv, Channel, KeptResponse

\* The same of the next state.
LEMMA PairsInvNext ==
    ASSUME Channel(s2c', Remembered'),
           spc' = "follow" => PairsAfter(s2c', Remembered', Len(s2c'), reply'),
           KeptResponse'
    PROVE  PairsInv'
<1>1. /\ Channel(s2c, Remembered)'
      /\ (spc = "follow" => PairsAfter(s2c, Remembered, Len(s2c), reply))'
      /\ KeptResponse'
  OBVIOUS
<1> QED BY <1>1, PairsInvParts, PTL

\* A datagram of another host does not get between a response and its follow-up in
\* a way that matters: it is no response.
LEMMA NetworkPairs ==
    ASSUME TypeOK, PairsInv, NetworkNext, UNCHANGED <<serverVars, clientVars>>
    PROVE  PairsInv'
<1>1. UNCHANGED <<spc, reply, cpc, resp, lastType, lastResponse>>
  BY DEF serverVars, clientVars, packetVars, exchangeVars
<1>2. Remembered' = Remembered /\ KeptResponse'
  BY <1>1, PairsInvParts DEF Remembered, KeptResponse
<1>3. s2c \in Seq(Packets)
  BY DEF TypeOK, NetworkTypeOK
<1>4. CASE StrayToClient
  <2>1. PICK h \in ClientStrays : s2c' = Append(s2c, NewPacket(h, "other", 0))
    BY <1>4 DEF StrayToClient
  <2> DEFINE x == NewPacket(h, "other", 0)
  <2>2. x \in Packets
    BY NetworkAssumption, NewPacketType DEF Kinds, Hosts
  <2>3. x.kind \notin {"RESPONSE_WITH_FOLLOWUP", "FOLLOWUP"}
    BY NetworkAssumption DEF NewPacket
  <2> HIDE DEF x, Remembered
  <2>4. s2c' = Append(s2c, x) /\ Len(s2c') = Len(s2c) + 1
    BY <1>3, <2>1 DEF x
  <2>5. Channel(s2c', Remembered')
    BY <1>2, <1>3, <2>2, <2>3, <2>4, AppendChannel, PairsInvParts
  <2>6. spc' = "follow" => PairsAfter(s2c', Remembered', Len(s2c'), reply')
    BY <1>1, <1>2, <1>3, <2>2, <2>3, <2>4, SilentKeepsPairs, PairsInvParts
  <2> QED BY <1>2, <2>5, <2>6, PairsInvNext
<1>5. CASE Tick \/ StrayToServer
  <2>1. s2c' = s2c
    BY <1>5 DEF Tick, StrayToServer
  <2> HIDE DEF Remembered
  <2> QED BY <1>1, <1>2, <2>1, PairsInvParts, PairsInvNext
<1> QED BY <1>4, <1>5 DEF NetworkNext

\* The server sends a follow-up after the response it built, which is not lost.
LEMMA ServerPairs ==
    ASSUME "lose" \notin Faults, TypeOK, PairsInv, ServerNext, UNCHANGED clientVars
    PROVE  PairsInv'
<1> USE DEF ServerNext, ServerThread
<1>1. UNCHANGED <<cpc, resp, lastType, lastResponse>>
  BY DEF clientVars, packetVars, exchangeVars
<1>2. Remembered' = Remembered /\ KeptResponse'
  BY <1>1, PairsInvParts DEF Remembered, KeptResponse
<1>3. s2c \in Seq(Packets)
  BY DEF TypeOK, NetworkTypeOK
<1> HIDE DEF Remembered
<1>4. CASE ServerReply
  <2>1. /\ s2c' = Append(s2c, Response) /\ reply' = Response
        /\ Response \in Packets
        /\ Response.kind \in {"RESPONSE", "RESPONSE_WITH_FOLLOWUP"}
    BY <1>3, <1>4, SendsAll, ResponseType DEF ServerReply, Response, TypeOK, ServerTypeOK, Packets
  <2>2. Channel(s2c', Remembered')
    BY <1>2, <1>3, <2>1, AppendChannel, PairsInvParts
  <2>3. PairsAfter(s2c', Remembered', Len(s2c'), reply')
    <3>1. Response.kind \notin PassedOver /\ SameExchange(Response, Response)
      BY <2>1 DEF PassedOver, SameExchange
    <3>2. Len(s2c') = Len(s2c) + 1
      BY <1>3, <2>1
    <3> HIDE DEF Response
    <3> QED BY <1>3, <2>1, <3>1, <3>2, ResponsePairs
  <2> QED BY <1>2, <2>2, <2>3, PairsInvNext
<1>5. CASE ServerFollowup
  <2>1. spc' # "follow"
    BY <1>5 DEF ServerFollowup, NextRound
  <2>2. FollowupReply \in Packets /\ SameExchange(reply, FollowupReply)
    BY FollowupReplyType DEF FollowupReply, SameExchange, TypeOK, ServerTypeOK, Packets
  <2>3. s2c' = s2c \/ s2c' = Append(s2c, FollowupReply)
    BY <1>3, <1>5, SendsAll DEF ServerFollowup
  <2>4. PairsAfter(s2c, Remembered, Len(s2c), FollowupReply)
    <3>1. PairsAfter(s2c, Remembered, Len(s2c), reply)
      BY <1>5, PairsInvParts DEF ServerFollowup
    <3> QED BY <2>2, <3>1, CopyKeepsPairs
  <2>5. Channel(s2c', Remembered')
    BY <1>2, <1>3, <2>2, <2>3, <2>4, AppendChannel, PairsInvParts
  <2> QED BY <1>2, <2>1, <2>5, PairsInvNext
<1>6. CASE ~ ServerReply /\ ~ ServerFollowup
  <2>1. s2c' = s2c /\ (spc' = "follow" => spc = "follow" /\ reply' = reply)
    BY <1>6
    DEF ServerReceive, ServerReceives, ServerReceiveError, ServerIgnore, ServerExit, NextRound,
        SetActive, SetFollowup, ServerStop, networkVars, serverVars
  <2> QED BY <1>2, <2>1, PairsInvParts, PairsInvNext
<1> QED BY <1>4, <1>5, <1>6

\* The client receives in the order things were sent, and a response is the last
\* thing it remembers until it has seen what comes next.
LEMMA ClientPairs ==
    ASSUME Faults \subseteq {"duplicate"}, TypeOK, PairsInv, ClientNext, UNCHANGED serverVars
    PROVE  PairsInv'
<1> USE DEF ClientNext, ClientThread
<1>1. UNCHANGED <<spc, reply>>
  BY DEF serverVars
<1>2. s2c \in Seq(Packets)
  BY DEF TypeOK, NetworkTypeOK
<1>3. CASE ClientReceive
  <2>1. PICK i \in 1 .. Len(s2c) : ClientReceives(i)
    BY <1>3 DEF ClientReceive
  <2>2. i = 1 /\ Len(s2c) > 0
    BY <1>2, <2>1, DeliversFirst DEF ClientReceives
  <2>3. /\ cpc = "recv" /\ cpc' = "handle" /\ resp' = s2c[1]
        /\ UNCHANGED <<lastType, lastResponse>>
        /\ s2c' = RemoveAt(s2c, 1) \/ s2c' = s2c
    BY <2>1, <2>2 DEF ClientReceives, Received, exchangeVars
  <2>4. Remembered' = After(Remembered, s2c[1])
    BY <2>3 DEF Remembered, After
  <2>5. KeptResponse'
    <3> SUFFICES ASSUME lastType = "RESPONSE_WITH_FOLLOWUP"
                 PROVE  /\ lastResponse.kind = "RESPONSE_WITH_FOLLOWUP"
                        /\ s2c[1].kind = "FOLLOWUP" => SameExchange(lastResponse, s2c[1])
      BY <2>3 DEF KeptResponse
    <3>1. lastResponse.kind = "RESPONSE_WITH_FOLLOWUP"
      BY PairsInvParts DEF KeptResponse
    <3>2. Remembered = lastResponse
      BY <2>3 DEF Remembered
    <3>3. s2c[1].kind = "FOLLOWUP" => PairsAfter(s2c, lastResponse, 0, s2c[1])
      BY <2>2, <3>2, PairsInvParts DEF Channel
    <3> QED BY <3>1, <3>3 DEF PairsAfter, Pairs
  <2> HIDE DEF Remembered
  <2>6. Channel(s2c', Remembered')
    BY <1>2, <2>2, <2>3, <2>4, ReceiveChannel, RepeatChannel, PairsInvParts
  <2>7. ASSUME spc' = "follow" PROVE PairsAfter(s2c', Remembered', Len(s2c'), reply')
    <3>1. PairsAfter(s2c, Remembered, Len(s2c), reply)
      BY <1>1, <2>7, PairsInvParts
    <3>2. CASE s2c' = s2c
      <4>1. Len(s2c) \in 0 .. Len(s2c) /\ Len(s2c) # 0
        BY <1>2, <2>2
      <4> QED BY <1>1, <1>2, <2>2, <2>4, <3>1, <3>2, <4>1, RepeatKeepsPairs
    <3>3. CASE s2c' = RemoveAt(s2c, 1)
      <4>1. Len(s2c) \in 1 .. Len(s2c) /\ Len(s2c') = Len(s2c) - 1
        BY <1>2, <2>2, <3>3, FirstTaken
      <4> QED BY <1>1, <1>2, <2>4, <3>1, <3>3, <4>1, ReceiveKeepsPairs
    <3> QED BY <2>3, <3>2, <3>3
  <2> QED BY <2>5, <2>6, <2>7, PairsInvNext
<1>4. CASE ClientReceiveError
  <2>1. PICK i \in Deliverable(s2c) : s2c[i].kind = "SHORT" /\ s2c' = RemoveAt(s2c, i)
    BY <1>4 DEF ClientReceiveError
  <2>2. i = 1 /\ Len(s2c) > 0
    BY <1>2, <2>1, DeliversFirst
  <2>3. cpc = "recv" /\ cpc' = "sleep" /\ UNCHANGED <<resp, lastType, lastResponse>>
    BY <1>4 DEF ClientReceiveError, StartSleeping, packetVars, exchangeVars
  <2>4. Remembered' = After(Remembered, s2c[1]) /\ KeptResponse'
    BY <2>1, <2>2, <2>3, PairsInvParts DEF Remembered, After, PassedOver, KeptResponse
  <2> HIDE DEF Remembered
  <2>5. Channel(s2c', Remembered')
    BY <1>2, <2>1, <2>2, <2>4, ReceiveChannel, PairsInvParts
  <2>6. ASSUME spc' = "follow" PROVE PairsAfter(s2c', Remembered', Len(s2c'), reply')
    <3>1. PairsAfter(s2c, Remembered, Len(s2c), reply)
      BY <1>1, <2>6, PairsInvParts
    <3>2. Len(s2c) \in 1 .. Len(s2c) /\ Len(s2c') = Len(s2c) - 1
      BY <1>2, <2>1, <2>2, FirstTaken
    <3> QED BY <1>1, <1>2, <2>1, <2>2, <2>4, <3>1, <3>2, ReceiveKeepsPairs
  <2> QED BY <2>4, <2>5, <2>6, PairsInvNext
<1>5. CASE ~ ClientReceive /\ ~ ClientReceiveError
  <2>1. s2c' = s2c
    BY <1>5
    DEF ClientSend, ClientTimeout, ClientInterrupted, ClientWake, Handling, HandleRequest,
        HandleResponse, HandleResponseWithFollowup, HandleFollowup, HandleOther, SetSynced,
        ClientExit, ClientStop, networkVars
  <2>2. KeptResponse' /\ (Remembered' = Remembered \/ Remembered'.kind # "RESPONSE_WITH_FOLLOWUP")
    <3>1. CASE cpc = "handle" /\ ClientThread
      <4>1. /\ cpc' # "handle"
            /\ \/ resp.kind = "REQUEST" /\ UNCHANGED <<lastType, lastResponse>>
               \/ resp.kind = "RESPONSE_WITH_FOLLOWUP" /\ lastType' = resp.kind /\ lastResponse' = resp
               \/ /\ resp.kind \in {"RESPONSE", "FOLLOWUP", "OTHER"}
                  /\ lastType' = resp.kind
        BY <1>5, <3>1
        DEF ClientSend, ClientTimeout, ClientInterrupted, ClientWake, Handling, HandleRequest,
            HandleResponse, HandleResponseWithFollowup, HandleFollowup, HandleOther, SetSynced,
            ClientExit, Ignore, Update, Accept, Reject, StartWaiting, RememberResponse,
            exchangeVars
      <4> QED
        BY <3>1, <4>1, PairsInvParts DEF KeptResponse, Remembered, PassedOver, NoPacket, NewPacket
    <3>2. CASE ~ (cpc = "handle" /\ ClientThread)
      <4>1. /\ UNCHANGED <<resp, lastType, lastResponse>>
            /\ cpc' = "handle" <=> cpc = "handle"
        BY <1>5, <3>2
        DEF ClientSend, ClientTimeout, ClientInterrupted, ClientWake, Handling, HandleRequest,
            HandleResponse, HandleResponseWithFollowup, HandleFollowup, HandleOther, SetSynced,
            ClientExit, ClientStop, StartWaiting, StartSleeping, packetVars, exchangeVars
      <4> QED BY <4>1, PairsInvParts DEF KeptResponse, Remembered
    <3> QED BY <3>1, <3>2
  <2> HIDE DEF Remembered
  <2>3. Channel(s2c', Remembered')
    BY <2>1, <2>2, ForgetKeepsPairs, PairsInvParts DEF Channel
  <2>4. spc' = "follow" => PairsAfter(s2c', Remembered', Len(s2c'), reply')
    BY <1>1, <2>1, <2>2, ForgetKeepsPairs, PairsInvParts
  <2> QED BY <2>2, <2>3, <2>4, PairsInvNext
<1> QED BY <1>3, <1>4, <1>5

-----------------------------------------------------------------------------
(* The invariant. *)

\* No follow-up is there at the start.
LEMMA InitFollowupInv == Init => FollowupInv
<1> SUFFICES ASSUME Init PROVE NoFollowupsInv /\ PairsInv
  BY InitType DEF FollowupInv
<1>1. s2c = <<>> /\ spc = "wait" /\ lastType = "REQUEST" /\ resp = NoPacket
      /\ followup \in FollowupModes /\ Len(s2c) = 0
  BY DEF Init, NetworkInit, ServerInit, ClientInit
<1>2. NoPacket.kind = "OTHER"
  BY DEF NoPacket, NewPacket
<1>3. NoFollowupsInv
  BY <1>1, <1>2 DEF NoFollowupsInv
<1>4. PairsInv
  BY <1>1 DEF PairsInv
<1> QED BY <1>3, <1>4

\* Every step keeps the follow-ups with their responses.
LEMMA FollowupStep ==
    ASSUME FollowupAssumption, FollowupInv, [Next]_vars PROVE FollowupInv'
<1> USE DEF FollowupInv
<1>1. CASE Next
  <2>1. TypeOK' /\ NoFollowupsInv'
    BY <1>1, NetworkStepType, ServerStepType, ClientStepType, NoFollowupsStep DEF Next
  <2>2. CASE FollowupModes = {FALSE}
    <3>1. (FollowupModes = {FALSE} /\ NoFollowupsInv)'
      BY <2>1, <2>2
    <3>2. PairsInv'
      BY <3>1, NoFollowupsPair, PTL
    <3> QED BY <2>1, <3>2
  <2>3. CASE Faults \subseteq {"duplicate"}
    BY <1>1, <2>1, <2>3, NetworkPairs, ServerPairs, ClientPairs DEF Next
  <2> QED BY <2>2, <2>3 DEF FollowupAssumption
<1>2. CASE UNCHANGED vars
  <2>1. /\ UNCHANGED <<now, skew, settle, c2s, s2c>>
        /\ UNCHANGED <<spc, rx, rxTime, reply, active, followup, srvCancelled>>
        /\ UNCHANGED <<cpc, deadline, resp, respTime, lastType, responseTime, lastResponse>>
        /\ UNCHANGED <<best, offset, synced, servaddr, cliCancelled>>
    BY <1>2
    DEF vars, networkVars, serverVars, clientVars, packetVars, exchangeVars, clockVars
  <2>2. TypeOK'
    BY <2>1 DEF TypeOK, NetworkTypeOK, ServerTypeOK, ClientTypeOK, ServerClock
  <2>3. NoFollowupsInv'
    BY <2>1 DEF NoFollowupsInv
  <2>4. Remembered' = Remembered
    BY <2>1 DEF Remembered
  <2> HIDE DEF Remembered
  <2>5. PairsInv'
    BY <2>1, <2>4 DEF PairsInv
  <2> QED BY <2>2, <2>3, <2>5
<1> QED BY <1>1, <1>2

\* Follow-ups stay with their responses, in flight and in the client's thread.
THEOREM InPairs == ASSUME FollowupAssumption PROVE Spec => []FollowupInv
<1>1. FollowupInv /\ [Next]_vars => FollowupInv'
  BY FollowupStep
<1> QED BY <1>1, InitFollowupInv, PTL DEF Spec

\* If the server sends no follow-ups, or on a network that neither loses nor reorders
\* a datagram, and for every value of the other constants: the time of reception a
\* follow-up is evaluated with is that of the response to the same request, whatever
\* other hosts send in between, and even if "followup" is switched between a response
\* and its follow-up (gst_dvb_css_wc_client_internal_clock_thread).
THEOREM Pairing == ASSUME FollowupAssumption PROVE Spec => []FollowupPairsItsResponse
<1>1. Spec => []FollowupInv
  BY InPairs
<1>2. FollowupInv => FollowupPairsItsResponse
  BY DEF FollowupInv, PairsInv, FollowupPairsItsResponse, IsMeasurement, SameExchange
<1> QED BY <1>1, <1>2, PTL
=============================================================================
