----------------------------- MODULE WallClock ------------------------------
(***************************************************************************)
(* The Wall Clock protocol as this code runs it: a client's measuring      *)
(* thread and a server's answering thread over a network that drifts,      *)
(* loses, duplicates and reorders (gstdvbcsswcclient.c, gstdvbcsswcserver.c*)
(* and gstdvbcsswcpacket.c).                                               *)
(***************************************************************************)
EXTENDS WcServer, WcClient

vars == <<networkVars, serverVars, clientVars>>

Init == NetworkInit /\ ServerInit /\ ClientInit

Next ==
    \/ NetworkNext /\ UNCHANGED <<serverVars, clientVars>>
    \/ ServerNext /\ UNCHANGED clientVars
    \/ ClientNext /\ UNCHANGED serverVars

Spec == Init /\ [][Next]_vars

-----------------------------------------------------------------------------
(* Fairness: both threads are scheduled and time passes as far as the model *)
(* lets it. A datagram sent again and again is not lost every time, and one  *)
(* that waits in a socket is found when the thread looks again and again.    *)

RequestGetsThrough == ClientSend /\ c2s' # c2s

ReplyGetsThrough == ServerReply /\ s2c' # s2c

ReceiveReply ==
    \E i \in 1 .. Len(s2c) : s2c[i].from = "server" /\ ClientReceives(i)

Fairness ==
    /\ WF_vars(Tick /\ UNCHANGED <<serverVars, clientVars>>)
    /\ WF_vars(ServerThread /\ UNCHANGED clientVars)
    /\ WF_vars(ClientThread /\ UNCHANGED serverVars)
    /\ SF_vars(RequestGetsThrough /\ UNCHANGED serverVars)
    /\ SF_vars(ReplyGetsThrough /\ UNCHANGED clientVars)
    /\ SF_vars(ReceiveReply /\ UNCHANGED serverVars)

FairSpec == Spec /\ Fairness

-----------------------------------------------------------------------------
(* Properties. *)

\* Every variable keeps to its type: the fields of the packets in flight are
\* times and encoded numbers, the threads are at one of their steps.
TypeOK == NetworkTypeOK /\ ServerTypeOK /\ ClientTypeOK

\* How far the calibration is from the truth (gst_clock_set_calibration gets
\* the offset of the best candidate).
Error == IF offset >= skew THEN offset - skew ELSE skew - offset

\* What the dispersion is for: a client marked as synchronised is calibrated
\* with its best candidate, and reads the server's time to within that
\* candidate's dispersion, however long ago the exchange was and whatever the
\* network did to it (update, gstdvbcsswcclient.c).
Sound ==
    synced => /\ best # None
              /\ offset = best.offset
              /\ Error <= RawDispersion(best, now)

\* "in followup message we use time of receiving the last message": that message
\* is the response to the same request, so t1 and t4 are of one exchange (the
\* FOLLOWUP case of the client's thread).
FollowupPairsItsResponse ==
    cpc = "handle" /\ resp.kind = "FOLLOWUP" /\ IsMeasurement => lastResponse.t1 = resp.t1

\* On a network that keeps the order, what is measured is always of a later
\* exchange than the one the clock is calibrated with: no exchange counts twice,
\* even if the server changes its mind about the follow-up between a response and
\* what comes after it.
MeasuredOnce ==
    cpc = "handle" /\ IsMeasurement /\ best # None => resp.t1 > best.t1

\* Requests go to the host the clock was configured with: "The IP address of the
\* machine providing a time server" (property "address" of the client).
AsksItsServer == servaddr = "server"

\* The client ends up synchronised although requests and replies get lost: a
\* wait that found nothing ends, and the request is sent again.
EventuallySynced == <>(synced \/ cliCancelled \/ srvCancelled)

\* The client asks again and again until it is stopped, whether it is answered
\* or not: the dispersion of what it knows grows, only new answers bound it.
KeepsAsking == []<>(cpc = "send" \/ cliCancelled \/ srvCancelled)

\* Stopping ends: once its cancellable is cancelled a thread leaves its loop, so
\* the g_thread_join of stop returns.
ClientStops == cliCancelled ~> cpc = "done"

\* The same of the server's thread.
ServerStops == srvCancelled ~> spc = "done"

-----------------------------------------------------------------------------
(* The invariant behind FollowupPairsItsResponse. What the client will take a *)
(* follow-up to belong to is the last datagram its thread remembers: the one  *)
(* at hand, or else the type and time it has kept. No datagram is remembered  *)
(* that makes it go on without a look at last_msg_type.                       *)

PassedOver == {"REQUEST", "SHORT"}

SameExchange(m, r) == m.t1 = r.t1 /\ m.t2 = r.t2 /\ m.t3 = r.t3

\* The datagram the client's thread remembers.
Remembered ==
    IF cpc = "handle" /\ resp.kind \notin PassedOver THEN resp
    ELSE IF lastType = "RESPONSE_WITH_FOLLOWUP" THEN lastResponse
    ELSE NoPacket

\* If follow-up m comes right after datagram r, it belongs to it.
Pairs(r, m) == r.kind = "RESPONSE_WITH_FOLLOWUP" => SameExchange(r, m)

\* The same if it comes after the first n datagrams of net, which come after r.
PairsAfter(net, r, n, m) ==
    /\ \A j \in 1 .. n : (\A k \in j + 1 .. n : net[k].kind \in PassedOver) => Pairs(net[j], m)
    /\ (\A k \in 1 .. n : net[k].kind \in PassedOver) => Pairs(r, m)

\* Every follow-up there is, or may yet be sent, comes to its own response.
PairsInv ==
    /\ \A i \in 1 .. Len(s2c) :
          s2c[i].kind = "FOLLOWUP" => PairsAfter(s2c, Remembered, i - 1, s2c[i])
    /\ spc = "follow" => PairsAfter(s2c, Remembered, Len(s2c), reply)
    /\ lastType = "RESPONSE_WITH_FOLLOWUP" =>
          /\ lastResponse.kind = "RESPONSE_WITH_FOLLOWUP"
          /\ cpc = "handle" /\ resp.kind = "FOLLOWUP" => SameExchange(lastResponse, resp)

\* Or there are none at all.
NoFollowupsInv ==
    FollowupModes = {FALSE} =>
        /\ followup = FALSE
        /\ \A i \in 1 .. Len(s2c) : s2c[i].kind \notin {"RESPONSE_WITH_FOLLOWUP", "FOLLOWUP"}
        /\ resp.kind \notin {"RESPONSE_WITH_FOLLOWUP", "FOLLOWUP"}
        /\ lastType # "RESPONSE_WITH_FOLLOWUP"

FollowupInv == TypeOK /\ NoFollowupsInv /\ PairsInv

\* What the pairing takes for granted: the server sends no follow-ups, or the
\* network neither loses nor reorders (it may duplicate).
FollowupAssumption == FollowupModes = {FALSE} \/ Faults \subseteq {"duplicate"}

-----------------------------------------------------------------------------
(* The inductive invariant behind Sound. What makes an answer trustworthy is  *)
(* not the network: it is that the packet carries t1 back, so however late or *)
(* often it arrives there are moments a and b, one after the other between t1 *)
(* and its reception, at which the server read t2 and t3. Of a follow-up that *)
(* is only true if its response came before it, hence FollowupInv. The        *)
(* predicates take the state of the clocks as parameters: n for now, s for    *)
(* skew, e for settle.                                                        *)

\* The server's clock read v when the client's read a: since then the skew has
\* moved by one tick at most in every DriftPeriod.
ReadAt(n, s, e, a, v) ==
    /\ a <= n
    /\ DriftPeriod * (s - (v - a)) <= (n - a) + e
    /\ DriftPeriod * ((v - a) - s) <= (n - a) + e

\* A request sent at t1 was received at a, when the server read t2, and answered
\* at b, when it read t3.
Exchange(n, s, e, t1, t2, t3, a, b) ==
    /\ t1 <= a
    /\ a <= b
    /\ t2 <= t3
    /\ ReadAt(n, s, e, a, t2)
    /\ ReadAt(n, s, e, b, t3)
    /\ DriftPeriod * ((t3 - b) - (t2 - a)) <= (b - a) + DriftPeriod - 1

Replies == {"RESPONSE", "RESPONSE_WITH_FOLLOWUP", "FOLLOWUP"}

\* What may be found in the client's socket, if received at time t.
GoodReply(n, s, e, m, t) ==
    m.kind \in Replies =>
          /\ m.precision = EncodePrecision(ServerPrecision)
          /\ m.maxFreq = EncodeMaxFreqError(ServerPpm)
          /\ \E a, b \in 0 .. t : Exchange(n, s, e, m.t1, m.t2, m.t3, a, b)

\* What the best candidate is.
Measured(n, s, e, c) ==
    /\ c.t4 <= n
    /\ c.rtt = (c.t4 - c.t1) - (c.t3 - c.t2)
    /\ c.offset = Half((c.t3 + c.t2) - (c.t4 + c.t1))
    /\ c.precision = DecodePrecision(EncodePrecision(ServerPrecision))
    /\ c.ppm = ServerPpm
    /\ \E a, b \in 0 .. c.t4 : Exchange(n, s, e, c.t1, c.t2, c.t3, a, b)

ClocksInv ==
    /\ now <= MaxTime
    /\ \E s \in InitSkews : skew - s <= now - InitNow

ServerInv ==
    /\ \A i \in 1 .. Len(c2s) : c2s[i].kind = "REQUEST" => c2s[i].t1 <= now
    /\ spc = "reply" /\ rx.kind = "REQUEST" =>
          /\ rxTime <= ServerClock
          /\ \E a \in 0 .. now : rx.t1 <= a /\ ReadAt(now, skew, settle, a, rxTime)
    /\ spc = "follow" => reply.kind \in Replies /\ GoodReply(now, skew, settle, reply, now)

RepliesInv ==
    /\ \A i \in 1 .. Len(s2c) : GoodReply(now, skew, settle, s2c[i], now)
    /\ cpc = "handle" => respTime <= now /\ GoodReply(now, skew, settle, resp, respTime)
    /\ lastType = "RESPONSE_WITH_FOLLOWUP" =>
          /\ responseTime <= now
          /\ GoodReply(now, skew, settle, lastResponse, responseTime)

BestInv ==
    /\ best # None => Measured(now, skew, settle, best) /\ offset = best.offset
    /\ synced \/ cpc = "synced" => best # None

SoundInv == FollowupInv /\ ClocksInv /\ ServerInv /\ RepliesInv /\ BestInv

\* What the theorem about Sound takes for granted: follow-ups that pair; clocks that drift
\* no faster than the frequency error the client allows its own clock; the
\* precisions are at least the 3 ticks that integer arithmetic costs; and no
\* number is cut by its width.
SoundAssumption ==
    /\ FollowupAssumption
    /\ MILLION <= DriftPeriod * LocalPpm
    /\ LocalPrecision + ServerPrecision >= 3
    /\ InitNow <= MaxTime
    /\ \A s \in InitSkews : s + 2 * MaxTime < U32 * SECOND
    /\ LocalPpm + ServerPpm < U32
    /\ (LocalPpm + ServerPpm) * (2 * MaxTime + 1) < U64

-----------------------------------------------------------------------------
(* The inductive invariant behind MeasuredOnce. What is asked, answered and   *)
(* received comes in the order of t1, and what was measured is behind it all. *)

Asks(m) == m.kind = "REQUEST"

Answers(m) == m.kind \in Replies

\* m comes after what was asked at t: its follow-up, or of a later exchange.
ComesAfter(m, t) == m.t1 >= t /\ (m.kind # "FOLLOWUP" => m.t1 > t)

\* The next request will be later than t.
AskedBefore(t) ==
    /\ t <= now
    /\ cpc = "send" /\ ~cliCancelled => t < now
    /\ cpc = "sleep" => t < deadline

\* So are the requests on their way,
AheadOfRequests(t) ==
    /\ \A i \in 1 .. Len(c2s) : Asks(c2s[i]) => t < c2s[i].t1
    /\ AskedBefore(t)

\* what the server is about to answer,
AheadOfServer(t) ==
    /\ spc = "reply" /\ Asks(rx) => t < rx.t1
    /\ spc = "follow" => t <= reply.t1
    /\ AheadOfRequests(t)

\* and what is in flight to the client.
AheadOfReplies(t) ==
    /\ \A i \in 1 .. Len(s2c) : Answers(s2c[i]) => ComesAfter(s2c[i], t)
    /\ AheadOfServer(t)

RequestsInOrder ==
    /\ \A i, j \in 1 .. Len(c2s) :
          i < j /\ Asks(c2s[i]) /\ Asks(c2s[j]) => c2s[i].t1 < c2s[j].t1
    /\ \A i \in 1 .. Len(c2s) : Asks(c2s[i]) => AskedBefore(c2s[i].t1)

ServerInOrder ==
    /\ spc = "reply" /\ Asks(rx) => AheadOfRequests(rx.t1)
    /\ spc = "follow" => AheadOfRequests(reply.t1)

RepliesInOrder ==
    /\ \A i, j \in 1 .. Len(s2c) :
          i < j /\ Answers(s2c[i]) /\ Answers(s2c[j]) => ComesAfter(s2c[j], s2c[i].t1)
    /\ \A i \in 1 .. Len(s2c) : Answers(s2c[i]) => AheadOfServer(s2c[i].t1)

\* What the client knows: the packet at hand, the response kept for a follow-up,
\* the best candidate.
ClientInOrder ==
    /\ cpc = "handle" /\ Answers(resp) => AheadOfReplies(resp.t1)
    /\ lastType = "RESPONSE_WITH_FOLLOWUP" =>
          /\ AheadOfReplies(lastResponse.t1)
          /\ cpc = "handle" /\ Answers(resp) => lastResponse.t1 <= resp.t1
          /\ best # None => best.t1 < lastResponse.t1
    /\ best # None =>
          /\ AheadOfReplies(best.t1)
          /\ cpc = "handle" /\ Answers(resp) => ComesAfter(resp, best.t1)

OnceInv ==
    /\ TypeOK
    /\ now <= MaxTime
    /\ RequestsInOrder
    /\ ServerInOrder
    /\ RepliesInOrder
    /\ ClientInOrder

\* What the theorem about MeasuredOnce takes for granted: the network keeps the
\* order and repeats nothing (it may lose), the client sleeps before it asks again,
\* and the seconds fit into their 32 bits.
OnceAssumption ==
    /\ Faults \subseteq {"lose"}
    /\ Pause > 0
    /\ InitNow <= MaxTime
    /\ MaxTime < U32 * SECOND
=============================================================================
