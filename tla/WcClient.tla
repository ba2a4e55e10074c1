------------------------------ MODULE WcClient ------------------------------
(***************************************************************************)
(* The Wall Clock client's internal clock (gstdvbcsswcclient.c): one       *)
(* thread that sends a request, takes every answer that comes until a wait *)
(* of Timeout finds none, sleeps for Pause and starts again; an answer     *)
(* that bounds the error better than the best one so far calibrates the    *)
(* clock.                                                                  *)
(***************************************************************************)
EXTENDS WcNetwork

CONSTANTS
    Timeout,            \* ticks of socket_timeout
    Pause,              \* ticks of the sleep after a failed receive
    ClientMayStop,      \* whether the last user of the clock drops it
    None                \* no candidate

ASSUME ClientAssumption ==
    /\ Timeout \in Nat
    /\ Pause \in Nat
    /\ ClientMayStop \in BOOLEAN
    /\ None \notin Candidates

VARIABLES
    cpc,            \* where the thread is, see ClientTypeOK
    deadline,       \* when the wait or the sleep under way ends, else 0
    resp,           \* resp: the packet being handled, else NoPacket
    respTime,       \* resp->response_timevalue, else 0
    lastType,       \* last_msg_type
    responseTime,   \* response_time: the code leaves it uninitialised, the model 0
    best,           \* best_candidate
    offset,         \* external time of the clock's calibration
    synced,         \* whether the clock is marked as synchronised
    servaddr,       \* the host requests are sent to
    cliCancelled,   \* cancel
    lastResponse    \* history: the response that responseTime was taken from,
                    \*   NoPacket as long as it is uninitialised

packetVars == <<resp, respTime>>
exchangeVars == <<lastType, responseTime, lastResponse>>
clockVars == <<best, offset, synced>>

clientVars ==
    <<cpc, deadline, packetVars, exchangeVars, clockVars, servaddr, cliCancelled>>

ClientTypeOK ==
    /\ cpc \in {"send", "recv", "handle", "synced", "sleep", "done"}
    /\ deadline \in Nat
    /\ resp \in Packets
    /\ respTime \in Nat
    /\ lastType \in Kinds
    /\ responseTime \in Nat
    /\ best \in Candidates \cup {None}
    /\ offset \in Int
    /\ synced \in BOOLEAN
    /\ servaddr \in Hosts
    /\ cliCancelled \in BOOLEAN
    /\ lastResponse \in Packets

\* clock_init and start: the thread begins with last_msg_type = REQUEST.
ClientInit ==
    /\ cpc = "send"
    /\ deadline = 0
    /\ resp = NoPacket
    /\ respTime = 0
    /\ lastType = "REQUEST"
    /\ responseTime = 0
    /\ best = None
    /\ offset = 0
    /\ synced = FALSE
    /\ servaddr = "server"
    /\ cliCancelled = FALSE
    /\ lastResponse = NoPacket

-----------------------------------------------------------------------------
(* send_request and receive_msg. *)

\* Entering receive_msg: a wait of Timeout begins.
StartWaiting == cpc' = "recv" /\ deadline' = now + Timeout

\* The sleep after a receive that failed.
StartSleeping == cpc' = "sleep" /\ deadline' = now + Pause

\* Mutant: the loop does not look at the cancellable.
ClientSendCancelled ==
    /\ cpc = "send"
    /\ c2s' \in IF servaddr = "server"
                THEN Sent(c2s, NewPacket("REQUEST", "client", OnWire(now)))
                ELSE {c2s}
    /\ StartWaiting
    /\ UNCHANGED <<now, skew, settle, s2c>>
    /\ UNCHANGED <<packetVars, exchangeVars, clockVars, servaddr, cliCancelled>>

\* A request that could not be sent changes nothing and is tried again at once:
\* a stuttering step.
ClientSend ==
    /\ cpc = "send"
    /\ ~cliCancelled
    /\ c2s' \in IF servaddr = "server"
                THEN Sent(c2s, NewPacket("REQUEST", "client", OnWire(now)))
                ELSE {c2s}
    /\ StartWaiting
    /\ UNCHANGED <<now, skew, settle, s2c>>
    /\ UNCHANGED <<packetVars, exchangeVars, clockVars, servaddr, cliCancelled>>

\* Mutant: the clock is read when the wait begins.
ClientReceivesEarly(i) ==
    /\ cpc = "recv"
    /\ ~cliCancelled
    /\ i \in Deliverable(s2c)
    /\ s2c[i].kind # "SHORT"
    /\ s2c' \in Received(s2c, i)
    /\ resp' = s2c[i]
    /\ respTime' = deadline - Timeout
    /\ servaddr' = s2c[i].from
    /\ cpc' = "handle"
    /\ deadline' = 0
    /\ UNCHANGED <<now, skew, settle, c2s, exchangeVars, clockVars, cliCancelled>>

\* The wait ends with data: the clock is read, the datagram received and its
\* sender becomes servaddr.
ClientReceives(i) ==
    /\ cpc = "recv"
    /\ ~cliCancelled
    /\ i \in Deliverable(s2c)
    /\ s2c[i].kind # "SHORT"
    /\ s2c' \in Received(s2c, i)
    /\ resp' = s2c[i]
    /\ respTime' = now
    /\ servaddr' = s2c[i].from
    /\ cpc' = "handle"
    /\ deadline' = 0
    /\ UNCHANGED <<now, skew, settle, c2s, exchangeVars, clockVars, cliCancelled>>

ClientReceive == \E i \in 1 .. Len(s2c) : ClientReceives(i)

ClientReceiveError ==
    /\ cpc = "recv"
    /\ ~cliCancelled
    /\ \E i \in Deliverable(s2c) :
          /\ s2c[i].kind = "SHORT"
          /\ s2c' = RemoveAt(s2c, i)
          /\ servaddr' = s2c[i].from
    /\ StartSleeping
    /\ UNCHANGED <<now, skew, settle, c2s, packetVars, exchangeVars, clockVars, cliCancelled>>

\* Mutant: a wait that found nothing begins again, no request is sent.
ClientTimeoutWaits ==
    /\ cpc = "recv"
    /\ ~cliCancelled
    /\ now >= deadline
    /\ StartWaiting
    /\ UNCHANGED <<networkVars, packetVars, exchangeVars, clockVars, servaddr, cliCancelled>>

\* Nothing arrived in time. What is in flight may arrive later.
ClientTimeout ==
    /\ cpc = "recv"
    /\ ~cliCancelled
    /\ now >= deadline
    /\ StartSleeping
    /\ UNCHANGED <<networkVars, packetVars, exchangeVars, clockVars, servaddr, cliCancelled>>

\* The wait is interrupted by the cancellable: receive_msg returns at once.
ClientInterrupted ==
    /\ cpc = "recv"
    /\ cliCancelled
    /\ cpc' = "send"
    /\ deadline' = 0
    /\ UNCHANGED <<networkVars, packetVars, exchangeVars, clockVars, servaddr, cliCancelled>>

\* Mutant: a client that is synchronised only listens.
ClientWakeUnsynced ==
    /\ cpc = "sleep"
    /\ now >= deadline
    /\ cpc' = IF synced THEN "recv" ELSE "send"
    /\ deadline' = 0
    /\ UNCHANGED <<networkVars, packetVars, exchangeVars, clockVars, servaddr, cliCancelled>>

ClientWake ==
    /\ cpc = "sleep"
    /\ now >= deadline
    /\ cpc' = "send"
    /\ deadline' = 0
    /\ UNCHANGED <<networkVars, packetVars, exchangeVars, clockVars, servaddr, cliCancelled>>

-----------------------------------------------------------------------------
(* The switch of the thread, one action per case, and update. *)

\* Mutant: every follow-up counts, whatever came before it.
IsMeasurementAlways == resp.kind \in {"RESPONSE", "FOLLOWUP"}

\* Whether the packet at hand is given to update, and with which t4.
IsMeasurement ==
    \/ resp.kind = "RESPONSE"
    \/ resp.kind = "FOLLOWUP" /\ lastType = "RESPONSE_WITH_FOLLOWUP"

MeasuredAt == IF resp.kind = "FOLLOWUP" THEN responseTime ELSE respTime

\* G_MAXUINT64 when there is no candidate to compare with.
CurrentDispersions == IF best = None THEN {U64 - 1} ELSE Dispersions(best, now)

\* update, up to set_calibration: the candidate becomes the best one. The step
\* that marks the clock as synchronised follows.
Accept(c) ==
    /\ \E cur \in CurrentDispersions, cand \in Dispersions(c, now) : cur >= cand
    /\ best' = c
    /\ offset' = c.offset
    /\ cpc' = "synced"
    /\ UNCHANGED <<deadline, synced>>

Reject(c) ==
    /\ \E cur \in CurrentDispersions, cand \in Dispersions(c, now) : cur < cand
    /\ StartWaiting
    /\ UNCHANGED clockVars

Update(c) == Accept(c) \/ Reject(c)

Ignore == StartWaiting /\ UNCHANGED clockVars

\* What every case shares: a packet is at hand, and it is freed at the end (or,
\* if it is a request, forgotten: the case continues past the call).
Handling(kind) ==
    /\ cpc = "handle"
    /\ resp.kind = kind
    /\ resp' = NoPacket
    /\ respTime' = 0
    /\ UNCHANGED <<networkVars, servaddr, cliCancelled>>

\* A request: back to receive_msg, last_msg_type is not touched.
HandleRequest ==
    /\ Handling("REQUEST")
    /\ Ignore
    /\ UNCHANGED exchangeVars

\* Mutant: the time is kept only once.
RememberFirstResponse ==
    /\ lastType' = resp.kind
    /\ responseTime' = IF lastResponse = NoPacket THEN respTime ELSE responseTime
    /\ lastResponse' = IF lastResponse = NoPacket THEN resp ELSE lastResponse

\* The time of a response is kept for the follow-up there may be.
RememberResponse ==
    /\ lastType' = resp.kind
    /\ responseTime' = respTime
    /\ lastResponse' = resp

\* A response: update, then (the case falls through) its time is kept too.
HandleResponse ==
    /\ Handling("RESPONSE")
    /\ Update(Candidate(resp, respTime))
    /\ RememberResponse

HandleResponseWithFollowup ==
    /\ Handling("RESPONSE_WITH_FOLLOWUP")
    /\ Ignore
    /\ RememberResponse

\* A follow-up counts only right after a response that announced one, and is
\* evaluated with the time that response was received at.
HandleFollowup ==
    /\ Handling("FOLLOWUP")
    /\ IF IsMeasurement THEN Update(Candidate(resp, MeasuredAt)) ELSE Ignore
    /\ lastType' = resp.kind
    /\ UNCHANGED <<responseTime, lastResponse>>

HandleOther ==
    /\ Handling("OTHER")
    /\ Ignore
    /\ lastType' = resp.kind
    /\ UNCHANGED <<responseTime, lastResponse>>

\* The end of update: gst_clock_set_synced.
SetSynced ==
    /\ cpc = "synced"
    /\ synced' = TRUE
    /\ StartWaiting
    /\ UNCHANGED <<networkVars, packetVars, exchangeVars, best, offset, servaddr, cliCancelled>>

-----------------------------------------------------------------------------
(* The end of the thread. *)

ClientExit ==
    /\ cpc = "send"
    /\ cliCancelled
    /\ cpc' = "done"
    /\ UNCHANGED <<networkVars, deadline, packetVars, exchangeVars, clockVars,
                   servaddr, cliCancelled>>

\* internal_clock_stop, up to the join: it returns when cpc = "done".
ClientStop ==
    /\ ClientMayStop
    /\ ~cliCancelled
    /\ cliCancelled' = TRUE
    /\ UNCHANGED <<networkVars, cpc, deadline, packetVars, exchangeVars, clockVars, servaddr>>

ClientThread ==
    \/ ClientSend \/ ClientReceive \/ ClientReceiveError \/ ClientTimeout
    \/ ClientInterrupted \/ ClientWake
    \/ HandleRequest \/ HandleResponse \/ HandleResponseWithFollowup
    \/ HandleFollowup \/ HandleOther \/ SetSynced
    \/ ClientExit

ClientNext == ClientThread \/ ClientStop
=============================================================================
