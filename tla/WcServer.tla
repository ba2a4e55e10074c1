------------------------------ MODULE WcServer ------------------------------
(***************************************************************************)
(* The Wall Clock server (gstdvbcsswcserver.c): one thread that waits on   *)
(* its socket, answers a request with a response and, when the property    *)
(* "followup" says so, sends a follow-up after it. Other threads may set   *)
(* the properties "active" and "followup" at any moment, and stop it.      *)
(*                                                                         *)
(* gst_dvb_css_wc_server_thread is cut where another thread can come in    *)
(* between: a datagram is received (spc = "wait"), the packet is looked at *)
(* and the response sent ("reply"), the flag is read again and the         *)
(* follow-up sent ("follow").                                              *)
(***************************************************************************)
EXTENDS WcNetwork

CONSTANTS
    ServerPpm,          \* max_freq_error_ppm of the server
    ActiveModes,        \* values the property "active" takes
    FollowupModes,      \* values the property "followup" takes
    ServerMayStop       \* whether the application stops the server

ASSUME ServerAssumption ==
    /\ ServerPpm \in Nat
    /\ ServerPpm * 256 < U32
    /\ ActiveModes \subseteq BOOLEAN
    /\ FollowupModes \subseteq BOOLEAN
    /\ ServerMayStop \in BOOLEAN

VARIABLES
    spc,            \* where the thread is: "wait", "reply", "follow" or "done"
    rx,             \* packet: the one being looked at, else NoPacket
    rxTime,         \* time: the server's clock read just before receiving it, else 0
    reply,          \* reply: the response built for it, else NoPacket
    active,         \* priv->active
    followup,       \* priv->followup
    srvCancelled    \* priv->cancel

serverVars == <<spc, rx, rxTime, reply, active, followup, srvCancelled>>

ServerTypeOK ==
    /\ spc \in {"wait", "reply", "follow", "done"}
    /\ rx \in Packets
    /\ rxTime \in Nat
    /\ reply \in Packets
    /\ active \in BOOLEAN
    /\ followup \in BOOLEAN
    /\ srvCancelled \in BOOLEAN

ServerInit ==
    /\ spc = "wait"
    /\ rx = NoPacket
    /\ rxTime = 0
    /\ reply = NoPacket
    /\ active \in ActiveModes
    /\ followup \in FollowupModes
    /\ srvCancelled = FALSE

-----------------------------------------------------------------------------
(* The thread. *)

\* Mutant: the cancellable is not looked at as long as there is data.
ServerReceivesCancelled(i) ==
    /\ spc = "wait"
    /\ i \in Deliverable(c2s)
    /\ c2s[i].kind # "SHORT"
    /\ c2s' \in Received(c2s, i)
    /\ rx' = c2s[i]
    /\ rxTime' = ServerClock
    /\ spc' = "reply"
    /\ UNCHANGED <<now, skew, settle, s2c, reply, active, followup, srvCancelled>>

\* The wait ends with data: the clock is read, then the datagram received.
ServerReceives(i) ==
    /\ spc = "wait"
    /\ ~srvCancelled
    /\ i \in Deliverable(c2s)
    /\ c2s[i].kind # "SHORT"
    /\ c2s' \in Received(c2s, i)
    /\ rx' = c2s[i]
    /\ rxTime' = ServerClock
    /\ spc' = "reply"
    /\ UNCHANGED <<now, skew, settle, s2c, reply, active, followup, srvCancelled>>

ServerReceive == \E i \in 1 .. Len(c2s) : ServerReceives(i)

\* A short datagram: packet_receive fails, the thread sleeps and waits again.
ServerReceiveError ==
    /\ spc = "wait"
    /\ ~srvCancelled
    /\ \E i \in Deliverable(c2s) : c2s[i].kind = "SHORT" /\ c2s' = RemoveAt(c2s, i)
    /\ UNCHANGED <<now, skew, settle, s2c, serverVars>>

ServerAnswers == active /\ rx.kind = "REQUEST"

\* Mutant: the receive time is left as the client sent it.
ResponseUnstamped ==
    [rx EXCEPT !.kind      = IF followup THEN "RESPONSE_WITH_FOLLOWUP" ELSE "RESPONSE",
               !.from      = "server",
               !.t3        = OnWire(ServerClock),
               !.precision = EncodePrecision(ServerPrecision),
               !.maxFreq   = EncodeMaxFreqError(ServerPpm)]

\* The response built from the request: it carries t1 back.
Response ==
    [rx EXCEPT !.kind      = IF followup THEN "RESPONSE_WITH_FOLLOWUP" ELSE "RESPONSE",
               !.from      = "server",
               !.t2        = OnWire(rxTime),
               !.t3        = OnWire(ServerClock),
               !.precision = EncodePrecision(ServerPrecision),
               !.maxFreq   = EncodeMaxFreqError(ServerPpm)]

ServerReply ==
    /\ spc = "reply"
    /\ ServerAnswers
    /\ reply' = Response
    /\ s2c' \in Sent(s2c, Response)
    /\ spc' = "follow"
    /\ UNCHANGED <<now, skew, settle, c2s, rx, rxTime, active, followup, srvCancelled>>

\* The packets are freed, and the loop begins again.
NextRound == spc' = "wait" /\ rx' = NoPacket /\ rxTime' = 0 /\ reply' = NoPacket

\* Not active, or not a request of a version it knows: the packet is dropped.
ServerIgnore ==
    /\ spc = "reply"
    /\ ~ServerAnswers
    /\ NextRound
    /\ UNCHANGED <<networkVars, active, followup, srvCancelled>>

\* The copy of the response that goes after it, its transmit time included.
FollowupReply == [reply EXCEPT !.kind = "FOLLOWUP"]

\* The flag is read again, and may have changed since the response was built.
ServerFollowup ==
    /\ spc = "follow"
    /\ s2c' \in IF followup THEN Sent(s2c, FollowupReply) ELSE {s2c}
    /\ NextRound
    /\ UNCHANGED <<now, skew, settle, c2s, active, followup, srvCancelled>>

\* The wait is interrupted by the cancellable: the loop is left.
ServerExit ==
    /\ spc = "wait"
    /\ srvCancelled
    /\ spc' = "done"
    /\ UNCHANGED <<networkVars, rx, rxTime, reply, active, followup, srvCancelled>>

-----------------------------------------------------------------------------
(* The other threads of the server's process. *)

SetActive ==
    /\ \E a \in ActiveModes : a # active /\ active' = a
    /\ UNCHANGED <<networkVars, spc, rx, rxTime, reply, followup, srvCancelled>>

SetFollowup ==
    /\ \E f \in FollowupModes : f # followup /\ followup' = f
    /\ UNCHANGED <<networkVars, spc, rx, rxTime, reply, active, srvCancelled>>

\* gst_dvb_css_wc_server_stop, up to the join: it returns when spc = "done".
ServerStop ==
    /\ ServerMayStop
    /\ ~srvCancelled
    /\ srvCancelled' = TRUE
    /\ UNCHANGED <<networkVars, spc, rx, rxTime, reply, active, followup>>

ServerThread ==
    \/ ServerReceive \/ ServerReceiveError
    \/ ServerReply \/ ServerIgnore \/ ServerFollowup \/ ServerExit

ServerNext == ServerThread \/ SetActive \/ SetFollowup \/ ServerStop
=============================================================================
