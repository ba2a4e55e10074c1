------------------------- MODULE WallClockSound_proofs -------------------------
(***************************************************************************)
(* What a synchronised client makes of the server's time is right to       *)
(* within the dispersion it computes: SoundInv is inductive and implies it. *)
(***************************************************************************)
EXTENDS WallClockPairs_proofs

-----------------------------------------------------------------------------
(* Arithmetic. *)

\* Half rounds towards zero, by half a tick at most.
LEMMA HalfBounds ==
    ASSUME NEW x \in Int
    PROVE  Half(x) \in Int /\ 2 * Half(x) <= x + 1 /\ x - 1 <= 2 * Half(x)
BY DEF Half

\* A product is monotonic in each factor.
LEMMA TimesMonotonic ==
    ASSUME NEW k \in Nat, NEW x \in Int, NEW y \in Int, x <= y
    PROVE  k * x <= k * y
OBVIOUS

\* A positive factor can be cancelled from an inequality.
LEMMA TimesCancel ==
    ASSUME NEW k \in Nat \ {0}, NEW x \in Int, NEW y \in Int, k * x < k * y
    PROVE  x < y
<1> SUFFICES ASSUME y <= x PROVE FALSE
  OBVIOUS
<1> QED BY TimesMonotonic

\* A quotient is a natural number, and no more than one too small.
LEMMA DivBound ==
    ASSUME NEW d \in Nat, NEW m \in Nat \ {0}
    PROVE  d \div m \in Nat /\ d < m * ((d \div m) + 1)
OBVIOUS

\* A number below the modulus is its own remainder.
LEMMA ModSmall ==
    ASSUME NEW d \in Nat, NEW m \in Nat \ {0}, d < m PROVE d % m = d
OBVIOUS

\* The frequency term of the dispersion covers the drift since t1: the client's
\* own frequency error alone makes it large enough.
LEMMA WanderBound ==
    ASSUME SoundAssumption,
           NEW n \in Nat, n <= MaxTime, NEW c \in Candidates,
           c.ppm = ServerPpm, c.t1 <= c.t4, c.t4 <= n, c.t2 <= c.t3,
           c.t3 - c.t2 <= 2 * (c.t4 - c.t1)
    PROVE  /\ Wander(c, n) \in Nat
           /\ n - c.t1 < DriftPeriod * (Wander(c, n) + 1)
<1> DEFINE age   == n - c.t1
           dwell == c.t3 - c.t2
           d     == LocalPpm * (c.t4 - c.t1) + c.ppm * dwell + (c.ppm + LocalPpm) * (n - c.t4)
           w     == d \div MILLION
<1>1. /\ c.t1 \in Nat /\ c.t2 \in Nat /\ c.t3 \in Nat /\ c.t4 \in Nat
      /\ LocalPpm \in Nat /\ ServerPpm \in Nat /\ MILLION \in Nat \ {0}
      /\ DriftPeriod \in Nat \ {0} /\ U64 \in Nat /\ MaxTime \in Nat
  BY LocalAssumption, ServerAssumption, NetworkAssumption, WidthAssumption DEF Candidates
<1>2. age \in Nat /\ dwell \in Nat /\ n - c.t4 \in Nat
  BY <1>1
<1>3. d = LocalPpm * age + ServerPpm * (dwell + (n - c.t4))
  BY <1>1, <1>2
<1>4. d \in Nat /\ LocalPpm * age <= d
  <2>1. ServerPpm * (dwell + (n - c.t4)) \in Nat /\ LocalPpm * age \in Nat
    BY <1>1, <1>2
  <2> QED BY <1>3, <2>1
<1>5. d < U64
  <2>1. age <= 2 * MaxTime + 1 /\ dwell + (n - c.t4) <= 2 * MaxTime + 1
    BY <1>1, <1>2
  <2>2. LocalPpm * age <= LocalPpm * (2 * MaxTime + 1)
    BY <1>1, <1>2, <2>1, TimesMonotonic
  <2>3. ServerPpm * (dwell + (n - c.t4)) <= ServerPpm * (2 * MaxTime + 1)
    BY <1>1, <1>2, <2>1, TimesMonotonic
  <2>4. (LocalPpm + ServerPpm) * (2 * MaxTime + 1) < U64
    BY DEF SoundAssumption
  <2> QED BY <1>1, <1>2, <1>3, <2>2, <2>3, <2>4
<1>6. Wander(c, n) = (d % U64) \div MILLION
  <2>1. (c.ppm + LocalPpm) % U32 = c.ppm + LocalPpm
    <3>1. c.ppm + LocalPpm \in Nat /\ c.ppm + LocalPpm < U32
      BY <1>1 DEF SoundAssumption
    <3> QED BY <3>1, WidthAssumption, ModSmall
  <2> QED BY <2>1 DEF Wander
<1> HIDE DEF d
<1>7. d % U64 = d
  BY <1>4, <1>5, WidthAssumption, ModSmall
<1>8. w \in Nat /\ d < MILLION * (w + 1)
  BY <1>1, <1>4, DivBound
<1>9. MILLION * age < MILLION * (DriftPeriod * (w + 1))
  <2>1. MILLION * age <= (DriftPeriod * LocalPpm) * age
    <3>1. MILLION <= DriftPeriod * LocalPpm /\ DriftPeriod * LocalPpm \in Nat
      BY <1>1 DEF SoundAssumption
    <3>2. age * MILLION <= age * (DriftPeriod * LocalPpm)
      BY <1>1, <1>2, <3>1, TimesMonotonic
    <3> QED BY <1>1, <1>2, <3>1, <3>2
  <2>2. (DriftPeriod * LocalPpm) * age <= DriftPeriod * d
    <3>1. DriftPeriod * (LocalPpm * age) <= DriftPeriod * d
      <4>1. LocalPpm * age \in Int
        BY <1>1, <1>2
      <4> QED BY <1>1, <1>4, <4>1, TimesMonotonic
    <3> QED BY <1>1, <1>2, <3>1
  <2>3. DriftPeriod * d < DriftPeriod * (MILLION * (w + 1))
    BY <1>1, <1>4, <1>8
  <2>4. DriftPeriod * (MILLION * (w + 1)) = MILLION * (DriftPeriod * (w + 1))
    BY <1>1, <1>8
  <2>5. /\ MILLION * age \in Int /\ (DriftPeriod * LocalPpm) * age \in Int
        /\ DriftPeriod * d \in Int /\ MILLION * (DriftPeriod * (w + 1)) \in Int
    BY <1>1, <1>2, <1>4, <1>8
  <2> QED BY <2>1, <2>2, <2>3, <2>4, <2>5
<1>10. age < DriftPeriod * (w + 1)
  <2>1. DriftPeriod * (w + 1) \in Int
    BY <1>1, <1>8
  <2> QED BY <1>1, <1>2, <1>9, <2>1, TimesCancel
<1> QED BY <1>6, <1>7, <1>8, <1>10

\* What a candidate's dispersion promises: it bounds the distance between the
\* candidate's offset and the skew, at the time of the exchange and ever after.
LEMMA MeasuredBound ==
    ASSUME SoundAssumption,
           NEW n \in Nat, n <= MaxTime, NEW s \in Int, NEW e \in 0 .. DriftPeriod - 1,
           NEW c \in Candidates, Measured(n, s, e, c)
    PROVE  /\ c.offset - s <= RawDispersion(c, n)
           /\ s - c.offset <= RawDispersion(c, n)
<1>1. PICK a \in 0 .. c.t4, b \in 0 .. c.t4 : Exchange(n, s, e, c.t1, c.t2, c.t3, a, b)
  BY DEF Measured
<1> DEFINE k   == DriftPeriod
           x   == (c.t3 + c.t2) - (c.t4 + c.t1)
           w   == Wander(c, n)
           sum == c.rtt + 2 * w + 5
<1>2. /\ c.t1 \in Nat /\ c.t2 \in Nat /\ c.t3 \in Nat /\ c.t4 \in Nat
      /\ c.offset \in Int /\ k \in Nat \ {0} /\ a \in Nat /\ b \in Nat
      /\ LocalPrecision \in Nat /\ ServerPrecision \in Nat
  BY NetworkAssumption, LocalAssumption, PrecisionAssumption DEF Candidates
<1>3. /\ c.t1 <= a /\ a <= b /\ b <= c.t4 /\ c.t4 <= n /\ c.t2 <= c.t3
      /\ k * (s - (c.t2 - a)) <= (n - a) + e
      /\ k * ((c.t2 - a) - s) <= (n - a) + e
      /\ k * (s - (c.t3 - b)) <= (n - b) + e
      /\ k * ((c.t3 - b) - s) <= (n - b) + e
      /\ k * ((c.t3 - b) - (c.t2 - a)) <= (b - a) + k - 1
  BY <1>1 DEF Exchange, ReadAt, Measured
<1>4. /\ c.rtt = (c.t4 - c.t1) - (c.t3 - c.t2)
      /\ c.offset = Half(x)
      /\ c.precision \in Nat /\ c.precision >= ServerPrecision
      /\ c.ppm = ServerPpm
  BY EncodedServerPrecision DEF Measured, Candidates
<1>5. c.t3 - c.t2 <= 2 * (c.t4 - c.t1)
  <2>1. (c.t3 - b) - (c.t2 - a) <= b - a
    <3> SUFFICES ASSUME (b - a) + 1 <= (c.t3 - b) - (c.t2 - a) PROVE FALSE
      BY <1>2
    <3>1. k * ((b - a) + 1) <= k * ((c.t3 - b) - (c.t2 - a))
      BY <1>2, TimesMonotonic
    <3>2. k * ((b - a) + 1) = k * (b - a) + k
      BY <1>2
    <3>3. b - a <= k * (b - a)
      <4>1. (b - a) * 1 <= (b - a) * k
        BY <1>2, <1>3, TimesMonotonic
      <4> QED BY <1>2, <4>1
    <3> QED BY <1>2, <1>3, <3>1, <3>2, <3>3
  <2> QED BY <1>2, <1>3, <2>1
<1>6. w \in Nat /\ n - c.t1 < k * (w + 1)
  BY <1>2, <1>3, <1>4, <1>5, WanderBound
<1>7. c.rtt \in Int /\ x \in Int /\ sum \in Int
  BY <1>2, <1>4, <1>6
<1> HIDE DEF w
<1>8. (n - a) + 1 <= k * (w + 1) /\ e <= k - 1 /\ n - a \in Nat
  BY <1>2, <1>3, <1>6
<1>9. /\ k * (2 * s - x) < k * sum
      /\ k * (x - 2 * s) < k * sum
  <2>1. k * c.rtt = k * (c.t4 - b) + k * (a - c.t1) - k * ((c.t3 - b) - (c.t2 - a))
    BY <1>2, <1>4
  <2>2. 0 <= k * (c.t4 - b) /\ 0 <= k * (a - c.t1)
    <3>1. k * 0 <= k * (c.t4 - b) /\ k * 0 <= k * (a - c.t1)
      BY <1>2, <1>3, TimesMonotonic
    <3> QED BY <1>2, <3>1
  <2>3. k * (2 * s - x) = k * (s - (c.t2 - a)) + k * (s - (c.t3 - b))
                            + k * (c.t4 - b) - k * (a - c.t1)
    BY <1>2
  <2>4. k * (x - 2 * s) = k * ((c.t2 - a) - s) + k * ((c.t3 - b) - s)
                            + k * (a - c.t1) - k * (c.t4 - b)
    BY <1>2
  <2>5. k * sum = k * c.rtt + 2 * (k * (w + 1)) + 3 * k
    BY <1>2, <1>6, <1>7
  <2> DEFINE o1 == k * (c.t4 - b)
             o2 == k * (a - c.t1)
             u  == k * ((c.t3 - b) - (c.t2 - a))
             p1 == k * (s - (c.t2 - a))
             p2 == k * (s - (c.t3 - b))
             q1 == k * ((c.t2 - a) - s)
             q2 == k * ((c.t3 - b) - s)
             z  == k * (w + 1)
             r  == k * c.rtt
  <2>6. /\ o1 \in Int /\ o2 \in Int /\ u \in Int /\ p1 \in Int /\ p2 \in Int
        /\ q1 \in Int /\ q2 \in Int /\ z \in Int /\ r \in Int
    BY <1>2, <1>6, <1>7
  <2>7. /\ r = o1 + o2 - u /\ 0 <= o1 /\ 0 <= o2
        /\ p1 <= (n - a) + e /\ q1 <= (n - a) + e
        /\ p2 <= (n - b) + e /\ q2 <= (n - b) + e
        /\ u <= (b - a) + k - 1
        /\ (n - a) + 1 <= z
        /\ k * (2 * s - x) = p1 + p2 + o1 - o2
        /\ k * (x - 2 * s) = q1 + q2 + o2 - o1
        /\ k * sum = r + 2 * z + 3 * k
    BY <1>3, <1>8, <2>1, <2>2, <2>3, <2>4, <2>5
  <2> HIDE DEF o1, o2, u, p1, p2, q1, q2, z, r
  <2>8. p1 + p2 + o1 - o2 < r + 2 * z + 3 * k
    BY <1>2, <1>8, <2>6, <2>7
  <2>9. q1 + q2 + o2 - o1 < r + 2 * z + 3 * k
    BY <1>2, <1>8, <2>6, <2>7
  <2> QED BY <2>7, <2>8, <2>9
<1>10. 2 * s - x < sum /\ x - 2 * s < sum
  BY <1>2, <1>7, <1>9, TimesCancel
<1>11. /\ Half(x) \in Int /\ 2 * Half(x) <= x + 1 /\ x - 1 <= 2 * Half(x)
       /\ Half(c.rtt) \in Int /\ c.rtt - 1 <= 2 * Half(c.rtt)
  BY <1>7, HalfBounds
<1>12. LocalPrecision + ServerPrecision >= 3
  BY DEF SoundAssumption
<1>13. RawDispersion(c, n) = Half(c.rtt) + c.precision + LocalPrecision + w
  BY DEF RawDispersion, w
<1> HIDE DEF x
<1> QED
  BY <1>2, <1>4, <1>6, <1>7, <1>10, <1>11, <1>12, <1>13

-----------------------------------------------------------------------------
(* What is known of past readings stays true as the clocks move on. *)

ClocksMove(n, s, e, n2, s2, e2) ==
    /\ n \in Nat /\ n2 \in Nat /\ n <= n2
    /\ \A a, v \in Nat : ReadAt(n, s, e, a, v) => ReadAt(n2, s2, e2, a, v)

\* A tick moves the clocks: the drift allowed since an earlier reading grows by at
\* least as much as the skew may have changed.
LEMMA TickMoves ==
    ASSUME NEW n \in Nat, NEW s \in Int, NEW e \in 0 .. DriftPeriod - 1,
           NEW s2 \in Int, NEW e2 \in Int,
           \/ s2 = s /\ e2 = IF e = 0 THEN 0 ELSE e - 1
           \/ e = 0 /\ s2 \in {s - 1, s + 1} /\ e2 = DriftPeriod - 1
    PROVE  ClocksMove(n, s, e, n + 1, s2, e2)
<1> SUFFICES ASSUME NEW a \in Nat, NEW v \in Nat, ReadAt(n, s, e, a, v)
             PROVE  ReadAt(n + 1, s2, e2, a, v)
  BY DEF ClocksMove
<1>1. DriftPeriod \in Nat \ {0}
  BY NetworkAssumption
<1>2. CASE s2 = s /\ e2 = IF e = 0 THEN 0 ELSE e - 1
  BY <1>1, <1>2 DEF ReadAt
<1>3. CASE e = 0 /\ s2 \in {s - 1, s + 1} /\ e2 = DriftPeriod - 1
  BY <1>1, <1>3 DEF ReadAt
<1> QED BY <1>2, <1>3

\* Clocks that stand still move, too.
LEMMA StandStill ==
    ASSUME NEW n \in Nat, NEW s, NEW e PROVE ClocksMove(n, s, e, n, s, e)
BY DEF ClocksMove

\* An exchange stays one,
LEMMA ExchangeKept ==
    ASSUME NEW n, NEW s, NEW e, NEW n2, NEW s2, NEW e2, ClocksMove(n, s, e, n2, s2, e2),
           NEW t1, NEW t2 \in Nat, NEW t3 \in Nat, NEW a \in Nat, NEW b \in Nat,
           Exchange(n, s, e, t1, t2, t3, a, b)
    PROVE  Exchange(n2, s2, e2, t1, t2, t3, a, b)
BY DEF ClocksMove, Exchange

\* a good reply stays one, and is one if received later,
LEMMA GoodReplyKept ==
    ASSUME NEW n, NEW s, NEW e, NEW n2, NEW s2, NEW e2, ClocksMove(n, s, e, n2, s2, e2),
           NEW m \in Packets, NEW t \in Nat, NEW u \in Nat, t <= u,
           GoodReply(n, s, e, m, t)
    PROVE  GoodReply(n2, s2, e2, m, u)
<1> SUFFICES ASSUME m.kind \in Replies
             PROVE  \E a, b \in 0 .. u : Exchange(n2, s2, e2, m.t1, m.t2, m.t3, a, b)
  BY DEF GoodReply
<1>1. PICK a \in 0 .. t, b \in 0 .. t : Exchange(n, s, e, m.t1, m.t2, m.t3, a, b)
  BY DEF GoodReply
<1>2. m.t2 \in Nat /\ m.t3 \in Nat /\ a \in Nat /\ b \in Nat /\ a \in 0 .. u /\ b \in 0 .. u
  BY DEF Packets
<1>3. Exchange(n2, s2, e2, m.t1, m.t2, m.t3, a, b)
  BY <1>1, <1>2, ExchangeKept
<1> QED BY <1>2, <1>3

\* a measured candidate stays measured.
LEMMA MeasuredKept ==
    ASSUME NEW n, NEW s, NEW e, NEW n2, NEW s2, NEW e2, ClocksMove(n, s, e, n2, s2, e2),
           NEW c \in Candidates, Measured(n, s, e, c)
    PROVE  Measured(n2, s2, e2, c)
<1>1. PICK a \in 0 .. c.t4, b \in 0 .. c.t4 : Exchange(n, s, e, c.t1, c.t2, c.t3, a, b)
  BY DEF Measured
<1>2. c.t2 \in Nat /\ c.t3 \in Nat /\ c.t4 \in Nat /\ a \in Nat /\ b \in Nat
  BY DEF Candidates
<1>3. Exchange(n2, s2, e2, c.t1, c.t2, c.t3, a, b)
  BY <1>1, <1>2, ExchangeKept
<1>4. c.t4 <= n2
  BY <1>2 DEF ClocksMove, Measured
<1> QED BY <1>3, <1>4 DEF Measured

\* A reply evaluated with the time its response was received at is a measurement.
LEMMA CandidateMeasured ==
    ASSUME NEW n \in Nat, NEW s, NEW e, NEW m \in Packets, NEW t \in Nat, t <= n,
           m.precision = EncodePrecision(ServerPrecision),
           m.maxFreq = EncodeMaxFreqError(ServerPpm),
           \E a, b \in 0 .. t : Exchange(n, s, e, m.t1, m.t2, m.t3, a, b)
    PROVE  Measured(n, s, e, Candidate(m, t))
<1>1. DecodeMaxFreqError(m.maxFreq) = ServerPpm
  BY ServerAssumption DEF DecodeMaxFreqError, EncodeMaxFreqError
<1> QED BY <1>1 DEF Candidate, Measured

\* What the thread gives to update is one: a follow-up counts with the response the
\* thread kept, which is of the same exchange.
LEMMA MeasurementMeasured ==
    ASSUME SoundInv, cpc = "handle", IsMeasurement
    PROVE  /\ Candidate(resp, MeasuredAt) \in Candidates
           /\ Measured(now, skew, settle, Candidate(resp, MeasuredAt))
<1>1. now \in Nat /\ resp \in Packets /\ respTime \in Nat /\ responseTime \in Nat
  BY DEF SoundInv, FollowupInv, TypeOK, NetworkTypeOK, ClientTypeOK
<1>2. respTime <= now /\ GoodReply(now, skew, settle, resp, respTime)
  BY DEF SoundInv, RepliesInv
<1>3. /\ resp.precision = EncodePrecision(ServerPrecision)
      /\ resp.maxFreq = EncodeMaxFreqError(ServerPpm)
  BY <1>2 DEF IsMeasurement, GoodReply, Replies
<1>4. /\ MeasuredAt \in Nat /\ MeasuredAt <= now
      /\ \E a, b \in 0 .. MeasuredAt :
            Exchange(now, skew, settle, resp.t1, resp.t2, resp.t3, a, b)
  <2>1. CASE resp.kind = "RESPONSE"
    BY <1>1, <1>2, <2>1 DEF MeasuredAt, GoodReply, Replies
  <2>2. CASE resp.kind = "FOLLOWUP"
    <3>1. lastType = "RESPONSE_WITH_FOLLOWUP"
      BY <2>2 DEF IsMeasurement
    <3>2. lastResponse.kind = "RESPONSE_WITH_FOLLOWUP" /\ SameExchange(lastResponse, resp)
      BY <2>2, <3>1 DEF SoundInv, FollowupInv, PairsInv
    <3>3. responseTime <= now /\ GoodReply(now, skew, settle, lastResponse, responseTime)
      BY <3>1 DEF SoundInv, RepliesInv
    <3> QED BY <1>1, <2>2, <3>2, <3>3 DEF MeasuredAt, GoodReply, Replies, SameExchange
  <2> QED BY <2>1, <2>2 DEF IsMeasurement
<1> QED BY <1>1, <1>3, <1>4, CandidateType, CandidateMeasured

\* The response the server builds is a good reply.
LEMMA ResponseGood ==
    ASSUME SoundAssumption, SoundInv, spc = "reply", rx.kind = "REQUEST"
    PROVE  GoodReply(now, skew, settle, Response, now)
<1> DEFINE k == DriftPeriod
<1>1. /\ now \in Nat /\ skew \in Int /\ settle \in 0 .. k - 1 /\ ServerClock \in Nat
      /\ rx \in Packets /\ rxTime \in Nat /\ k \in Nat \ {0}
      /\ InitNow \in Nat /\ MaxTime \in Nat /\ now <= MaxTime
  BY NetworkAssumption
  DEF SoundInv, FollowupInv, TypeOK, NetworkTypeOK, ServerTypeOK, ServerInv, ClocksInv
<1>2. PICK a \in 0 .. now : rx.t1 <= a /\ ReadAt(now, skew, settle, a, rxTime)
  BY DEF SoundInv, ServerInv
<1>3. rxTime <= ServerClock
  BY DEF SoundInv, ServerInv
<1>4. ServerClock < U32 * SECOND
  <2>1. PICK i \in InitSkews : skew - i <= now - InitNow
    BY DEF SoundInv, ClocksInv
  <2>2. i \in Int /\ i + 2 * MaxTime < U32 * SECOND
    BY NetworkAssumption DEF SoundAssumption
  <2>3. U32 * SECOND \in Int
    BY WidthAssumption
  <2> QED BY <1>1, <2>1, <2>2, <2>3 DEF ServerClock
<1>5. OnWire(rxTime) = rxTime /\ OnWire(ServerClock) = ServerClock
  <2>1. U32 * SECOND \in Int
    BY WidthAssumption
  <2>2. rxTime < U32 * SECOND
    BY <1>1, <1>3, <1>4, <2>1
  <2> QED BY <1>1, <1>4, <2>2, OnWireIdentity
<1>6. /\ Response.t1 = rx.t1
      /\ Response.t2 = rxTime /\ Response.t3 = ServerClock
      /\ Response.precision = EncodePrecision(ServerPrecision)
      /\ Response.maxFreq = EncodeMaxFreqError(ServerPpm)
  <2> HIDE DEF ServerClock
  <2> QED BY <1>1, <1>5 DEF Response, Packets
<1>7. Exchange(now, skew, settle, rx.t1, rxTime, ServerClock, a, now)
  <2>1. ReadAt(now, skew, settle, now, ServerClock)
    BY <1>1 DEF ReadAt, ServerClock
  <2>2. k * ((ServerClock - now) - (rxTime - a)) <= (now - a) + k - 1
    <3>1. (ServerClock - now) - (rxTime - a) = skew - (rxTime - a)
      BY <1>1 DEF ServerClock
    <3>2. k * (skew - (rxTime - a)) <= (now - a) + settle
      BY <1>2 DEF ReadAt
    <3> HIDE DEF ServerClock
    <3>3. k * (skew - (rxTime - a)) \in Int
      BY <1>1
    <3> QED BY <1>1, <3>1, <3>2, <3>3
  <2> QED BY <1>1, <1>2, <1>3, <2>1, <2>2 DEF Exchange
<1> HIDE DEF ServerClock
<1> QED BY <1>1, <1>6, <1>7 DEF GoodReply

-----------------------------------------------------------------------------
(* The invariant is inductive. *)

Moves == ClocksMove(now, skew, settle, now', skew', settle')

\* It holds initially: nothing is in flight, nothing was measured.
LEMMA InitSoundInv == SoundAssumption /\ Init => SoundInv
<1> SUFFICES ASSUME SoundAssumption, Init PROVE SoundInv
  OBVIOUS
<1>1. FollowupInv
  BY InitFollowupInv
<1>2. ClocksInv
  BY NetworkAssumption DEF Init, NetworkInit, ClocksInv, SoundAssumption
<1>3. ServerInv
  BY DEF Init, NetworkInit, ServerInit, ServerInv, SoundAssumption
<1>4. RepliesInv
  BY DEF Init, NetworkInit, ClientInit, RepliesInv
<1>5. BestInv
  BY DEF Init, ClientInit, BestInv
<1> QED BY <1>1, <1>2, <1>3, <1>4, <1>5 DEF SoundInv

\* Replies already in flight stay good; so do those a step adds, if they are.
LEMMA RepliesInFlight ==
    ASSUME SoundInv, Moves,
           \A j \in 1 .. Len(s2c') :
              \/ GoodReply(now', skew', settle', s2c'[j], now')
              \/ \E i \in 1 .. Len(s2c) : s2c'[j] = s2c[i]
    PROVE  \A j \in 1 .. Len(s2c') : GoodReply(now', skew', settle', s2c'[j], now')
<1> TAKE j \in 1 .. Len(s2c')
<1> SUFFICES ASSUME NEW i \in 1 .. Len(s2c), s2c'[j] = s2c[i]
             PROVE  GoodReply(now', skew', settle', s2c'[j], now')
  OBVIOUS
<1>1. s2c[i] \in Packets
  BY DEF SoundInv, FollowupInv, TypeOK, NetworkTypeOK
<1>2. GoodReply(now, skew, settle, s2c[i], now)
  BY DEF SoundInv, RepliesInv
<1>3. now \in Nat /\ now' \in Nat /\ now <= now'
  BY DEF Moves, ClocksMove
<1>4. GoodReply(now', skew', settle', s2c[i], now')
  BY <1>1, <1>2, <1>3, GoodReplyKept DEF Moves
<1> QED BY <1>4

\* So does the reply at hand.
LEMMA ReplyAtHand ==
    ASSUME SoundInv, Moves, cpc = "handle"
    PROVE  respTime <= now' /\ GoodReply(now', skew', settle', resp, respTime)
<1>1. respTime <= now /\ GoodReply(now, skew, settle, resp, respTime)
  BY DEF SoundInv, RepliesInv
<1>2. resp \in Packets /\ respTime \in Nat
  BY DEF SoundInv, FollowupInv, TypeOK, ClientTypeOK
<1>3. now \in Nat /\ now' \in Nat /\ now <= now'
  BY DEF Moves, ClocksMove
<1> QED BY <1>1, <1>2, <1>3, GoodReplyKept DEF Moves

\* So do the response whose follow-up is due,
LEMMA ReplyStays ==
    ASSUME SoundInv, Moves, spc = "follow"
    PROVE  reply.kind \in Replies /\ GoodReply(now', skew', settle', reply, now')
<1>1. reply.kind \in Replies /\ GoodReply(now, skew, settle, reply, now)
  BY DEF SoundInv, ServerInv
<1>2. reply \in Packets /\ now \in Nat /\ now' \in Nat /\ now <= now'
  BY DEF SoundInv, FollowupInv, TypeOK, ServerTypeOK, Moves, ClocksMove
<1> QED BY <1>1, <1>2, GoodReplyKept DEF Moves

\* and the one kept for its follow-up.
LEMMA KeptStays ==
    ASSUME SoundInv, Moves, lastType = "RESPONSE_WITH_FOLLOWUP"
    PROVE  /\ responseTime <= now'
           /\ GoodReply(now', skew', settle', lastResponse, responseTime)
<1>1. responseTime <= now /\ GoodReply(now, skew, settle, lastResponse, responseTime)
  BY DEF SoundInv, RepliesInv
<1>2. /\ lastResponse \in Packets /\ responseTime \in Nat
      /\ now \in Nat /\ now' \in Nat /\ now <= now'
  BY DEF SoundInv, FollowupInv, TypeOK, ClientTypeOK, Moves, ClocksMove
<1> QED BY <1>1, <1>2, GoodReplyKept DEF Moves

\* And the best candidate.
LEMMA BestStays ==
    ASSUME SoundInv, Moves, best # None
    PROVE  Measured(now', skew', settle', best) /\ offset = best.offset
BY MeasuredKept DEF SoundInv, FollowupInv, TypeOK, ClientTypeOK, BestInv, Moves

\* The steps of the network keep it: the clocks drift, strays are not responses.
LEMMA NetworkStepInv ==
    SoundAssumption /\ SoundInv /\ NetworkNext /\ UNCHANGED <<serverVars, clientVars>>
      => SoundInv'
<1> SUFFICES ASSUME SoundAssumption, SoundInv, NetworkNext,
                    UNCHANGED <<serverVars, clientVars>>
             PROVE  SoundInv'
  OBVIOUS
<1>1. FollowupInv'
  BY FollowupStep DEF SoundInv, SoundAssumption, Next
<1>2. /\ now \in Nat /\ skew \in Int /\ settle \in 0 .. DriftPeriod - 1
      /\ rxTime \in Nat /\ rx \in Packets /\ c2s \in Seq(Packets) /\ s2c \in Seq(Packets)
  BY DEF SoundInv, FollowupInv, TypeOK, NetworkTypeOK, ServerTypeOK
<1>3. /\ UNCHANGED <<spc, rx, rxTime, reply, cpc, resp, respTime, best, offset, synced>>
      /\ UNCHANGED <<lastType, responseTime, lastResponse>>
  BY DEF serverVars, clientVars, packetVars, exchangeVars, clockVars
<1>4. CASE Tick
  <2>1. Moves
    <3>1. skew' \in Int /\ settle' \in Int
      BY <1>1, NetworkAssumption DEF FollowupInv, TypeOK, NetworkTypeOK
    <3>2. \/ skew' = skew /\ settle' = IF settle = 0 THEN 0 ELSE settle - 1
          \/ settle = 0 /\ skew' \in {skew - 1, skew + 1} /\ settle' = DriftPeriod - 1
      BY <1>2, <1>4 DEF Tick
    <3>3. now' = now + 1
      BY <1>4 DEF Tick
    <3> QED BY <1>2, <3>1, <3>2, <3>3, TickMoves DEF Moves
  <2>2. ClocksInv'
    <3>1. PICK i \in InitSkews : skew - i <= now - InitNow
      BY DEF SoundInv, ClocksInv
    <3>2. i \in Int /\ InitNow \in Nat /\ MaxTime \in Nat
      BY NetworkAssumption
    <3>3. skew' - i <= now' - InitNow /\ now' <= MaxTime
      BY <1>2, <1>4, <3>1, <3>2 DEF Tick
    <3> QED BY <3>3 DEF ClocksInv
  <2>3. ServerInv'
    <3>1. spc' = "follow" => reply'.kind \in Replies /\ GoodReply(now', skew', settle', reply', now')
      BY <1>3, <2>1, ReplyStays
    <3>2. ASSUME NEW i \in 1 .. Len(c2s'), c2s'[i].kind = "REQUEST" PROVE c2s'[i].t1 <= now'
      <4>1. c2s'[i] = c2s[i] /\ c2s[i] \in Packets /\ i \in 1 .. Len(c2s) /\ now' = now + 1
        BY <1>2, <1>4 DEF Tick
      <4>2. c2s[i].t1 <= now /\ c2s[i].t1 \in Nat
        BY <3>2, <4>1 DEF SoundInv, ServerInv, Packets
      <4> QED BY <1>2, <4>1, <4>2
    <3>3. ASSUME spc' = "reply", rx'.kind = "REQUEST"
          PROVE  /\ rxTime' <= ServerClock'
                 /\ \E a \in 0 .. now' :
                       rx'.t1 <= a /\ ReadAt(now', skew', settle', a, rxTime')
      <4>1. PICK a \in 0 .. now : rx.t1 <= a /\ ReadAt(now, skew, settle, a, rxTime)
        BY <1>3, <3>3 DEF SoundInv, ServerInv
      <4>2. ReadAt(now', skew', settle', a, rxTime)
        BY <1>2, <2>1, <4>1 DEF Moves, ClocksMove
      <4>3. rxTime <= now + skew
        BY <1>3, <3>3 DEF SoundInv, ServerInv, ServerClock
      <4>4. now' = now + 1 /\ skew' \in {skew - 1, skew, skew + 1}
        BY <1>2, <1>4 DEF Tick
      <4>5. rxTime' <= ServerClock'
        <5>1. now \in Int /\ skew \in Int /\ rxTime \in Int /\ rxTime' = rxTime
          BY <1>2, <1>3
        <5>2. skew' = skew - 1 \/ skew' = skew \/ skew' = skew + 1
          BY <4>4
        <5>3. now' = now + 1
          BY <4>4
        <5>4. rxTime <= now' + skew'
          BY <4>3, <5>1, <5>2, <5>3
        <5> QED BY <5>1, <5>4 DEF ServerClock
      <4>6. a \in 0 .. now' /\ rx' = rx /\ rxTime' = rxTime
        BY <1>2, <1>3, <4>4
      <4> QED BY <4>1, <4>2, <4>5, <4>6
    <3> QED BY <3>1, <3>2, <3>3 DEF ServerInv
  <2>4. RepliesInv'
    <3>1. \A j \in 1 .. Len(s2c') : GoodReply(now', skew', settle', s2c'[j], now')
      BY <1>4, <2>1, RepliesInFlight DEF Tick
    <3>2. cpc' = "handle" => respTime' <= now' /\ GoodReply(now', skew', settle', resp', respTime')
      BY <1>3, <2>1, ReplyAtHand
    <3>3. lastType' = "RESPONSE_WITH_FOLLOWUP" =>
             /\ responseTime' <= now'
             /\ GoodReply(now', skew', settle', lastResponse', responseTime')
      BY <1>3, <2>1, KeptStays
    <3> QED BY <3>1, <3>2, <3>3 DEF RepliesInv
  <2>5. BestInv'
    BY <1>3, <2>1, BestStays DEF SoundInv, BestInv
  <2> QED BY <1>1, <2>2, <2>3, <2>4, <2>5 DEF SoundInv
<1>5. CASE StrayToServer \/ StrayToClient
  <2>1. UNCHANGED <<now, skew, settle>>
    BY <1>5 DEF StrayToServer, StrayToClient
  <2>2. Moves
    BY <1>2, <2>1, StandStill DEF Moves
  <2>3. ClocksInv'
    BY <2>1 DEF SoundInv, ClocksInv
  <2>4. ServerInv'
    <3>1. ASSUME NEW i \in 1 .. Len(c2s'), c2s'[i].kind = "REQUEST" PROVE c2s'[i].t1 <= now'
      <4>1. i \in 1 .. Len(c2s) /\ c2s'[i] = c2s[i]
        <5>1. CASE StrayToServer
          <6>1. PICK h \in ServerStrays : c2s' = Append(c2s, NewPacket(h, "other", 0))
            BY <5>1 DEF StrayToServer
          <6>2. NewPacket(h, "other", 0).kind # "REQUEST"
            BY NetworkAssumption DEF NewPacket
          <6> QED BY <1>2, <3>1, <6>1, <6>2
        <5>2. CASE StrayToClient
          BY <5>2 DEF StrayToClient
        <5> QED BY <1>5, <5>1, <5>2
      <4> QED BY <2>1, <3>1, <4>1 DEF SoundInv, ServerInv
    <3>2. spc' = "follow" => reply'.kind \in Replies /\ GoodReply(now', skew', settle', reply', now')
      BY <1>3, <2>2, ReplyStays
    <3> QED BY <1>3, <2>1, <3>1, <3>2 DEF SoundInv, ServerInv, ServerClock
  <2>5. RepliesInv'
    <3>1. ASSUME NEW j \in 1 .. Len(s2c')
          PROVE  \/ GoodReply(now', skew', settle', s2c'[j], now')
                 \/ \E i \in 1 .. Len(s2c) : s2c'[j] = s2c[i]
      <4>1. CASE StrayToServer
        BY <4>1 DEF StrayToServer
      <4>2. CASE StrayToClient
        <5>1. PICK h \in ClientStrays : s2c' = Append(s2c, NewPacket(h, "other", 0))
          BY <4>2 DEF StrayToClient
        <5>2. GoodReply(now', skew', settle', NewPacket(h, "other", 0), now')
          BY NetworkAssumption DEF NewPacket, GoodReply, Replies
        <5>3. CASE j <= Len(s2c)
          BY <1>2, <5>1, <5>3
        <5>4. CASE j > Len(s2c)
          <6>1. s2c'[j] = NewPacket(h, "other", 0)
            BY <1>2, <5>1, <5>4
          <6> QED BY <5>2, <6>1
        <5> QED BY <1>2, <5>3, <5>4
      <4> QED BY <1>5, <4>1, <4>2
    <3>2. \A j \in 1 .. Len(s2c') : GoodReply(now', skew', settle', s2c'[j], now')
      BY <2>2, <3>1, RepliesInFlight
    <3>3. cpc' = "handle" => respTime' <= now' /\ GoodReply(now', skew', settle', resp', respTime')
      BY <1>3, <2>2, ReplyAtHand
    <3>4. lastType' = "RESPONSE_WITH_FOLLOWUP" =>
             /\ responseTime' <= now'
             /\ GoodReply(now', skew', settle', lastResponse', responseTime')
      BY <1>3, <2>2, KeptStays
    <3> QED BY <3>2, <3>3, <3>4 DEF RepliesInv
  <2>6. BestInv'
    BY <1>3, <2>2, BestStays DEF SoundInv, BestInv
  <2> QED BY <1>1, <2>3, <2>4, <2>5, <2>6 DEF SoundInv
<1> QED BY <1>4, <1>5 DEF NetworkNext

\* The server puts responses, and copies of them, into the client's socket.
LEMMA ServerStepInv ==
    SoundAssumption /\ SoundInv /\ ServerNext /\ UNCHANGED clientVars => SoundInv'
<1> SUFFICES ASSUME SoundAssumption, SoundInv, ServerNext, UNCHANGED clientVars
             PROVE  SoundInv'
  OBVIOUS
<1> USE DEF ServerNext, ServerThread
<1>1. FollowupInv'
  BY FollowupStep DEF SoundInv, SoundAssumption, Next
<1>2. now \in Nat /\ skew \in Int
  BY DEF SoundInv, FollowupInv, TypeOK, NetworkTypeOK
<1>3. c2s \in Seq(Packets) /\ s2c \in Seq(Packets)
  BY DEF SoundInv, FollowupInv, TypeOK, NetworkTypeOK
<1>4. UNCHANGED <<cpc, resp, respTime, lastType, responseTime, lastResponse, best, offset, synced>>
  BY DEF clientVars, packetVars, exchangeVars, clockVars
<1>5. UNCHANGED <<now, skew, settle>>
  BY DEF ServerReceive, ServerReceives, ServerReceiveError, ServerReply, ServerIgnore,
         ServerFollowup, ServerExit, SetActive, SetFollowup, ServerStop, networkVars
<1>6. ASSUME ServerReply
      PROVE  Response.kind \in Replies /\ GoodReply(now, skew, settle, Response, now)
  <2>1. GoodReply(now, skew, settle, Response, now)
    BY <1>6, ResponseGood DEF ServerReply, ServerAnswers
  <2>2. Response.kind \in Replies
    BY DEF Response, Replies, SoundInv, FollowupInv, TypeOK, ServerTypeOK, Packets
  <2> QED BY <2>1, <2>2
<1>7. Moves
  BY <1>2, <1>5, StandStill DEF Moves
<1>8. ClocksInv'
  BY <1>5 DEF SoundInv, ClocksInv
<1>9. BestInv'
  BY <1>4, <1>7, BestStays DEF SoundInv, BestInv
<1>10. RepliesInv'
  <2>1. ASSUME NEW j \in 1 .. Len(s2c')
        PROVE  \/ GoodReply(now', skew', settle', s2c'[j], now')
               \/ \E i \in 1 .. Len(s2c) : s2c'[j] = s2c[i]
    <3>1. CASE ServerReply
      <4>1. s2c' \in Sent(s2c, Response) /\ Response \in Packets
        BY <3>1, ResponseType DEF ServerReply, SoundInv, FollowupInv
      <4>2. s2c'[j] = Response \/ \E i \in 1 .. Len(s2c) : s2c'[j] = s2c[i]
        BY <1>3, <2>1, <4>1, SentElements
      <4>3. GoodReply(now', skew', settle', Response, now')
        BY <1>5, <1>6, <3>1
      <4> QED BY <4>2, <4>3
    <3>2. CASE ServerFollowup
      <4>1. s2c' = s2c \/ s2c' \in Sent(s2c, FollowupReply)
        BY <3>2 DEF ServerFollowup
      <4>2. FollowupReply \in Packets
        BY FollowupReplyType DEF SoundInv, FollowupInv
      <4>3. s2c'[j] = FollowupReply \/ \E i \in 1 .. Len(s2c) : s2c'[j] = s2c[i]
        BY <1>3, <2>1, <4>1, <4>2, SentElements
      <4>4. GoodReply(now, skew, settle, FollowupReply, now)
        <5>1. GoodReply(now, skew, settle, reply, now) /\ reply \in Packets
          BY <3>2 DEF ServerFollowup, SoundInv, FollowupInv, TypeOK, ServerTypeOK, ServerInv
        <5>2. reply.kind \in Replies
          BY <3>2 DEF ServerFollowup, SoundInv, ServerInv
        <5> QED BY <5>1, <5>2 DEF GoodReply, FollowupReply, Packets
      <4> QED BY <1>5, <4>3, <4>4
    <3>3. CASE ~ ServerReply /\ ~ ServerFollowup
      <4>1. s2c' = s2c
        BY <3>3
        DEF ServerReceive, ServerReceives, ServerReceiveError, ServerIgnore, ServerExit,
            SetActive, SetFollowup, ServerStop, networkVars
      <4> QED BY <2>1, <4>1
    <3> QED BY <3>1, <3>2, <3>3
  <2>2. \A j \in 1 .. Len(s2c') : GoodReply(now', skew', settle', s2c'[j], now')
    BY <1>7, <2>1, RepliesInFlight
  <2>3. cpc' = "handle" => respTime' <= now' /\ GoodReply(now', skew', settle', resp', respTime')
    BY <1>4, <1>7, ReplyAtHand
  <2>4. lastType' = "RESPONSE_WITH_FOLLOWUP" =>
           /\ responseTime' <= now'
           /\ GoodReply(now', skew', settle', lastResponse', responseTime')
    BY <1>4, <1>7, KeptStays
  <2> QED BY <2>2, <2>3, <2>4 DEF RepliesInv
<1>11. ServerInv'
  <2>1. ASSUME NEW i \in 1 .. Len(c2s'), c2s'[i].kind = "REQUEST" PROVE c2s'[i].t1 <= now'
    <3>1. \E j \in 1 .. Len(c2s) : c2s'[i] = c2s[j]
      <4>1. CASE ServerReceive
        <5>1. PICK j \in 1 .. Len(c2s) : ServerReceives(j)
          BY <4>1 DEF ServerReceive
        <5>2. c2s' \in Received(c2s, j)
          BY <5>1 DEF ServerReceives
        <5> QED BY <1>3, <5>2, ReceivedElements
      <4>2. CASE ServerReceiveError
        <5>1. PICK j \in 1 .. Len(c2s) : c2s' = RemoveAt(c2s, j)
          BY <4>2 DEF ServerReceiveError, Deliverable
        <5> QED BY <1>3, <5>1, RemoveAtElements
      <4>3. CASE ~ ServerReceive /\ ~ ServerReceiveError
        <5>1. c2s' = c2s
          BY <4>3 DEF ServerReply, ServerIgnore, ServerFollowup, ServerExit,
                      SetActive, SetFollowup, ServerStop, networkVars
        <5> QED BY <5>1
      <4> QED BY <4>1, <4>2, <4>3
    <3> QED BY <1>5, <2>1, <3>1 DEF SoundInv, ServerInv
  <2>2. ASSUME spc' = "reply", rx'.kind = "REQUEST"
        PROVE  /\ rxTime' <= ServerClock'
               /\ \E a \in 0 .. now' :
                     rx'.t1 <= a /\ ReadAt(now', skew', settle', a, rxTime')
    <3>1. CASE ServerReceive
      <4>1. PICK j \in 1 .. Len(c2s) : ServerReceives(j)
        BY <3>1 DEF ServerReceive
      <4>2. rx' = c2s[j] /\ rxTime' = ServerClock
        BY <4>1 DEF ServerReceives
      <4>3. rx'.t1 <= now
        BY <2>2, <4>2 DEF SoundInv, ServerInv
      <4>4. settle \in Nat /\ DriftPeriod \in Nat /\ ServerClock \in Nat
        BY NetworkAssumption DEF SoundInv, FollowupInv, TypeOK, NetworkTypeOK
      <4>5. ReadAt(now, skew, settle, now, ServerClock)
        BY <1>2, <4>4 DEF ReadAt, ServerClock
      <4>6. ServerClock' = ServerClock
        BY <1>5 DEF ServerClock
      <4> HIDE DEF ServerClock
      <4>7. now \in 0 .. now' /\ rxTime' <= ServerClock'
        BY <1>2, <1>5, <4>2, <4>4, <4>6
      <4> QED BY <1>5, <4>2, <4>3, <4>5, <4>7
    <3>2. CASE ~ ServerReceive
      <4>1. UNCHANGED <<spc, rx, rxTime>>
        BY <2>2, <3>2
        DEF ServerReceiveError, ServerReply, ServerIgnore, ServerFollowup, ServerExit,
            SetActive, SetFollowup, ServerStop, serverVars, NextRound
      <4> QED BY <1>5, <2>2, <4>1 DEF SoundInv, ServerInv, ServerClock
    <3> QED BY <3>1, <3>2
  <2>3. ASSUME spc' = "follow"
        PROVE  reply'.kind \in Replies /\ GoodReply(now', skew', settle', reply', now')
    <3>1. CASE ServerReply
      BY <1>5, <1>6, <3>1 DEF ServerReply
    <3>2. CASE ~ ServerReply
      <4>1. spc = "follow" /\ reply' = reply
        BY <2>3, <3>2
        DEF ServerReceive, ServerReceives, ServerReceiveError, ServerIgnore, ServerFollowup,
            ServerExit, SetActive, SetFollowup, ServerStop, serverVars, NextRound
      <4> QED BY <1>7, <4>1, ReplyStays
    <3> QED BY <3>1, <3>2
  <2> QED BY <2>1, <2>2, <2>3 DEF ServerInv
<1> QED BY <1>1, <1>8, <1>9, <1>10, <1>11 DEF SoundInv

\* A request carries the time it was sent at, or an earlier one if the seconds do
\* not fit into their 32 bits.
LEMMA OnWireBound == ASSUME NEW t \in Nat PROVE OnWire(t) <= t
<1> DEFINE q == t \div SECOND
           r == t - q * SECOND
<1>1. q \in Nat /\ SECOND \in Nat /\ q * SECOND <= t
  BY WidthAssumption
<1>2. q % U32 \in Nat /\ q % U32 <= q
  BY <1>1, WidthAssumption
<1>3. OnWire(t) = (q % U32) * SECOND + r
  BY DEF OnWire, FromWcTimestamp, ToWcSeconds, ToWcFraction
<1> HIDE DEF q
<1>4. SECOND * (q % U32) <= SECOND * q
  BY <1>1, <1>2, TimesMonotonic
<1>5. (q % U32) * SECOND <= q * SECOND
  BY <1>1, <1>2, <1>4
<1>6. (q % U32) * SECOND \in Int /\ q * SECOND \in Int
  BY <1>1, <1>2
<1> QED BY <1>3, <1>5, <1>6

\* Every client action: the requests in flight were sent at their t1, the reply
\* taken from the socket is a good one, and what update accepts is a measurement.
LEMMA ClientStepInv ==
    SoundAssumption /\ SoundInv /\ ClientNext /\ UNCHANGED serverVars => SoundInv'
<1> SUFFICES ASSUME SoundAssumption, SoundInv, ClientNext, UNCHANGED serverVars
             PROVE  SoundInv'
  OBVIOUS
<1> USE DEF ClientNext, ClientThread
<1>1. FollowupInv'
  BY FollowupStep DEF SoundInv, SoundAssumption, Next
<1>2. now \in Nat
  BY DEF SoundInv, FollowupInv, TypeOK, NetworkTypeOK
<1>3. c2s \in Seq(Packets) /\ s2c \in Seq(Packets)
  BY DEF SoundInv, FollowupInv, TypeOK, NetworkTypeOK
<1>4. UNCHANGED <<spc, rx, rxTime, reply>>
  BY DEF serverVars
<1>5. UNCHANGED <<now, skew, settle>>
  BY DEF ClientSend, ClientReceive, ClientReceives, ClientReceiveError, ClientTimeout,
         ClientInterrupted, ClientWake, Handling, HandleRequest, HandleResponse,
         HandleResponseWithFollowup, HandleFollowup, HandleOther, SetSynced,
         ClientExit, ClientStop, networkVars
<1>6. Moves
  BY <1>2, <1>5, StandStill DEF Moves
<1>7. ClocksInv'
  BY <1>5 DEF SoundInv, ClocksInv
<1>8. ServerInv'
  <2>1. ASSUME NEW i \in 1 .. Len(c2s'), c2s'[i].kind = "REQUEST" PROVE c2s'[i].t1 <= now'
    <3>1. CASE ClientSend
      <4> DEFINE m == NewPacket("REQUEST", "client", OnWire(now))
      <4>1. c2s' = c2s \/ c2s' = Append(c2s, m)
        BY <3>1 DEF ClientSend, Sent
      <4>2. m.t1 = OnWire(now) /\ m.t1 <= now
        BY <1>2, OnWireBound DEF NewPacket
      <4> HIDE DEF m
      <4>3. c2s'[i] = m \/ \E j \in 1 .. Len(c2s) : c2s'[i] = c2s[j]
        BY <1>3, <2>1, <4>1
      <4> QED BY <1>5, <2>1, <4>2, <4>3 DEF SoundInv, ServerInv
    <3>2. CASE ~ ClientSend
      <4>1. c2s' = c2s
        BY <3>2
        DEF ClientReceive, ClientReceives, ClientReceiveError, ClientTimeout,
            ClientInterrupted, ClientWake, Handling, HandleRequest, HandleResponse,
            HandleResponseWithFollowup, HandleFollowup, HandleOther, SetSynced,
            ClientExit, ClientStop, networkVars
      <4> QED BY <1>5, <2>1, <4>1 DEF SoundInv, ServerInv
    <3> QED BY <3>1, <3>2
  <2>2. spc' = "follow" => reply'.kind \in Replies /\ GoodReply(now', skew', settle', reply', now')
    BY <1>4, <1>6, ReplyStays
  <2> QED BY <1>4, <1>5, <2>1, <2>2 DEF SoundInv, ServerInv, ServerClock
<1>9. RepliesInv'
  <2>1. ASSUME NEW j \in 1 .. Len(s2c') PROVE \E i \in 1 .. Len(s2c) : s2c'[j] = s2c[i]
    <3>1. CASE ClientReceive
      <4>1. PICK i \in 1 .. Len(s2c) : ClientReceives(i)
        BY <3>1 DEF ClientReceive
      <4>2. s2c' \in Received(s2c, i)
        BY <4>1 DEF ClientReceives
      <4> QED BY <1>3, <4>2, ReceivedElements
    <3>2. CASE ClientReceiveError
      <4>1. PICK i \in 1 .. Len(s2c) : s2c' = RemoveAt(s2c, i)
        BY <3>2 DEF ClientReceiveError, Deliverable
      <4>2. s2c' \in Received(s2c, i)
        BY <4>1 DEF Received
      <4> QED BY <1>3, <4>2, ReceivedElements
    <3>3. CASE ~ ClientReceive /\ ~ ClientReceiveError
      <4>1. s2c' = s2c
        BY <3>3
        DEF ClientSend, ClientTimeout, ClientInterrupted, ClientWake, Handling,
            HandleRequest, HandleResponse, HandleResponseWithFollowup, HandleFollowup,
            HandleOther, SetSynced, ClientExit, ClientStop, networkVars
      <4> QED BY <4>1
    <3> QED BY <3>1, <3>2, <3>3
  <2>2. \A j \in 1 .. Len(s2c') : GoodReply(now', skew', settle', s2c'[j], now')
    BY <1>6, <2>1, RepliesInFlight
  <2>3. ASSUME cpc' = "handle"
        PROVE  respTime' <= now' /\ GoodReply(now', skew', settle', resp', respTime')
    <3>1. CASE ClientReceive
      <4>1. PICK i \in 1 .. Len(s2c) : ClientReceives(i)
        BY <3>1 DEF ClientReceive
      <4>2. resp' = s2c[i] /\ respTime' = now
        BY <4>1 DEF ClientReceives
      <4>3. GoodReply(now, skew, settle, s2c[i], now)
        BY DEF SoundInv, RepliesInv
      <4> QED BY <1>2, <1>5, <4>2, <4>3
    <3>2. CASE ~ ClientReceive
      <4>1. UNCHANGED <<cpc, resp, respTime>>
        BY <2>3, <3>2
        DEF ClientSend, ClientReceiveError, ClientTimeout, ClientInterrupted, ClientWake,
            HandleRequest, HandleResponse, HandleResponseWithFollowup, HandleFollowup,
            HandleOther, SetSynced, ClientExit, ClientStop, Ignore, Update, Accept, Reject,
            StartWaiting, StartSleeping, packetVars
      <4> QED BY <1>6, <2>3, <4>1, ReplyAtHand
    <3> QED BY <3>1, <3>2
  <2>4. ASSUME lastType' = "RESPONSE_WITH_FOLLOWUP"
        PROVE  /\ responseTime' <= now'
               /\ GoodReply(now', skew', settle', lastResponse', responseTime')
    <3>1. CASE HandleResponseWithFollowup
      <4>1. cpc = "handle" /\ responseTime' = respTime /\ lastResponse' = resp
        BY <3>1 DEF HandleResponseWithFollowup, Handling, RememberResponse
      <4> QED BY <1>6, <4>1, ReplyAtHand
    <3>2. CASE ~ HandleResponseWithFollowup
      <4>1. UNCHANGED <<lastType, responseTime, lastResponse>>
        BY <2>4, <3>2
        DEF ClientSend, ClientReceive, ClientReceives, ClientReceiveError, ClientTimeout,
            ClientInterrupted, ClientWake, Handling, HandleRequest, HandleResponse,
            HandleFollowup, HandleOther, SetSynced, ClientExit, ClientStop,
            RememberResponse, exchangeVars
      <4> QED BY <1>6, <2>4, <4>1, KeptStays
    <3> QED BY <3>1, <3>2
  <2> QED BY <2>2, <2>3, <2>4 DEF RepliesInv
<1>10. BestInv'
  <2> DEFINE c        == Candidate(resp, MeasuredAt)
             Accepts  == cpc = "handle" /\ IsMeasurement /\ Accept(c)
  <2>1. CASE Accepts
    <3>1. c \in Candidates /\ Measured(now, skew, settle, c)
      BY <2>1, MeasurementMeasured
    <3>2. best' = c /\ offset' = c.offset
      BY <2>1 DEF Accept
    <3> HIDE DEF c
    <3> QED BY <1>5, <3>1, <3>2, ClientAssumption DEF BestInv
  <2>2. CASE ~ Accepts
    <3>1. /\ UNCHANGED <<best, offset>>
          /\ (synced' \/ cpc' = "synced") => (synced \/ cpc = "synced")
      <4>1. CASE HandleResponse \/ HandleFollowup
        <5>1. HandleResponse => cpc = "handle" /\ IsMeasurement /\ MeasuredAt = respTime
          BY DEF HandleResponse, Handling, IsMeasurement, MeasuredAt
        <5>2. HandleFollowup => cpc = "handle"
          BY DEF HandleFollowup, Handling
        <5>3. Ignore \/ \E d \in {c} : Reject(d)
          BY <2>2, <4>1, <5>1, <5>2 DEF HandleResponse, HandleFollowup, Update
        <5> QED BY <5>3 DEF Ignore, Reject, StartWaiting, clockVars
      <4>2. CASE ~ HandleResponse /\ ~ HandleFollowup
        BY <4>2
        DEF ClientSend, ClientReceive, ClientReceives, ClientReceiveError, ClientTimeout,
            ClientInterrupted, ClientWake, HandleRequest, HandleResponseWithFollowup,
            HandleOther, SetSynced, ClientExit, ClientStop, Ignore, StartWaiting,
            StartSleeping, clockVars
      <4> QED BY <4>1, <4>2
    <3> QED BY <1>6, <3>1, BestStays DEF SoundInv, BestInv
  <2> QED BY <2>1, <2>2
<1> QED BY <1>1, <1>7, <1>8, <1>9, <1>10 DEF SoundInv

\* Sound is what the invariant says of the best candidate.
LEMMA SoundInvSound == SoundAssumption /\ SoundInv => Sound
<1> SUFFICES ASSUME SoundAssumption, SoundInv, synced
             PROVE  best # None /\ offset = best.offset /\ Error <= RawDispersion(best, now)
  BY DEF Sound
<1>1. /\ now \in Nat /\ skew \in Int /\ settle \in 0 .. DriftPeriod - 1
      /\ offset \in Int /\ now <= MaxTime
  BY DEF SoundInv, FollowupInv, TypeOK, NetworkTypeOK, ClientTypeOK, ClocksInv
<1>2. best # None /\ best \in Candidates
  BY DEF SoundInv, FollowupInv, TypeOK, ClientTypeOK, BestInv
<1>3. Measured(now, skew, settle, best) /\ offset = best.offset
  BY <1>2 DEF SoundInv, BestInv
<1>4. /\ offset - skew <= RawDispersion(best, now)
      /\ skew - offset <= RawDispersion(best, now)
  BY <1>1, <1>2, <1>3, MeasuredBound
<1> QED BY <1>2, <1>3, <1>4 DEF Error

\* Where measurements come from, at every moment of every behaviour: every response
\* on its way, however old, and the best candidate are of one exchange with the
\* server, whose two readings lie between the request and the reception
\* (gst_dvb_css_wc_client_internal_clock_thread, gst_dvb_css_wc_server_thread).
THEOREM Provenance == ASSUME SoundAssumption PROVE Spec => []SoundInv
<1>1. Init => SoundInv
  BY InitSoundInv
<1>2. SoundInv /\ [Next]_vars => SoundInv'
  <2> SUFFICES ASSUME SoundInv, [Next]_vars PROVE SoundInv'
    OBVIOUS
  <2>1. CASE NetworkNext /\ UNCHANGED <<serverVars, clientVars>>
    BY <2>1, NetworkStepInv
  <2>2. CASE ServerNext /\ UNCHANGED clientVars
    BY <2>2, ServerStepInv
  <2>3. CASE ClientNext /\ UNCHANGED serverVars
    BY <2>3, ClientStepInv
  <2>4. CASE UNCHANGED vars
    <3>1. FollowupInv'
      BY FollowupStep DEF SoundInv, SoundAssumption
    <3>2. (ClocksInv /\ ServerInv /\ RepliesInv /\ BestInv)'
      BY <2>4
      DEF SoundInv, ClocksInv, ServerInv, RepliesInv, BestInv, ServerClock, vars, networkVars,
          serverVars, clientVars, packetVars, exchangeVars, clockVars
    <3> QED BY <3>1, <3>2 DEF SoundInv
  <2> QED BY <2>1, <2>2, <2>3, <2>4 DEF Next
<1> QED BY <1>1, <1>2, PTL DEF Spec

\* For every network that drifts within the frequency error the client allows for
\* its own clock, loses, duplicates, delays and reorders datagrams as it likes, and
\* for every value of the other constants: a synchronised client reads the server's
\* time to within the dispersion it computes, at every moment of every behaviour
\* (update and calc_dispersion of gstdvbcsswcclient.c).
THEOREM Soundness == ASSUME SoundAssumption PROVE Spec => []Sound
<1>1. Spec => []SoundInv
  BY Provenance
<1>2. SoundInv => Sound
  BY SoundInvSound
<1> QED BY <1>1, <1>2, PTL
=============================================================================
