---------------------------- MODULE WcCandidate -----------------------------
(***************************************************************************)
(* The measurement algorithm of the Wall Clock client: a candidate is one  *)
(* exchange (t1 request sent, t2 request received, t3 response sent, t4    *)
(* response received; t1 and t4 on the client's clock, t2 and t3 on the    *)
(* server's), its offset the estimate of server minus client, and its      *)
(* dispersion what the estimate may be wrong by (candidate_new and         *)
(* calc_dispersion of gstdvbcsswcclient.c).                                *)
(***************************************************************************)
EXTENDS WcPacket

CONSTANTS
    LocalPrecision,     \* ticks: clock_precision_sec of the client's clock
    LocalPpm,           \* max_freq_error_ppm of the client's clock
    MILLION             \* parts the frequency errors count (1000000)

ASSUME LocalAssumption ==
    /\ LocalPrecision \in Nat
    /\ LocalPpm \in Nat
    /\ MILLION \in Nat \ {0}

\* The division of C, towards zero, by 2.
Half(x) == IF x >= 0 THEN x \div 2 ELSE -((-x) \div 2)

Candidates ==
    [t1 : Nat, t2 : Nat, t3 : Nat, t4 : Nat, rtt : Int, offset : Int,
     precision : Nat, ppm : Nat]

\* candidate_new for packet m received (or said to be received) at t4.
Candidate(m, t4) ==
    [t1        |-> m.t1,
     t2        |-> m.t2,
     t3        |-> m.t3,
     t4        |-> t4,
     rtt       |-> (t4 - m.t1) - (m.t3 - m.t2),
     offset    |-> Half((m.t3 + m.t2) - (t4 + m.t1)),
     precision |-> DecodePrecision(m.precision),
     ppm       |-> DecodeMaxFreqError(m.maxFreq)]

\* Mutant: the age of the candidate is forgotten.
WanderAgeless(c, time) ==
    ((LocalPpm * (c.t4 - c.t1) + c.ppm * (c.t3 - c.t2)) % U64) \div MILLION

\* The frequency term of calc_dispersion: 64 bit unsigned arithmetic, the sum of
\* the two errors 32 bit.
Wander(c, time) ==
    (( LocalPpm * (c.t4 - c.t1)
     + c.ppm * (c.t3 - c.t2)
     + ((c.ppm + LocalPpm) % U32) * (time - c.t4)) % U64) \div MILLION

\* The sum of calc_dispersion, a double that may be negative: rtt is signed.
RawDispersion(c, time) ==
    Half(c.rtt) + c.precision + LocalPrecision + Wander(c, time)

\* The cast of a double to GstClockTime is undefined for a negative value: ARM
\* saturates it to 0, x86 wraps it round.
CastsToClockTime(d) == IF d >= 0 THEN {d} ELSE {0, U64 + d}

Dispersions(c, time) == CastsToClockTime(RawDispersion(c, time))
=============================================================================
