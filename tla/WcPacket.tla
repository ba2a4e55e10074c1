------------------------------ MODULE WcPacket ------------------------------
(***************************************************************************)
(* The Wall Clock packet (gstdvbcsswcpacket.c): its fields, and what the   *)
(* conversions between a clock reading and the wire do to a value.         *)
(*                                                                         *)
(* A reading is a number of ticks (nanoseconds in the code). The wire has  *)
(* 32 bits for the seconds and 32 for the rest, a binary exponent for the  *)
(* precision and a fixed-point number for the frequency error.             *)
(***************************************************************************)
EXTENDS Integers

CONSTANTS
    SECOND,             \* ticks in a second (GST_SECOND)
    U32,                \* 2^32: the range of the seconds on the wire
    U64,                \* 2^64: the range of GstClockTime
    Exponents,          \* exponents the precision field can hold (gint8)
    ServerPrecision     \* ticks: what measure_precision_sec found on the server

ASSUME WidthAssumption ==
    /\ SECOND \in Nat \ {0}
    /\ U32 \in Nat \ {0}
    /\ U64 \in Nat \ {0}

\* The code takes log2 of the precision, which is undefined for 0: the readings
\* measure_precision_sec compares are assumed to differ at least once.
ASSUME PrecisionAssumption ==
    /\ ServerPrecision \in Nat \ {0}
    /\ Exponents \subseteq Nat
    /\ 0 \in Exponents
    /\ \A e \in Exponents : 2^e \in Nat
    /\ \E e \in Exponents : 2^e >= ServerPrecision

-----------------------------------------------------------------------------
(* Time stamps. *)

ToWcSeconds(t) == (t \div SECOND) % U32

\* Mutant: the seconds are rounded up before they are taken off.
ToWcFractionRounded(t) == t - ((t + SECOND - 1) \div SECOND) * SECOND

ToWcFraction(t) == t - (t \div SECOND) * SECOND

FromWcTimestamp(secs, fraction) == secs * SECOND + fraction

\* What is left of a reading that was written to the wire and read back.
OnWire(t) == FromWcTimestamp(ToWcSeconds(t), ToWcFraction(t))

-----------------------------------------------------------------------------
(* Precision and frequency error. *)

\* (gint8) ceil (log2 (p)), for p in ticks.
EncodePrecision(p) ==
    CHOOSE e \in Exponents : 2^e >= p /\ \A f \in Exponents : 2^f >= p => e <= f

DecodePrecision(e) == 2^e

\* (guint32) ceil (ppm * 256): undefined beyond 32 bits, see WcServer's assumption.
EncodeMaxFreqError(ppm) == ppm * 256

DecodeMaxFreqError(f) == f \div 256

-----------------------------------------------------------------------------
(* Packets. *)

\* "OTHER" stands for a type the enumeration does not have, or a request of an
\* unknown version; "SHORT" for a datagram of fewer bytes than a packet.
Kinds == {"REQUEST", "RESPONSE", "RESPONSE_WITH_FOLLOWUP", "FOLLOWUP",
          "OTHER", "SHORT"}

\* Where a datagram comes from: the client, the server it was configured with,
\* or some other host of the network.
Hosts == {"client", "server", "other"}

Packets ==
    [kind : Kinds, from : Hosts, t1 : Nat, t2 : Nat, t3 : Nat,
     precision : Exponents, maxFreq : Nat]

\* gst_dvb_css_wc_packet_new (NULL): every field the caller does not set is 0.
NewPacket(kind, from, t1) ==
    [kind |-> kind, from |-> from, t1 |-> t1, t2 |-> 0, t3 |-> 0,
     precision |-> 0, maxFreq |-> 0]

\* No packet: it was freed.
NoPacket == NewPacket("OTHER", "other", 0)
=============================================================================
