---------------------------- MODULE MCWallClock -----------------------------
(* Values for the constants a .cfg file cannot write down. *)
EXTENDS WallClock

MCSkew3 == {3}

MCSkewMinus1 == {-1}

MCExponents == 0 .. 7
=============================================================================
