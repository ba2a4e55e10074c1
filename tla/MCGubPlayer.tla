---------------------------- MODULE MCGubPlayer -----------------------------
(***************************************************************************)
(* Instances of GubPlayer for TLC.                                         *)
(***************************************************************************)
EXTENDS GubPlayer

\* Alone, with a crop that leaves nothing and is ignored, and in step with others
\* from a base time on, with a crop.
MCSetups ==
    {[crop |-> "all", clock |-> FALSE, based |-> FALSE],
     [crop |-> "part", clock |-> TRUE, based |-> TRUE]}
=============================================================================
