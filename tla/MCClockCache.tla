---------------------------- MODULE MCClockCache ----------------------------
(* Symmetry for the safety runs: no two of these are told apart. *)
EXTENDS ClockCache, TLC

MCSymmetry ==
    Permutations(Clients) \cup Permutations(Addresses) \cup Permutations(Busses)
        \cup Permutations(Caches) \cup Permutations(Timers)
=============================================================================
