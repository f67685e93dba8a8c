------------------------- MODULE MCBreakerRegistry -------------------------
(* Instances of BreakerRegistry for TLC.  The requests are alike, and so   *)
(* are the destinations nobody watches.                                    *)
EXTENDS BreakerRegistry, TLC

Symmetry == Permutations(Requests) \cup Permutations(Destinations \ {Watched})
=============================================================================
