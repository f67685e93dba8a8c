--------------------------- MODULE MCTraceScopes ---------------------------
(* Instances of TraceScopes for TLC.  The tasks Main starts are alike.     *)
EXTENDS TraceScopes, TLC

TaskSymmetry == Permutations(Tasks \ {Main})
=============================================================================
