---------------------------- MODULE MCGcsOffload ----------------------------
(* Instances of GcsOffload for TLC.                                        *)
EXTENDS GcsOffload
=============================================================================
