-------------------------- MODULE MCStreamToPath --------------------------
(* StreamToPath for TLC; its constants are all given in the cfg.           *)
EXTENDS StreamToPath
=============================================================================
