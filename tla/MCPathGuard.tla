---------------------------- MODULE MCPathGuard ----------------------------
(* PathGuard's constants are numbers: the .cfg gives them.                 *)
EXTENDS PathGuard
=============================================================================
