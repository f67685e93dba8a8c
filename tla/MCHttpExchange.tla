--------------------------- MODULE MCHttpExchange ---------------------------
(* Instances of HttpExchange for TLC: the caller's origin, another one it  *)
(* may be sent to, and one whose scheme is not allowed.                    *)
EXTENDS HttpExchange

MCOrigins == {"home", "other", "ftp"}
MCSchemeOf == [o \in MCOrigins |-> IF o = "ftp" THEN "ftp" ELSE "https"]
=============================================================================
