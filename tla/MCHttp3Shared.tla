--------------------------- MODULE MCHttp3Shared ----------------------------
(* The instances that TLC checks; the .cfg files give the constants. *)
EXTENDS Http3Shared
=============================================================================
