---------------------------- MODULE MCHttp2Ping ----------------------------
(* Model-checking instance of HTTP/2 PINGs. *)
EXTENDS Http2Ping
=============================================================================
