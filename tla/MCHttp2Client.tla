--------------------------- MODULE MCHttp2Client ---------------------------
(* Model-checking instance of the HTTP/2 client. *)
EXTENDS Http2Client

Symmetry == Permutations(Requests)
=============================================================================
