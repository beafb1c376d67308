------------------------------ MODULE MCHttp1 ------------------------------
(* Model-checking instance of the HTTP/1 connection task. *)
EXTENDS Http1Client, TLC

Symmetry == Permutations(Requests)
=============================================================================
