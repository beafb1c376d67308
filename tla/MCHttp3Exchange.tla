------------------------- MODULE MCHttp3Exchange ---------------------------
(* An empty and a non-empty request, a HEAD, CONNECTs with and without     *)
(* Datagrams, and requests that are turned down.                           *)
EXTENDS Http3Exchange

Plain == [method |-> "GET", protocol |-> "none", datagrams |-> FALSE, valid |-> TRUE,
          length |-> None, hint |-> 0, empty |-> TRUE]
Post == [Plain EXCEPT !.method = "POST", !.hint = None, !.empty = FALSE]
Tunnel == [Plain EXCEPT !.method = "CONNECT", !.hint = None]

MCCalls ==
    {Plain, [Plain EXCEPT !.method = "HEAD"],
     Post, [Post EXCEPT !.hint = 1],
     Tunnel, [Tunnel EXCEPT !.protocol = "udp"], [Tunnel EXCEPT !.protocol = "udp", !.datagrams = TRUE],
     [Plain EXCEPT !.length = 1], [Plain EXCEPT !.length = Bad], [Plain EXCEPT !.datagrams = TRUE],
     [Tunnel EXCEPT !.empty = FALSE]}

MCLengths == {None, 1}
=============================================================================
