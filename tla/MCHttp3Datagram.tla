------------------------- MODULE MCHttp3Datagram --------------------------
(* A session with a one-byte prefix and one with two; room on the          *)
(* connection for less than both could queue.                              *)
EXTENDS Http3Datagram

MCOn == "s1" :> 0 @@ "s2" :> 64
MCLimits == {2, 5}
MCUses == {[senders |-> Senders, waiters |-> {"s1"}, readers |-> {}],
           [senders |-> {}, waiters |-> {}, readers |-> {0}]}
=============================================================================
