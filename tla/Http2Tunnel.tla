---------------------------- MODULE Http2Tunnel ----------------------------
(***************************************************************************)
(* The tunnel of a successful HTTP/2 CONNECT (proto/http2/upgrade.rs): the *)
(* task that sends what the IO was given (UpgradedSendStreamTask), the     *)
(* channel of writes between them, and the reset that CONNECT-UDP may ask  *)
(* for (StreamReset, ResetSlot, ResetRx).  The IO's calls are operators    *)
(* that MasqueTunnel puts into the calls of the UDP tunnel above it.       *)
(*                                                                         *)
(* A step of the task is the look at the requested reset that opens a      *)
(* tick, or one turn of its loop; utask.on is what will wake it.  A write  *)
(* stands for the number of capsules in it.  The HTTP/2 stream itself is   *)
(* external: the peer grants capacity, sends, ends or resets.  Its flow    *)
(* control of what is received is left out.                                *)
(*                                                                         *)
(* Definitions that Next does not use are slips that the properties must   *)
(* notice; each stands before the definition it is a slip of.              *)
(***************************************************************************)
EXTENDS Integers, Sequences

VARIABLES
    uio,        \* the upgraded IO is held by one of the halves
    chan,       \* the channel of writes, its closing, and who waits for room in it
    utask,      \* the send task: where its tick is, its write in hand, its wakeups
    rslot,      \* ResetSlot: the first request's reason, and the stop of the reading
    h2s         \* the HTTP/2 stream

h2Vars == <<uio, chan, utask, rslot, h2s>>

(* pair, with the StreamReset of a CONNECT-UDP response *)
H2TunnelInit ==
    /\ uio = TRUE
    /\ chan = [queue |-> << >>, closed |-> FALSE, waker |-> "none"]
    /\ utask = [pc |-> "idle", woken |-> TRUE, on |-> {}, buffered |-> 0, ended |-> FALSE,
                armed |-> TRUE, error |-> "held"]
    /\ rslot = [reason |-> "none", stop_recv |-> FALSE]
    /\ h2s = [capacity |-> FALSE, sent |-> 0, end |-> FALSE, rst |-> "none", peer |-> "open",
              over |-> FALSE, arrived |-> << >>]

(* The stream was reset by the peer, or lost with the connection *)
PeerReset == h2s.peer \in {"quiet", "error"}

Running == utask.pc # "done"

Notify(events) == [utask EXCEPT !.woken = @ \/ events \cap utask.on # {}]

----------------------------------------------------------------------------
(* What the IO does for its owner *)

(* poll_ready of a channel of one place, which lets its only sender put    *)
(* one more before it parks it                                             *)
Room == Len(chan.queue) < 2
Connected == Running /\ ~chan.closed

IsReset == rslot.reason # "none"

(* request_reset: only the first request finds the sender *)
RequestReset(reason) == [rslot EXCEPT !.reason = IF IsReset THEN @ ELSE reason]

----------------------------------------------------------------------------
(* tick *)

(* The task ends; its receiver goes with it, so a parked sender is woken.  *)
Ends(error) ==
    /\ utask' = [utask EXCEPT !.pc = "done", !.buffered = 0,
                              !.error = IF @ = "held" THEN error ELSE @]
    /\ chan' = [chan EXCEPT !.queue = << >>, !.waker = "none"]

TickStarts ==
    /\ utask.pc = "idle" /\ utask.woken

TickResets ==
    /\ TickStarts /\ utask.armed /\ IsReset
    /\ h2s' = [h2s EXCEPT !.rst = rslot.reason]
    /\ Ends("sent")
    /\ UNCHANGED <<uio, rslot>>

(* ResetRx::poll: the registration stays for the rest of the tick.  Once   *)
(* the IO is gone no request can come.                                     *)
TickLoops ==
    /\ TickStarts /\ (utask.armed => ~IsReset)
    /\ utask' = [utask EXCEPT !.pc = "loop", !.woken = FALSE, !.armed = @ /\ uio, !.on = {"reset"}]
    /\ UNCHANGED <<uio, chan, rslot, h2s>>

Loop == utask.pc = "loop" /\ ~PeerReset

LoopPeerReset ==
    /\ utask.pc = "loop" /\ PeerReset
    /\ Ends("sent")
    /\ UNCHANGED <<uio, rslot, h2s>>

Pends(event) ==
    /\ utask' = [utask EXCEPT !.pc = "idle", !.on = @ \cup {"peer", event}]
    /\ UNCHANGED <<uio, chan, rslot, h2s>>

LoopEndedAtOnce ==
    /\ Loop /\ utask.ended
    /\ Ends("dropped")
    /\ UNCHANGED <<uio, rslot, h2s>>

(* After END_STREAM only a reset can follow *)
LoopEnded ==
    /\ Loop /\ utask.ended
    /\ IF utask.armed
       THEN Pends("reset")
       ELSE Ends("dropped") /\ UNCHANGED <<uio, rslot, h2s>>

(* The write in hand goes out when there is capacity for it *)
LoopSends ==
    /\ Loop /\ utask.buffered > 0
    /\ IF h2s.capacity
       THEN /\ h2s' = [h2s EXCEPT !.sent = @ + utask.buffered, !.capacity = FALSE]
            /\ utask' = [utask EXCEPT !.buffered = 0]
            /\ UNCHANGED <<uio, chan, rslot>>
       ELSE Pends("capacity")

Idle == Loop /\ ~utask.ended /\ utask.buffered = 0

(* The next write; a parked sender is woken *)
LoopTakes ==
    /\ Idle /\ chan.queue # << >>
    /\ utask' = [utask EXCEPT !.buffered = Head(chan.queue)]
    /\ chan' = [chan EXCEPT !.queue = Tail(@), !.waker = "none"]
    /\ UNCHANGED <<uio, rslot, h2s>>

LoopFinishesEarly ==
    /\ Idle
    /\ IF chan.closed \/ ~uio
       THEN /\ h2s' = [h2s EXCEPT !.end = TRUE]
            /\ utask' = [utask EXCEPT !.ended = TRUE, !.error = "dropped"]
            /\ UNCHANGED <<uio, chan, rslot>>
       ELSE chan.queue = << >> /\ Pends("rx")

(* The IO was shut down or dropped: END_STREAM, and the shutdown is done   *)
LoopFinishes ==
    /\ Idle /\ chan.queue = << >>
    /\ IF chan.closed \/ ~uio
       THEN /\ h2s' = [h2s EXCEPT !.end = TRUE]
            /\ utask' = [utask EXCEPT !.ended = TRUE, !.error = "dropped"]
            /\ UNCHANGED <<uio, chan, rslot>>
       ELSE Pends("rx")

Tick == TickResets \/ TickLoops \/ LoopPeerReset \/ LoopEnded \/ LoopSends \/ LoopTakes \/ LoopFinishes

----------------------------------------------------------------------------
(* The peer *)

Grants ==
    /\ utask.buffered > 0 /\ ~h2s.capacity
    /\ h2s' = [h2s EXCEPT !.capacity = TRUE]
    /\ utask' = Notify({"capacity"})
    /\ UNCHANGED <<uio, chan, rslot>>

(* A capsule: a payload, one of an unknown context, one that is too large, *)
(* or one that the end of the stream will cut short                        *)
PeerCapsule(capsule) ==
    /\ h2s.peer = "open" /\ h2s.rst = "none"
    /\ h2s' = [h2s EXCEPT !.arrived = Append(@, capsule)]
    /\ UNCHANGED <<uio, chan, utask, rslot>>

(* It ends the stream, with or without trailers, or resets it: quietly,    *)
(* with NO_ERROR or CANCEL, or with an error.  A reset may follow its end. *)
PeerCloses(how) ==
    /\ h2s.rst = "none"
    /\ IF how \in {"quiet", "error"}
       THEN ~PeerReset /\ (h2s.end => h2s.peer = "open")
       ELSE h2s.peer = "open"
    /\ h2s' = [h2s EXCEPT !.peer = how, !.over = @ \/ how \in {"fin", "quiet"}]
    /\ utask' = IF how \in {"quiet", "error"} THEN Notify({"peer"}) ELSE utask
    /\ UNCHANGED <<uio, chan, rslot>>
=============================================================================
