---------------------------- MODULE MasqueTunnel ----------------------------
(***************************************************************************)
(* A CONNECT-UDP tunnel (proxy/masque/tunnel.rs) over the HTTP/2 tunnel of *)
(* Http2Tunnel: UdpSender and UdpReceiver, held together (UdpTunnel) by    *)
(* two tasks that share it behind a lock, or split between them.  Without  *)
(* HTTP Datagrams, payloads are capsules on the stream: a capsule is a     *)
(* number in the channel's writes; the bytes are in Capsules.              *)
(*                                                                         *)
(* A call is one step.  A call that returns Pending leaves its task        *)
(* waiting until a waker it is registered with is woken.                   *)
(*                                                                         *)
(* Definitions that MasqueNext does not use are slips that the properties  *)
(* must notice; each stands before the definition it is a slip of.         *)
(***************************************************************************)
EXTENDS Http2Tunnel

CONSTANTS
    WRITE_LIMIT,    \* capsules the write buffer holds before sends are Full
    MaxPayloads,    \* bound: how many payloads are sent
    MaxArrivals     \* bound: how many capsules the proxy sends

ASSUME MasqueAssumption == {WRITE_LIMIT, MaxPayloads, MaxArrivals} \subseteq Nat

VARIABLES
    whole,      \* the tunnel is not split
    sender,     \* UdpSender
    receiver,   \* UdpReceiver
    wakers,     \* WriteWakers: which of the two tasks are registered
    waiting,    \* the call that each task is waiting in
    woken,      \* the tasks that were woken
    closed,     \* of Http2Stream: a sender whose writes ended was dropped
    accepted    \* history: payloads whose try_send succeeded

udpVars == <<h2Vars, whole, sender, receiver, wakers, waiting, woken, closed, accepted>>

MasqueInit ==
    /\ H2TunnelInit
    /\ whole \in BOOLEAN
    /\ sender = [held |-> TRUE, buf |-> 0, unflushed |-> FALSE, closing |-> FALSE, closed |-> FALSE,
                 error |-> FALSE, ok |-> FALSE]
    /\ receiver = [held |-> TRUE, error |-> "none", got |-> 0, partial |-> FALSE, end |-> FALSE]
    /\ wakers = {}
    /\ waiting = [send |-> "none", recv |-> "none"]
    /\ woken = {} /\ closed = FALSE /\ accepted = 0

----------------------------------------------------------------------------
(* poll_write_buf by sender s: what it leaves of s and of the writes, and  *)
(* whether it is pending.  A write hands over the whole buffer; a flush    *)
(* waits for room.  Once the task is gone a write fails, and a flush does  *)
(* if the task has left its error.                                         *)
WriteBuf(s) ==
    LET done(t, queue) == [s |-> t, queue |-> queue, pending |-> FALSE]
    IN  IF s.closed \/ (s.buf = 0 /\ ~s.unflushed)
        THEN done(s, chan.queue)
        ELSE IF ~Connected
        THEN done(IF s.buf > 0 \/ utask.error = "sent"
                  THEN [s EXCEPT !.error = TRUE, !.closed = TRUE, !.buf = 0, !.unflushed = FALSE]
                  ELSE [s EXCEPT !.unflushed = FALSE], chan.queue)
        ELSE IF ~Room
        THEN [s |-> s, queue |-> chan.queue, pending |-> TRUE]
        ELSE LET queue == IF s.buf > 0 THEN Append(chan.queue, s.buf) ELSE chan.queue
                 full == Len(queue) = 2
             IN  [s |-> [s EXCEPT !.buf = 0, !.unflushed = full], queue |-> queue, pending |-> full]

(* A pending call is registered with the stream through the shared waker.  *)
Channel(w, waker) == [chan EXCEPT !.queue = w.queue, !.waker = IF w.pending THEN waker ELSE @]

Events(w) == IF w.queue # chan.queue THEN {"rx"} ELSE {}

Writes(w) == chan' = Channel(w, "shared") /\ utask' = Notify(Events(w))

Waiting == {task \in DOMAIN waiting : waiting[task] # "none"}

(* A task runs unless it waits in a call; a call it waits in is polled     *)
(* again once it was woken.                                                *)
Calls(task, call) == waiting[task] = "none" \/ (waiting[task] = call /\ task \in woken)

----------------------------------------------------------------------------
(* UdpSender *)

TrySend ==
    /\ sender.held /\ waiting.send = "none" /\ accepted < MaxPayloads
    /\ ~sender.closing /\ ~IsReset /\ ~sender.closed /\ sender.buf < WRITE_LIMIT
    /\ LET w == WriteBuf([sender EXCEPT !.buf = @ + 1])
       IN  /\ Writes(w)
           /\ sender' = w.s
           /\ accepted' = IF w.s.closed THEN accepted ELSE accepted + 1
    /\ UNCHANGED <<uio, rslot, h2s, whole, receiver, wakers, waiting, woken, closed>>

(* poll_send_ready, poll_flush *)
Polls(call, w, ready) ==
    /\ Writes(w)
    /\ wakers' = wakers \cup {"send"}
    /\ woken' = woken \ {"send"}
    /\ waiting' = [waiting EXCEPT !.send = IF ready THEN "none" ELSE call]
    /\ UNCHANGED <<uio, rslot, h2s, whole, receiver, closed, accepted>>

PollSendReady ==
    /\ sender.held /\ Calls("send", "ready") /\ ~sender.closing /\ ~IsReset
    /\ LET w == WriteBuf(sender)
       IN  /\ Polls("ready", w, w.s.closed \/ w.s.buf < WRITE_LIMIT)
           /\ sender' = w.s

PollSendFlush ==
    /\ sender.held /\ Calls("send", "flush")
    /\ LET w == WriteBuf(sender)
       IN  /\ Polls("flush", w, ~w.pending)
           /\ sender' = IF w.pending THEN w.s ELSE [w.s EXCEPT !.error = FALSE]

(* poll_close: the buffer first, then poll_shutdown, which closes the      *)
(* channel and waits until the task has dropped or sent its error.         *)
PollClose ==
    /\ sender.held /\ Calls("send", "close")
    /\ LET w == WriteBuf([sender EXCEPT !.closing = TRUE])
       IN  IF w.pending
           THEN Polls("close", w, FALSE) /\ sender' = w.s
           ELSE /\ chan' = [chan EXCEPT !.queue = w.queue, !.closed = @ \/ ~w.s.closed]
                /\ utask' = Notify({"rx"})
                /\ wakers' = wakers \cup {"send"}
                /\ woken' = woken \ {"send"}
                /\ LET shutting == ~w.s.closed
                       waits == shutting /\ utask.error = "held"
                   IN  /\ waiting' = [waiting EXCEPT !.send = IF waits THEN "close" ELSE "none"]
                       /\ sender' = [w.s EXCEPT !.closed = ~waits, !.error = FALSE,
                                                !.ok = @ \/ (shutting /\ utask.error = "dropped")]
                /\ UNCHANGED <<uio, rslot, h2s, whole, receiver, closed, accepted>>

----------------------------------------------------------------------------
(* UdpReceiver *)

Ending == h2s.peer # "open"

(* poll_payload and what poll_recv makes of it, after a tunnel that is     *)
(* whole has written its buffer                                            *)
Receives ==
    /\ waiting' = [waiting EXCEPT !.recv = "none"]
    /\ \/ /\ h2s.arrived # << >>
          /\ h2s' = [h2s EXCEPT !.arrived = Tail(@)]
          /\ receiver' =
               CASE Head(h2s.arrived) = "payload" -> [receiver EXCEPT !.got = @ + 1]
                 [] Head(h2s.arrived) = "unknown" -> receiver
                 [] Head(h2s.arrived) = "oversized" -> [receiver EXCEPT !.error = "malformed"]
                 [] Head(h2s.arrived) = "part" -> [receiver EXCEPT !.partial = TRUE]
       \/ /\ h2s.arrived = << >> /\ Ending
          /\ receiver' =
               IF h2s.peer \in {"trailers", "error"} THEN [receiver EXCEPT !.error = "io"]
               ELSE IF receiver.partial THEN [receiver EXCEPT !.error = "malformed"]
               ELSE [receiver EXCEPT !.end = TRUE]
          /\ UNCHANGED h2s

(* What resets the stream with PROTOCOL_ERROR: malformed input, or HEADERS *)
Invalid ==
    \/ (h2s.arrived # << >> /\ Head(h2s.arrived) = "oversized")
    \/ h2s.arrived = << >> /\ (h2s.peer = "trailers" \/ (h2s.peer \in {"fin", "quiet"} /\ receiver.partial))

PollRecvOwnWaker ==
    /\ receiver.held /\ Calls("recv", "recv") /\ receiver.error = "none" /\ ~receiver.end
    /\ woken' = woken \ {"recv"}
    /\ wakers' = IF whole THEN wakers \cup {"recv"} ELSE wakers
    /\ LET w == IF whole THEN WriteBuf(sender)
                ELSE [s |-> sender, queue |-> chan.queue, pending |-> FALSE]
       IN  /\ sender' = w.s
           /\ chan' = Channel(w, "recv")
           /\ rslot' = IF Invalid THEN RequestReset("PROTOCOL_ERROR") ELSE rslot
           /\ utask' = Notify(Events(w) \cup (IF Invalid THEN {"reset"} ELSE {}))
    /\ IF h2s.arrived = << >> /\ ~Ending
       THEN waiting' = [waiting EXCEPT !.recv = "recv"] /\ UNCHANGED <<h2s, receiver>>
       ELSE Receives
    /\ UNCHANGED <<uio, whole, closed, accepted>>

PollRecv ==
    /\ receiver.held /\ Calls("recv", "recv") /\ receiver.error = "none" /\ ~receiver.end
    /\ woken' = woken \ {"recv"}
    /\ wakers' = IF whole THEN wakers \cup {"recv"} ELSE wakers
    /\ LET w == IF whole THEN WriteBuf(sender)
                ELSE [s |-> sender, queue |-> chan.queue, pending |-> FALSE]
       IN  /\ sender' = w.s
           /\ chan' = Channel(w, "shared")
           /\ rslot' = IF Invalid THEN RequestReset("PROTOCOL_ERROR") ELSE rslot
           /\ utask' = Notify(Events(w) \cup (IF Invalid THEN {"reset"} ELSE {}))
    /\ IF h2s.arrived = << >> /\ ~Ending
       THEN waiting' = [waiting EXCEPT !.recv = "recv"] /\ UNCHANGED <<h2s, receiver>>
       ELSE Receives
    /\ UNCHANGED <<uio, whole, closed, accepted>>

----------------------------------------------------------------------------
(* Drop.  A sender whose writes ended marks the stream as closed, and a    *)
(* receiver stops the reading; the last of them resets a stream that is    *)
(* not closed while the IO, which the reset needs, still lives.            *)

LastDropUnreset(ended) ==
    /\ uio' = FALSE
    /\ rslot' = [rslot EXCEPT !.stop_recv = TRUE]
    /\ utask' = Notify({"rx", "reset"})

LastDrop(ended) ==
    /\ uio' = FALSE
    /\ rslot' = [IF ended THEN rslot ELSE RequestReset("CANCEL") EXCEPT !.stop_recv = TRUE]
    /\ utask' = Notify({"rx", "reset"})

Ended == closed \/ (sender.held /\ sender.closed)

DropSender ==
    /\ ~whole /\ sender.held
    /\ sender' = [sender EXCEPT !.held = FALSE, !.buf = 0]
    /\ closed' = Ended
    /\ waiting' = [waiting EXCEPT !.send = "none"] /\ woken' = woken \ {"send"}
    /\ IF receiver.held THEN UNCHANGED <<uio, rslot, utask>> ELSE LastDrop(Ended)
    /\ UNCHANGED <<chan, h2s, whole, receiver, wakers, accepted>>

DropReceiver ==
    /\ ~whole /\ receiver.held
    /\ receiver' = [receiver EXCEPT !.held = FALSE]
    /\ waiting' = [waiting EXCEPT !.recv = "none"] /\ woken' = woken \ {"recv"}
    /\ IF sender.held
       THEN rslot' = [rslot EXCEPT !.stop_recv = TRUE] /\ UNCHANGED <<uio, utask>>
       ELSE LastDrop(closed)
    /\ UNCHANGED <<chan, h2s, whole, sender, wakers, closed, accepted>>

DropTunnel ==
    /\ whole /\ sender.held
    /\ sender' = [sender EXCEPT !.held = FALSE, !.buf = 0]
    /\ receiver' = [receiver EXCEPT !.held = FALSE]
    /\ closed' = Ended
    /\ waiting' = [send |-> "none", recv |-> "none"] /\ woken' = {}
    /\ LastDrop(Ended)
    /\ UNCHANGED <<chan, h2s, whole, wakers, accepted>>

----------------------------------------------------------------------------
(* The task, whose steps wake the calls that wait for it, and the proxy    *)

(* WriteWakers::wake wakes both; the shutdown has a waker of its own.      *)
Wakes ==
    LET unparked == chan.waker # "none" /\ chan'.waker = "none"
        settled == waiting.send = "close" /\ chan.closed /\ utask.error = "held" /\ utask'.error # "held"
    IN  /\ wakers' = IF unparked /\ chan.waker = "shared" THEN {} ELSE wakers
        /\ woken' = woken \cup (Waiting \cap (
               (IF ~unparked THEN {} ELSE IF chan.waker = "shared" THEN wakers ELSE {chan.waker})
                 \cup (IF settled THEN {"send"} ELSE {})))

TaskTick ==
    /\ Tick /\ Wakes
    /\ UNCHANGED <<whole, sender, receiver, waiting, closed, accepted>>

Proxy(step) ==
    /\ step
    /\ woken' = IF h2s'.arrived # h2s.arrived \/ h2s'.peer # h2s.peer
                THEN woken \cup (Waiting \cap {"recv"}) ELSE woken
    /\ UNCHANGED <<whole, sender, receiver, wakers, waiting, closed, accepted>>

ProxyGrants == Proxy(Grants)

ProxySends ==
    /\ receiver.got + Len(h2s.arrived) < MaxArrivals /\ ~receiver.partial
    /\ \A i \in DOMAIN h2s.arrived : h2s.arrived[i] # "part"
    /\ \E capsule \in {"payload", "unknown", "oversized", "part"} : Proxy(PeerCapsule(capsule))

ProxyCloses == \E how \in {"fin", "trailers", "quiet", "error"} : Proxy(PeerCloses(how))

MasqueOver == ~sender.held /\ ~receiver.held /\ ~Running /\ UNCHANGED udpVars

MasqueNext ==
    \/ TrySend \/ PollSendReady \/ PollSendFlush \/ PollClose \/ PollRecv
    \/ DropSender \/ DropReceiver \/ DropTunnel
    \/ TaskTick \/ ProxyGrants \/ ProxySends \/ ProxyCloses \/ MasqueOver

MasqueSpec == MasqueInit /\ [][MasqueNext]_udpVars

----------------------------------------------------------------------------
(* Whoever waits to write is registered with a channel that is full, or    *)
(* with a shutdown the task has not answered, unless it was woken: with    *)
(* one waker per channel, a receiver that polled with its own would take   *)
(* the sender's wakeup, and a tunnel that only receives would never send   *)
(* what is buffered.                                                       *)
Parked(task) == Running /\ ~Room /\ chan.waker = "shared" /\ task \in wakers

WritersAreWoken ==
    /\ waiting.send # "none" /\ "send" \notin woken =>
         \/ Parked("send")
         \/ waiting.send = "close" /\ chan.closed /\ utask.error = "held"
    /\ waiting.recv # "none" /\ "recv" \notin woken /\ whole /\ sender.buf > 0 => Parked("recv")

(* A tunnel that both halves have dropped ends its send task, and with it  *)
(* the HTTP/2 stream, even if the proxy never grants capacity again.       *)
DroppedTunnelEnds == (~uio) ~> ~Running

(* What asked for a reset first has its code sent, also after END_STREAM,  *)
(* unless the proxy has reset the stream itself.                           *)
ResetIsSent == IsReset ~> (h2s.rst = rslot.reason \/ PeerReset)

(* Payloads through the tunnel keep the promises of Tunnel: they go out in *)
(* order, a close that succeeded has sent all of them, and the receiver is *)
(* told of an end only where the proxy ended and nothing is left unread.   *)
PayloadsIn(capsules) == Len(SelectSeq(capsules, LAMBDA capsule : capsule = "payload"))

Udp == INSTANCE Tunnel WITH
    accepted <- accepted, carried <- h2s.sent, fin <- h2s.end, cut <- h2s.rst # "none" \/ PeerReset,
    shut <- sender.ok, gone <- ~uio, arrived <- receiver.got + PayloadsIn(h2s.arrived),
    over <- h2s.over, read <- receiver.got, eof <- receiver.end

UdpIsTunnel == Udp!TunnelSpec

(* A tunnel that is dropped or reset is ended on its stream too.           *)
StreamIsEnded == DroppedTunnelEnds /\ ResetIsSent
=============================================================================
