---------------------------- MODULE Http3Tunnel ----------------------------
(***************************************************************************)
(* The tunnel of a successful HTTP/3 CONNECT (proto/http3/upgrade.rs): the *)
(* IO in the application's hands (H3Upgraded) and the task that owns both  *)
(* directions of the stream (UpgradeTask), joined by a channel of one      *)
(* write command, by the acknowledgement of a flush or a finish, and by    *)
(* the body channel that carries what was received.                        *)
(*                                                                         *)
(* One step is one call of the application, or one turn of the loops of    *)
(* SendStream::poll and RecvStream::poll; pump.on is what the task will be *)
(* woken by.  The loops stop after TURNS turns and have the task polled    *)
(* again.  QUIC and the peer are external: they block and unblock, stop,   *)
(* reset, end and lose the stream.                                         *)
(*                                                                         *)
(* Definitions that Next does not use are slips that the properties must   *)
(* notice; each stands before the definition it is a slip of.              *)
(***************************************************************************)
EXTENDS Integers, Sequences

CONSTANTS
    TURNS,          \* of a loop before it yields: 32 in the code
    WriteMax,       \* bound: how many chunks the application writes
    PeerMax         \* bound: how many chunks the peer sends

ASSUME H3TunnelAssumption == TURNS \in Nat \ {0} /\ WriteMax \in Nat /\ PeerMax \in Nat

VARIABLES
    hio,        \* H3Upgraded: held, its pending barrier, what its calls returned
    writes,     \* the channel of write commands, of one place
    slot,       \* the body channel: a chunk, an error behind it, its sender open
    pump,       \* UpgradeTask: where its poll is, its two directions, its wakeups
    quic,       \* the stream, as the transport has it
    dgrams,     \* the request's HTTP Datagrams, open to send and to receive
    count       \* history: chunks written, carried, sent by the peer and read

h3Vars == <<hio, writes, slot, pump, quic, dgrams, count>>

H3TunnelInit ==
    /\ hio = [live |-> TRUE, pending |-> "none", ack |-> "none", shutdown |-> FALSE, told |-> FALSE,
              read |-> "open"]
    /\ writes = << >>
    /\ slot = [data |-> FALSE, error |-> FALSE, open |-> TRUE]
    /\ pump = [pc |-> "idle", woken |-> TRUE, on |-> {}, send |-> "open", finish |-> FALSE,
               fin |-> FALSE, recv |-> "open", data |-> FALSE, turn |-> 0]
    /\ quic = [room |-> TRUE, held |-> FALSE, stop |-> FALSE, acked |-> FALSE, queue |-> 0,
               peer |-> "open", up |-> TRUE, invalid |-> FALSE]
    /\ dgrams = [send |-> TRUE, recv |-> TRUE]
    /\ count = [written |-> 0, carried |-> 0, arrived |-> 0, read |-> 0]

----------------------------------------------------------------------------
(* The application *)

Sending == pump.send = "open"

(* The task is polled again for what it has registered for. *)
Woken(event) == [pump EXCEPT !.woken = @ \/ event \in pump.on]

(* poll_ack, when the barrier was acknowledged: a call goes on from here.  *)
Acked ==
    [hio EXCEPT !.pending = "none", !.ack = "none", !.shutdown = @ \/ hio.pending = "finish"]

(* poll_ack, when the task dropped the barrier: the call fails with closed(). *)
AckLost ==
    /\ hio.live /\ hio.ack = "gone"
    /\ hio' = [hio EXCEPT !.pending = "none", !.ack = "none"]
    /\ UNCHANGED <<writes, slot, pump, quic, dgrams, count>>

Answered == hio.live /\ hio.ack \in {"none", "ok"}

(* poll_reserve: the channel has a place, and the task still takes commands *)
Reserved == Sending /\ writes = << >>

Command(command) ==
    /\ writes' = <<command>>
    /\ pump' = Woken("rx")

PollWriteUnbarred ==
    /\ hio.live /\ ~hio.shutdown /\ Reserved /\ count.written < WriteMax
    /\ Command("data")
    /\ count' = [count EXCEPT !.written = @ + 1]
    /\ UNCHANGED <<hio, slot, quic, dgrams>>

PollWrite ==
    /\ Answered /\ ~Acked.shutdown /\ Reserved /\ count.written < WriteMax
    /\ hio' = Acked
    /\ Command("data")
    /\ count' = [count EXCEPT !.written = @ + 1]
    /\ UNCHANGED <<slot, quic, dgrams>>

(* poll_barrier, when it is done: the barrier asked for, or a stronger one *)
BarrierDone(finish) ==
    /\ Answered
    /\ \/ hio.pending # "none" /\ (~finish \/ hio.pending = "finish")
       \/ Acked.shutdown
    /\ hio' = [Acked EXCEPT !.told = @ \/ finish]
    /\ UNCHANGED <<writes, slot, pump, quic, dgrams, count>>

(* poll_barrier, when it asks the task; the answer is awaited *)
BarrierAsks(finish) ==
    /\ Answered /\ ~Acked.shutdown /\ Reserved
    /\ hio.pending = "none" \/ (finish /\ hio.pending = "flush")
    /\ LET barrier == IF finish THEN "finish" ELSE "flush"
       IN  /\ hio' = [Acked EXCEPT !.pending = barrier, !.ack = "waiting"]
           /\ Command(barrier)
    /\ UNCHANGED <<slot, quic, dgrams, count>>

PollFlush == BarrierDone(FALSE) \/ BarrierAsks(FALSE)
PollShutdown == BarrierDone(TRUE) \/ BarrierAsks(TRUE)

PollRead ==
    /\ hio.live /\ hio.read = "open"
    /\ \/ /\ slot.data
          /\ slot' = [slot EXCEPT !.data = FALSE]
          /\ count' = [count EXCEPT !.read = @ + 1]
          /\ pump' = Woken("body")
          /\ UNCHANGED hio
       \/ /\ ~slot.data /\ (slot.error \/ ~slot.open)
          /\ hio' = [hio EXCEPT !.read = IF slot.error THEN "error" ELSE "eof"]
          /\ UNCHANGED <<slot, count, pump>>
    /\ UNCHANGED <<writes, quic, dgrams>>

(* Drop for H3Upgraded, and for the ends of its channels *)
DropIo ==
    /\ hio.live
    /\ hio' = [hio EXCEPT !.live = FALSE]
    /\ dgrams' = [send |-> FALSE, recv |-> FALSE]
    /\ pump' = [pump EXCEPT !.woken = @ \/ pump.on \cap {"rx", "closed"} # {}]
    /\ UNCHANGED <<writes, slot, quic, count>>

----------------------------------------------------------------------------
(* The task *)

(* UpgradeTask::poll has its Transfer look at the token first; a poll      *)
(* replaces what earlier ones have registered.                             *)
TaskPoll ==
    /\ pump.pc = "idle" /\ pump.woken /\ ~quic.invalid
    /\ pump' = [pump EXCEPT !.pc = IF Sending THEN "send" ELSE "recv", !.woken = FALSE,
                            !.on = {"invalid"},
                            !.turn = 0]
    /\ UNCHANGED <<hio, writes, slot, quic, dgrams, count>>

(* After the last turn of a loop the task wakes itself and goes on to pc.  *)
Turn(pc) ==
    IF pump.turn + 1 = TURNS
    THEN [pump EXCEPT !.pc = pc, !.woken = TRUE, !.turn = 0]
    ELSE [pump EXCEPT !.turn = @ + 1]

(* A barrier whose command or acknowledgement goes with the send direction *)
Unanswered == [hio EXCEPT !.ack = IF @ = "waiting" THEN "gone" ELSE @]

TaskEndsSilently(failed) ==
    /\ pump' = [pump EXCEPT !.pc = "done", !.send = "over", !.recv = "over"]
    /\ slot' = [slot EXCEPT !.open = FALSE]
    /\ hio' = Unanswered
    /\ writes' = << >>
    /\ dgrams' = [send |-> FALSE, recv |-> FALSE]

(* The guards reset and stop what is unfinished; the reader gets the error, *)
(* behind a chunk it has not taken.                                         *)
TaskEnds(failed) ==
    /\ pump' = [pump EXCEPT !.pc = "done", !.send = "over", !.recv = "over"]
    /\ slot' = [slot EXCEPT !.open = FALSE, !.error = failed /\ hio.live /\ pump.recv = "open"]
    /\ hio' = Unanswered
    /\ writes' = << >>
    /\ dgrams' = [send |-> FALSE, recv |-> FALSE]

Invalidated ==
    /\ pump.pc = "idle" /\ pump.woken /\ quic.invalid
    /\ TaskEnds(TRUE)
    /\ UNCHANGED <<quic, count>>

(* The turns of SendStream::poll.  Pending leaves the reader's turn.       *)
SendPending(events) ==
    /\ pump' = [pump EXCEPT !.pc = "recv", !.on = @ \cup events, !.turn = 0]
    /\ UNCHANGED <<hio, writes, slot, quic, dgrams, count>>

SendFails ==
    /\ pump.pc = "send"
    /\ \/ ~quic.up
       \/ ~quic.stop /\ ~pump.finish /\ ~pump.fin /\ quic.room /\ ~quic.held /\ writes = << >>
          /\ ~hio.live
    /\ TaskEnds(TRUE)
    /\ UNCHANGED <<quic, count>>

(* The direction is over: the peer stopped it, or the FIN was acknowledged *)
SendOver ==
    /\ pump.pc = "send" /\ quic.up
    /\ quic.stop \/ (pump.fin /\ quic.acked)
    /\ pump' = [pump EXCEPT !.pc = "recv", !.send = "over", !.turn = 0]
    /\ hio' = Unanswered
    /\ writes' = << >>
    /\ dgrams' = [dgrams EXCEPT !.send = FALSE]
    /\ UNCHANGED <<slot, quic, count>>

Unstopped == pump.pc = "send" /\ quic.up /\ ~quic.stop

(* poll_finish, and the acknowledgement of the shutdown *)
SendFinish ==
    /\ Unstopped /\ pump.finish /\ ~pump.fin /\ quic.room
    /\ pump' = [pump EXCEPT !.fin = TRUE, !.finish = FALSE]
    /\ hio' = [hio EXCEPT !.ack = IF @ = "waiting" THEN "ok" ELSE @]
    /\ UNCHANGED <<writes, slot, quic, dgrams, count>>

SendWaits ==
    /\ Unstopped
    /\ \/ pump.fin /\ ~quic.acked /\ SendPending({"stop"})
       \/ ~pump.fin /\ ~quic.room /\ SendPending({"stop", "room"})
       \/ /\ ~pump.fin /\ ~pump.finish /\ quic.room /\ ~quic.held /\ writes = << >> /\ hio.live
          /\ SendPending({"stop", "rx"})

(* poll_ready flushes the chunk that start_send_data left with the stream  *)
SendReady ==
    /\ Unstopped /\ ~pump.fin /\ quic.room /\ quic.held
    /\ quic' = [quic EXCEPT !.held = FALSE]
    /\ count' = [count EXCEPT !.carried = @ + 1]
    /\ UNCHANGED <<hio, writes, slot, pump, dgrams>>

SendTakes ==
    /\ Unstopped /\ ~pump.fin /\ ~pump.finish /\ quic.room /\ ~quic.held /\ writes # << >>
    /\ writes' = << >>
    /\ quic' = [quic EXCEPT !.held = writes = <<"data">>]
    /\ hio' = [hio EXCEPT !.ack = IF writes = <<"flush">> THEN "ok" ELSE @]
    /\ pump' = [Turn("recv") EXCEPT !.finish = writes = <<"finish">>]
    /\ dgrams' = [dgrams EXCEPT !.send = @ /\ writes # <<"finish">>]
    /\ UNCHANGED <<slot, count>>

(* The turns of RecvStream::poll, then the end of Transfer::poll.          *)
Receiving == pump.pc = "recv" /\ pump.recv = "open"

RecvFails ==
    /\ Receiving
    /\ \/ ~hio.live
       \/ ~pump.data /\ (~quic.up \/ (quic.queue = 0 /\ quic.peer = "reset"))
    /\ TaskEnds(TRUE)
    /\ UNCHANGED <<quic, count>>

(* HEADERS after the response: the connection is closed for it *)
RecvViolates ==
    /\ Receiving /\ hio.live /\ quic.up
    /\ ~pump.data /\ quic.queue = 0 /\ quic.peer = "headers"
    /\ TaskEnds(TRUE)
    /\ quic' = [quic EXCEPT !.up = FALSE]
    /\ UNCHANGED count

RecvDelivers ==
    /\ Receiving /\ hio.live /\ pump.data /\ ~slot.data
    /\ slot' = [slot EXCEPT !.data = TRUE]
    /\ pump' = [Turn("idle") EXCEPT !.data = FALSE]
    /\ UNCHANGED <<hio, writes, quic, dgrams, count>>

RecvTakes ==
    /\ Receiving /\ hio.live /\ ~pump.data /\ quic.up /\ quic.queue > 0
    /\ pump' = [Turn("idle") EXCEPT !.data = TRUE]
    /\ quic' = [quic EXCEPT !.queue = @ - 1]
    /\ UNCHANGED <<hio, writes, slot, dgrams, count>>

RecvEnds ==
    /\ Receiving /\ hio.live /\ ~pump.data /\ quic.up /\ quic.queue = 0 /\ quic.peer = "fin"
    /\ pump' = [pump EXCEPT !.recv = "over"]
    /\ slot' = [slot EXCEPT !.open = FALSE]
    /\ dgrams' = [dgrams EXCEPT !.recv = FALSE]
    /\ UNCHANGED <<hio, writes, quic, count>>

(* The task waits: for the reader, or for the peer; each with the reader's *)
(* drop, which poll_closed has registered for.                             *)
RecvWaitsUnclosed ==
    /\ Receiving /\ hio.live
    /\ \/ pump.data /\ slot.data
       \/ ~pump.data /\ quic.up /\ quic.queue = 0 /\ quic.peer = "open"
    /\ pump' = [pump EXCEPT !.pc = "idle", !.on = @ \cup {IF pump.data THEN "body" ELSE "data"}]
    /\ UNCHANGED <<hio, writes, slot, quic, dgrams, count>>

RecvWaits ==
    /\ Receiving /\ hio.live
    /\ \/ pump.data /\ slot.data
       \/ ~pump.data /\ quic.up /\ quic.queue = 0 /\ quic.peer = "open"
    /\ pump' = [pump EXCEPT !.pc = "idle",
                            !.on = @ \cup {"closed", IF pump.data THEN "body" ELSE "data"}]
    /\ UNCHANGED <<hio, writes, slot, quic, dgrams, count>>

(* Both directions are over, or the sending one still goes on *)
PollEnds ==
    /\ pump.pc = "recv" /\ pump.recv = "over"
    /\ IF Sending
       THEN pump' = [pump EXCEPT !.pc = "idle"] /\ UNCHANGED <<hio, writes, slot, dgrams>>
       ELSE TaskEnds(FALSE)
    /\ UNCHANGED <<quic, count>>

TaskSteps ==
    \/ TaskPoll \/ Invalidated \/ SendFails \/ SendOver \/ SendFinish \/ SendReady \/ SendTakes
    \/ SendWaits \/ RecvFails \/ RecvViolates \/ RecvDelivers \/ RecvTakes \/ RecvEnds
    \/ RecvWaits \/ PollEnds

----------------------------------------------------------------------------
(* The transport and the peer *)

Quic(event, change) ==
    /\ pump.pc # "done"
    /\ quic' = change
    /\ pump' = Woken(event)
    /\ UNCHANGED <<hio, writes, slot, dgrams>>

Unlost == quic.up /\ ~quic.invalid

Blocks == quic.room /\ (quic.held \/ pump.finish) /\ ~quic.stop /\ Unlost /\ UNCHANGED count
          /\ Quic("none", [quic EXCEPT !.room = FALSE])
Unblocks == ~quic.room /\ UNCHANGED count /\ Quic("room", [quic EXCEPT !.room = TRUE])
Stops == ~quic.stop /\ Unlost /\ UNCHANGED count /\ Quic("stop", [quic EXCEPT !.stop = TRUE])
Acks == pump.fin /\ ~quic.acked /\ Unlost /\ UNCHANGED count
        /\ Quic("stop", [quic EXCEPT !.acked = TRUE])

PeerSends ==
    /\ quic.peer = "open" /\ Unlost /\ count.arrived < PeerMax
    /\ count' = [count EXCEPT !.arrived = @ + 1]
    /\ Quic("data", [quic EXCEPT !.queue = @ + 1])

PeerEnds ==
    /\ quic.peer = "open" /\ Unlost /\ UNCHANGED count
    /\ \E how \in {"fin", "reset", "headers"} : Quic("data", [quic EXCEPT !.peer = how])

(* The connection ends, which wakes both directions *)
Lost ==
    /\ Unlost /\ pump.pc # "done"
    /\ quic' = [quic EXCEPT !.up = FALSE]
    /\ pump' = [pump EXCEPT !.woken = @ \/ pump.on \cap {"stop", "data"} # {}]
    /\ UNCHANGED <<hio, writes, slot, dgrams, count>>

(* The Datagram driver finds the request invalid *)
Invalidate ==
    /\ Unlost /\ UNCHANGED count
    /\ Quic("invalid", [quic EXCEPT !.invalid = TRUE])

H3Over == pump.pc = "done" /\ UNCHANGED h3Vars

H3TunnelNext ==
    \/ AckLost \/ PollWrite \/ PollFlush \/ PollShutdown \/ PollRead \/ DropIo
    \/ TaskSteps
    \/ Blocks \/ Unblocks \/ Stops \/ Acks \/ PeerSends \/ PeerEnds \/ Lost \/ Invalidate
    \/ H3Over

H3TunnelSpec == H3TunnelInit /\ [][H3TunnelNext]_h3Vars

----------------------------------------------------------------------------
(* A flush or a finish that is acknowledged comes after every chunk that   *)
(* was written before it, and no write overtakes it: the application is    *)
(* never told that bytes went out that still wait in the task.             *)
BarrierIsKept == hio.ack = "ok" => count.carried = count.written

(* The task hears of whatever ends the tunnel while it waits for something *)
(* else, and even if QUIC never takes another byte: a dropped IO, a lost   *)
(* connection and an invalid Datagram end it, which releases the slot of   *)
(* the request; a STOP_SENDING ends the sending direction.                 *)
H3TaskHears ==
    /\ ((~hio.live /\ pump.recv = "open") \/ ~quic.up \/ quic.invalid) ~> (pump.pc = "done")
    /\ quic.stop ~> (pump.send = "over")

(* The IO keeps the promises of Tunnel, whatever the order of its calls,   *)
(* of the task and of the peer.                                            *)
H3 == INSTANCE Tunnel WITH
    accepted <- count.written, carried <- count.carried, fin <- pump.fin,
    cut <- pump.send = "over" /\ ~pump.fin, shut <- hio.told, gone <- ~hio.live,
    arrived <- count.arrived, over <- quic.peer = "fin", read <- count.read, eof <- hio.read = "eof"

H3IsTunnel == H3!TunnelSpec
=============================================================================
