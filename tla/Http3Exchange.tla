--------------------------- MODULE Http3Exchange ---------------------------
(***************************************************************************)
(* One HTTP/3 request and its response, from the call to the release of    *)
(* everything it holds: the request future (request, in                    *)
(* proto/http3/client.rs), the pipe that sends its body, first inside the  *)
(* future and then as a task of its own (PipeMap), the response body in    *)
(* the application's hands (proto/http3/body.rs), and the Datagram driver, *)
(* which may find the exchange invalid at any time.                        *)
(*                                                                         *)
(* The future, the task, the body and the driver run in different threads. *)
(* What happens under the lock of their link is one step, and so is every  *)
(* access to an atomic or a token.  A CONNECT that succeeds becomes a      *)
(* tunnel: see Http3Tunnel.                                                *)
(*                                                                         *)
(* Definitions that Next does not use are slips that the properties must   *)
(* notice; each stands before the definition it is a slip of.              *)
(***************************************************************************)
EXTENDS Integers

CONSTANTS
    Calls,          \* the requests an application may make
    Sizes,          \* of the data frames of its body
    MaxSent,        \* how much data its body yields
    Lengths         \* the lengths a response may declare, of None and numbers

None == -1
Bad == -2           \* a content-length that does not parse, or conflicts

ASSUME ExchangeAssumption ==
    /\ Calls \subseteq [method : {"GET", "HEAD", "POST", "CONNECT"}, protocol : {"none", "udp", "other"},
                        datagrams : BOOLEAN, valid : BOOLEAN, length : Int, hint : Int, empty : BOOLEAN]
    /\ Sizes \subseteq Nat /\ MaxSent \in Nat /\ Lengths \subseteq Int

VARIABLES
    call,       \* the request
    fut,        \* where the request future is
    send,       \* SendGuard: who holds it, FIN submitted, its code, how its direction ended
    recv,       \* RecvGuard: who holds it, its code, how its direction ended
    pipe,       \* PipeToSendStream: a chunk in hand, the length left, trailers sent, finishing
    task,       \* PipeMap: where its poll is, whether it will be polled, how the pipe ended
    link,       \* State, behind the lock of Link
    abort, pipe_waker,      \* of Link
    body,       \* RecvBody: where its poll is, the length left, what the application was told
    invalid,    \* the token of the request's Datagram state
    hook,       \* the body is attached to that state
    dgram,      \* the Datagram driver, in invalidate
    peer,       \* STOP_SENDING, and the FIN acknowledged
    net,        \* the connection is "up" or "down"
    sent        \* history: bytes of the request's body that went out

local == <<call, fut, pipe, sent>>
shared == <<link, abort, pipe_waker>>
world == <<peer, net>>
exVars == <<local, send, recv, task, shared, body, invalid, hook, dgram, world>>

----------------------------------------------------------------------------
(* Before the stream *)

connect == call.method = "CONNECT"
connect_udp == connect /\ call.protocol = "udp"

(* validate_request *)
Valid ==
    /\ call.protocol # "none" => connect
    /\ call.valid /\ call.length # Bad

(* The length the body must have: declared, or known from the body *)
Declared == IF call.length = None /\ ~connect THEN call.hint ELSE call.length

(* The checks whose failure returns the request to its caller *)
Acceptable ==
    /\ call.datagrams => connect /\ call.protocol # "none"
    /\ connect => call.empty
    /\ Valid
    /\ call.empty => Declared \in {None, 0}

ExchangeInit ==
    /\ call \in Calls
    /\ fut = "new"
    /\ send = [by |-> "none", fin |-> FALSE, code |-> "H3_REQUEST_CANCELLED", end |-> "open"]
    /\ recv = [by |-> "none", code |-> "H3_REQUEST_CANCELLED", end |-> "open"]
    /\ pipe = [data |-> FALSE, left |-> None, trailers |-> FALSE, finishing |-> FALSE]
    /\ task = [pc |-> "none", woken |-> FALSE, failed |-> FALSE]
    /\ link = [recv |-> FALSE, active |-> "none", registration |-> FALSE, pipe_pending |-> FALSE,
               refused |-> FALSE, error |-> FALSE, waker |-> FALSE]
    /\ abort = FALSE /\ pipe_waker = FALSE
    /\ body = [pc |-> "none", left |-> None, data_done |-> FALSE, told |-> "more", woken |-> FALSE]
    /\ invalid = FALSE /\ hook = FALSE /\ dgram = "idle"
    /\ peer = [stop |-> FALSE, acked |-> FALSE] /\ net = "up" /\ sent = 0

(* Rejected: also for a closed admission, or a peer without extended CONNECT *)
Reject ==
    /\ fut = "new"
    /\ fut' = "rejected"
    /\ UNCHANGED <<call, pipe, sent, send, recv, task, shared, body, invalid, hook, dgram, world>>

(* Admitted; send_request opens the stream and sends the head, or the request is lost *)
Open ==
    /\ fut = "new" /\ Acceptable
    /\ \/ /\ fut' = IF connect THEN "connect" ELSE IF call.empty THEN "finish" ELSE "head"
          /\ send' = [send EXCEPT !.by = IF connect \/ call.empty THEN "future" ELSE "pipe"]
          /\ recv' = [recv EXCEPT !.by = "future"]
          /\ pipe' = [pipe EXCEPT !.left = Declared]
          /\ link' = [link EXCEPT !.active = "held", !.registration = TRUE]
       \/ /\ fut' = "failed" /\ UNCHANGED <<send, recv, pipe, link>>
    /\ UNCHANGED <<call, sent, task, abort, pipe_waker, body, invalid, hook, dgram, world>>

----------------------------------------------------------------------------
(* The guards.  A half that is dropped unfinished is reset, or stopped.    *)

Code(code) == IF invalid THEN "H3_DATAGRAM_ERROR" ELSE code

DroppedSend(s) ==
    [s EXCEPT !.by = "gone", !.end = IF s.end # "open" THEN @ ELSE IF s.fin THEN "fin" ELSE Code(s.code)]

DroppedRecv(r) ==
    [r EXCEPT !.by = "gone", !.end = IF @ = "open" THEN Code(r.code) ELSE @]

(* The future ends without a response: with an error whose code goes to    *)
(* both directions, or because the caller drops it.                        *)
Abandon(outcome, s, r) ==
    /\ fut' = outcome
    /\ send' = DroppedSend(s) /\ recv' = DroppedRecv(r)
    /\ link' = [link EXCEPT !.active = "gone", !.registration = FALSE]
    /\ UNCHANGED <<call, pipe, sent, task, abort, pipe_waker, body, invalid, hook, dgram, world>>

FailsOneWay(outcome, code) == Abandon(outcome, send, [recv EXCEPT !.code = code])

Fails(outcome, code) ==
    Abandon(outcome, [send EXCEPT !.code = code], [recv EXCEPT !.code = code])

InFuture == {"connect", "finish", "head"}

DropFuture ==
    /\ fut \in InFuture
    /\ Abandon("dropped", send, recv)

----------------------------------------------------------------------------
(* The send direction.  What the transport answers to poll_stopped:        *)

Stopped == peer.stop \/ peer.acked \/ net = "down"

(* Finish::poll: an empty body ends at once.  After a STOP_SENDING the     *)
(* guard stays unfinished.                                                 *)
FinishInline ==
    /\ fut = "finish"
    /\ \/ /\ net = "up" /\ ~peer.stop
          /\ send' = [send EXCEPT !.fin = TRUE, !.end = "fin"]
       \/ net = "up" /\ peer.stop /\ UNCHANGED send
    /\ fut' = IF connect THEN "length" ELSE "head"
    /\ UNCHANGED <<call, pipe, sent, recv, task, shared, body, invalid, hook, dgram, world>>

FinishFails ==
    /\ fut = "finish" /\ net = "down"
    /\ Abandon("failed", send, recv)

(* How a poll of the pipe ends: "more" to poll again, "wait", "ok", "error" *)
PipeReturns(outcome) ==
    \/ /\ outcome \in {"more", "wait"}
       /\ UNCHANGED <<fut, recv, link, task>>
    \/ /\ outcome = "ok" /\ fut = "head"
       /\ UNCHANGED <<fut, recv, link, task>>
    \/ /\ outcome = "error" /\ fut = "head"
       /\ fut' = "failed" /\ recv' = DroppedRecv(recv)
       /\ link' = [link EXCEPT !.active = "gone", !.registration = FALSE]
       /\ UNCHANGED task
    \/ /\ outcome \in {"ok", "error"} /\ fut = "done"
       /\ task' = [task EXCEPT !.pc = "drop", !.failed = (outcome = "error")]
       /\ UNCHANGED <<fut, recv, link>>

(* The pipe is dropped with the future's other locals, or when it is done *)
AfterPipe(s, outcome) == IF outcome \in {"ok", "error"} /\ fut = "head" THEN DroppedSend(s) ELSE s

PipeWith(s, p, n, outcome) ==
    /\ send' = AfterPipe(s, outcome) /\ pipe' = p /\ sent' = n
    /\ PipeReturns(outcome)
    /\ UNCHANGED <<call, abort, pipe_waker, body, invalid, hook, dgram, world>>

(* The pipe is polled by the future while it waits for the head, and by its task after it *)
PipePolled ==
    /\ send.by = "pipe"
    /\ fut = "head" \/ (fut = "done" /\ task.pc = "pipe")

FromTransport == IF peer.stop THEN "ok" ELSE "error"
Refused == peer.stop \/ net = "down"

(* FIN is out: wait for the acknowledgment, or a STOP_SENDING *)
PipeFinished ==
    /\ PipePolled /\ send.fin /\ Stopped
    /\ PipeWith(send, pipe, sent, IF net = "down" THEN "error" ELSE "ok")

PipeFinish ==
    /\ PipePolled /\ ~send.fin /\ pipe.finishing
    /\ IF Refused THEN PipeWith(send, pipe, sent, FromTransport)
       ELSE PipeWith([send EXCEPT !.fin = TRUE, !.end = "fin"], pipe, sent, "more")

(* A STOP_SENDING, or the end of the connection, at any point before FIN *)
PipeStopped ==
    /\ PipePolled /\ ~send.fin /\ ~pipe.finishing /\ Refused
    /\ PipeWith(send, pipe, sent, FromTransport)

PipeSendData ==
    /\ PipePolled /\ ~send.fin /\ ~pipe.finishing /\ ~Refused
    /\ pipe.data
    /\ PipeWith(send, [pipe EXCEPT !.data = FALSE], sent, "more")

PipeBody == PipePolled /\ ~send.fin /\ ~pipe.finishing /\ ~Refused /\ ~pipe.data

(* consume_length *)
Consumed(left, n) == IF left = None THEN None ELSE left - n
Exceeds(left, n) == left # None /\ n > left

PipeDataUnchecked ==
    /\ PipeBody
    /\ \E n \in Sizes :
         /\ sent + n <= MaxSent
         /\ IF pipe.trailers
            THEN PipeWith(send, pipe, sent, "error")
            ELSE PipeWith(send, [pipe EXCEPT !.data = TRUE, !.left = IF n > @ THEN @ ELSE @ - n], sent + n,
                          "more")

PipeData ==
    /\ PipeBody
    /\ \E n \in Sizes :
         /\ sent + n <= MaxSent
         /\ IF pipe.trailers \/ Exceeds(pipe.left, n)
            THEN PipeWith(send, pipe, sent, "error")
            ELSE PipeWith(send, [pipe EXCEPT !.data = TRUE, !.left = Consumed(@, n)], sent + n, "more")

PipeTrailers ==
    /\ PipeBody
    /\ IF pipe.trailers \/ pipe.left \notin {None, 0}
       THEN PipeWith(send, pipe, sent, "error")
       ELSE PipeWith(send, [pipe EXCEPT !.trailers = TRUE], sent, "more")

PipeEnd ==
    /\ PipeBody
    /\ IF pipe.left \notin {None, 0}
       THEN PipeWith(send, pipe, sent, "error")
       ELSE PipeWith(send, [pipe EXCEPT !.finishing = TRUE], sent, "more")

(* The application's body fails *)
PipeBodyFails ==
    /\ PipeBody
    /\ PipeWith(send, pipe, sent, "error")

PipeStep ==
    \/ PipeFinished \/ PipeFinish \/ PipeStopped \/ PipeSendData
    \/ PipeData \/ PipeTrailers \/ PipeEnd \/ PipeBodyFails

----------------------------------------------------------------------------
(* The response head *)

AwaitsHead == fut \in {"connect", "head"}

(* The watch on the token comes before the head *)
HeadInvalid ==
    /\ AwaitsHead /\ invalid
    /\ Fails("failed", recv.code)

(* A malformed head, also 101 or an informational one with a bad length;   *)
(* http3 names the code.                                                   *)
HeadMalformed ==
    /\ AwaitsHead /\ ~invalid /\ net = "up"
    /\ IF send.by = "pipe" \/ fut = "connect"
       THEN Fails("malformed", "H3_MESSAGE_ERROR")
       ELSE FailsOneWay("malformed", "H3_MESSAGE_ERROR")

(* The peer resets the stream, or the connection is lost *)
HeadLost ==
    /\ AwaitsHead /\ ~invalid
    /\ Abandon("failed", send, recv)

(* A successful CONNECT-UDP that breaks the Capsule Protocol is malformed; *)
(* any other success hands both halves to a tunnel.                        *)
ConnectSucceeds ==
    /\ fut = "connect" /\ ~invalid /\ net = "up"
    /\ \/ connect_udp /\ Fails("malformed", "H3_MESSAGE_ERROR")
       \/ /\ fut' = "tunnel"
          /\ UNCHANGED <<call, pipe, sent, send, recv, task, shared, body, invalid, hook, dgram, world>>

(* A refused CONNECT-UDP keeps its send half unfinished until the refusal  *)
(* is read; any other refused CONNECT is finished like an empty body.      *)
ConnectRefused ==
    /\ fut = "connect" /\ ~invalid /\ net = "up"
    /\ IF connect_udp
       THEN fut' = "length" /\ send' = [send EXCEPT !.by = "refused"]
       ELSE fut' = "finish" /\ UNCHANGED send
    /\ UNCHANGED <<call, pipe, sent, recv, task, shared, body, invalid, hook, dgram, world>>

HeadArrives ==
    /\ fut = "head" /\ ~invalid /\ net = "up"
    /\ fut' = "length"
    /\ UNCHANGED <<call, pipe, sent, send, recv, task, shared, body, invalid, hook, dgram, world>>

(* content_length of the final head *)
BadLength ==
    /\ fut = "length"
    /\ IF send.by \in {"pipe", "refused"}
       THEN Fails("malformed", "H3_MESSAGE_ERROR")
       ELSE FailsOneWay("malformed", "H3_MESSAGE_ERROR")

(* State::release *)
Released(l) ==
    IF l.pipe_pending THEN l
    ELSE IF ~l.recv THEN [l EXCEPT !.refused = FALSE, !.registration = FALSE, !.active = "gone"]
    ELSE IF ~l.refused /\ l.active = "held" THEN [l EXCEPT !.active = "permit"] ELSE l

(* Dropping what a release lets go of: the refused send half *)
Release(l) ==
    /\ link' = Released(l)
    /\ send' = IF link.refused /\ ~Released(l).refused THEN DroppedSend(send) ELSE send

(* What is left to send once the head is in: nothing, a body, or the       *)
(* acknowledgment of a FIN that is not there yet.                          *)
FinUnacked == send.by = "future" /\ send.fin /\ ~Stopped
PipePending == send.by = "pipe" \/ FinUnacked

(* RecvBody::new *)
MakeBodyWith(pending) ==
    /\ fut = "length"
    /\ ~(send.by = "future" /\ send.fin /\ net = "down")
    /\ \E n \in IF call.method = "HEAD" THEN {0} ELSE Lengths :
         body' = [body EXCEPT !.pc = "idle", !.left = n]
    /\ link' = Released([link EXCEPT !.recv = TRUE, !.pipe_pending = pending, !.refused = (send.by = "refused")])
    /\ send' = IF FinUnacked THEN [send EXCEPT !.by = "pipe"]
               ELSE IF send.by = "future" THEN DroppedSend(send) ELSE send
    /\ recv' = [recv EXCEPT !.by = "link"]
    /\ task' = [task EXCEPT !.pc = IF pending THEN "made" ELSE "none"]
    /\ fut' = "attach"
    /\ UNCHANGED <<call, pipe, sent, abort, pipe_waker, invalid, hook, dgram, world>>

MakeBodyUnacked == MakeBodyWith(send.by = "pipe")

MakeBody == MakeBodyWith(PipePending)

(* The FIN's outcome is that the connection is gone *)
FinLost ==
    /\ fut = "length" /\ send.by = "future" /\ send.fin /\ net = "down"
    /\ Abandon("failed", send, recv)

(* RecvBody::attach: the hook, then the token again *)
AttachUnchecked ==
    /\ fut = "attach"
    /\ hook' = TRUE
    /\ fut' = "spawn"
    /\ UNCHANGED <<call, pipe, sent, send, recv, task, shared, body, invalid, dgram, world>>

Attach ==
    /\ fut = "attach"
    /\ hook' = TRUE
    /\ fut' = "check"
    /\ UNCHANGED <<call, pipe, sent, send, recv, task, shared, body, invalid, dgram, world>>

(* Link::cancel, under the lock; the body is woken afterwards *)
CancelForgetsWhy(l) ==
    /\ Release(IF l.recv THEN [l EXCEPT !.recv = FALSE, !.waker = FALSE] ELSE [l EXCEPT !.waker = FALSE])
    /\ recv' = IF l.recv THEN DroppedRecv(recv) ELSE recv
    /\ body' = [body EXCEPT !.woken = @ \/ l.waker]

CancelSilently(l) ==
    /\ Release(IF l.recv THEN [l EXCEPT !.recv = FALSE, !.error = TRUE] ELSE l)
    /\ recv' = IF l.recv THEN DroppedRecv(recv) ELSE recv
    /\ UNCHANGED body

Cancel(l) ==
    /\ Release(IF l.recv THEN [l EXCEPT !.recv = FALSE, !.error = TRUE, !.waker = FALSE]
               ELSE [l EXCEPT !.waker = FALSE])
    /\ recv' = IF l.recv THEN DroppedRecv(recv) ELSE recv
    /\ body' = [body EXCEPT !.woken = @ \/ l.waker]

CheckToken ==
    /\ fut = "check"
    /\ fut' = "spawn"
    /\ IF invalid THEN Cancel(link) ELSE UNCHANGED <<link, send, recv, body>>
    /\ UNCHANGED <<call, pipe, sent, task, abort, pipe_waker, invalid, hook, dgram, world>>

(* The response goes to the caller, and the rest of the sending to the executor *)
Deliver ==
    /\ fut = "spawn"
    /\ fut' = "done"
    /\ task' = IF task.pc = "made" THEN [task EXCEPT !.pc = "parked", !.woken = TRUE] ELSE task
    /\ UNCHANGED <<call, pipe, sent, send, recv, shared, body, invalid, hook, dgram, world>>

FutureStep ==
    \/ FinishInline \/ FinishFails \/ HeadInvalid \/ FinLost
    \/ MakeBody \/ Attach \/ CheckToken \/ Deliver

PeerHead == HeadMalformed \/ HeadLost \/ ConnectSucceeds \/ ConnectRefused \/ HeadArrives \/ BadLength

----------------------------------------------------------------------------
(* PipeMap::poll *)

TaskGoes(pc) == task' = [task EXCEPT !.pc = pc]

TaskToken ==
    /\ task.pc = "parked" /\ task.woken
    /\ task' = IF invalid THEN [task EXCEPT !.pc = "drop", !.failed = TRUE, !.woken = FALSE]
               ELSE [task EXCEPT !.pc = "register", !.woken = FALSE]
    /\ UNCHANGED <<local, send, recv, shared, body, invalid, hook, dgram, world>>

(* PipeGuard::watch *)
TaskUnregistered ==
    /\ task.pc = "register"
    /\ TaskGoes("abort?")
    /\ UNCHANGED <<local, send, recv, shared, body, invalid, hook, dgram, world>>

TaskRegister ==
    /\ task.pc = "register"
    /\ pipe_waker' = TRUE
    /\ TaskGoes("abort?")
    /\ UNCHANGED <<local, send, recv, link, abort, body, invalid, hook, dgram, world>>

TaskLook ==
    /\ task.pc = "abort?"
    /\ task' = IF abort THEN [task EXCEPT !.pc = "drop", !.failed = TRUE] ELSE [task EXCEPT !.pc = "pipe"]
    /\ UNCHANGED <<local, send, recv, shared, body, invalid, hook, dgram, world>>

(* The pipe waits for the transport or for the application's body *)
TaskWaits ==
    /\ task.pc = "pipe"
    /\ TaskGoes("parked")
    /\ UNCHANGED <<local, send, recv, shared, body, invalid, hook, dgram, world>>

(* "Reset unfinished sending before the response learns why it failed." *)
TaskDropPipe ==
    /\ task.pc = "drop"
    /\ send' = DroppedSend(send)
    /\ TaskGoes("guard")
    /\ UNCHANGED <<local, recv, shared, body, invalid, hook, dgram, world>>

(* PipeGuard::drop *)
TaskRelease ==
    /\ task.pc = "guard"
    /\ Release([link EXCEPT !.pipe_pending = FALSE])
    /\ TaskGoes(IF task.failed THEN "cancel" ELSE "over")
    /\ UNCHANGED <<local, recv, abort, pipe_waker, body, invalid, hook, dgram, world>>

TaskCancel ==
    /\ task.pc = "cancel"
    /\ Cancel(link)
    /\ TaskGoes("over")
    /\ UNCHANGED <<local, abort, pipe_waker, invalid, hook, dgram, world>>

(* The executor discards the task *)
DropTask ==
    /\ task.pc = "parked"
    /\ task' = [task EXCEPT !.pc = "drop", !.failed = FALSE]
    /\ UNCHANGED <<local, send, recv, shared, body, invalid, hook, dgram, world>>

TaskStep ==
    \/ TaskToken \/ TaskRegister \/ TaskLook \/ TaskDropPipe \/ TaskRelease \/ TaskCancel

(* The transport or the application's body may wake it *)
TaskEvent ==
    /\ task.pc = "parked" /\ ~task.woken
    /\ task' = [task EXCEPT !.woken = TRUE]
    /\ UNCHANGED <<local, send, recv, shared, body, invalid, hook, dgram, world>>

----------------------------------------------------------------------------
(* The application reads the response *)

BodyPolled == fut = "done" /\ (body.pc = "idle" \/ (body.pc = "parked" /\ body.woken))

(* RecvBody::poll_frame, up to the unlock.  Without a receive half, what   *)
(* it was canceled for is told, once.                                      *)
Told(how, next) == body' = [body EXCEPT !.pc = next, !.told = how, !.woken = FALSE]

BodyCanceled ==
    /\ BodyPolled /\ ~link.recv
    /\ link' = [link EXCEPT !.error = FALSE, !.waker = TRUE]
    /\ IF link.error THEN Told("error", "failed") ELSE Told("end", "ended")
    /\ UNCHANGED <<local, send, recv, task, abort, pipe_waker, invalid, hook, dgram, world>>

BodyWaits ==
    /\ BodyPolled /\ link.recv /\ net = "up"
    /\ link' = [link EXCEPT !.waker = TRUE]
    /\ body' = [body EXCEPT !.pc = "parked", !.woken = FALSE]
    /\ UNCHANGED <<local, send, recv, task, abort, pipe_waker, invalid, hook, dgram, world>>

(* State::finish *)
BodyFails(code) ==
    /\ Release([link EXCEPT !.recv = FALSE, !.waker = TRUE])
    /\ recv' = DroppedRecv([recv EXCEPT !.code = code])
    /\ Told("error", "failed")
    /\ UNCHANGED <<local, task, abort, pipe_waker, invalid, hook, dgram, world>>

BodyReads == BodyPolled /\ link.recv /\ net = "up" /\ ~body.data_done

BodyData ==
    /\ BodyReads
    /\ \E n \in Sizes :
         IF Exceeds(body.left, n) THEN BodyFails("H3_MESSAGE_ERROR")
         ELSE /\ body' = [body EXCEPT !.pc = "idle", !.left = Consumed(@, n), !.woken = FALSE]
              /\ link' = [link EXCEPT !.waker = TRUE]
              /\ UNCHANGED <<local, send, recv, task, abort, pipe_waker, invalid, hook, dgram, world>>

(* The end of the data; trailers, or FIN, come in the same poll or later *)
BodyDataEnds ==
    /\ BodyReads
    /\ IF body.left \notin {None, 0} THEN BodyFails("H3_MESSAGE_ERROR")
       ELSE /\ body' = [body EXCEPT !.data_done = TRUE]
            /\ UNCHANGED <<local, send, recv, task, link, abort, pipe_waker, invalid, hook, dgram, world>>

BodyEnds ==
    /\ BodyPolled /\ link.recv /\ net = "up" /\ body.data_done
    /\ recv' = [recv EXCEPT !.by = "gone", !.end = "fin"]
    /\ Release([link EXCEPT !.recv = FALSE, !.waker = TRUE])
    /\ Told("end", "ended")
    /\ UNCHANGED <<local, task, abort, pipe_waker, invalid, hook, dgram, world>>

(* The peer resets, sends what it must not, or the connection is lost *)
BodyLost ==
    /\ BodyPolled /\ link.recv
    /\ BodyFails(recv.code)

(* "A failed response aborts the exchange" *)
BodyAbort ==
    /\ body.pc = "failed"
    /\ abort' = TRUE
    /\ body' = [body EXCEPT !.pc = "wake"]
    /\ UNCHANGED <<local, send, recv, task, link, pipe_waker, invalid, hook, dgram, world>>

BodyWakesPipe ==
    /\ body.pc = "wake"
    /\ pipe_waker' = FALSE
    /\ task' = [task EXCEPT !.woken = @ \/ pipe_waker]
    /\ body' = [body EXCEPT !.pc = "ended"]
    /\ UNCHANGED <<local, send, recv, link, abort, invalid, hook, dgram, world>>

BodyEvent ==
    /\ body.pc = "parked" /\ ~body.woken
    /\ body' = [body EXCEPT !.woken = TRUE]
    /\ UNCHANGED <<local, send, recv, task, shared, invalid, hook, dgram, world>>

(* RecvBody::drop *)
DropBody ==
    /\ fut = "done" /\ body.pc \in {"idle", "parked", "ended"}
    /\ body' = [body EXCEPT !.pc = "dropped"]
    /\ IF link.recv THEN Release([link EXCEPT !.recv = FALSE]) /\ recv' = DroppedRecv(recv)
       ELSE UNCHANGED <<link, send, recv>>
    /\ UNCHANGED <<local, task, abort, pipe_waker, invalid, hook, dgram, world>>

BodyStep == BodyCanceled \/ BodyData \/ BodyDataEnds \/ BodyEnds \/ BodyLost
BodyAborts == BodyAbort \/ BodyWakesPipe

----------------------------------------------------------------------------
(* The Datagram driver finds a Datagram for a request that has none:       *)
(* RequestState::invalidate                                                *)

Invalidate ==
    /\ dgram = "idle" /\ ~call.datagrams
    /\ link.registration /\ recv.end = "open" /\ fut # "tunnel"
    /\ invalid' = TRUE
    /\ task' = [task EXCEPT !.woken = @ \/ task.pc \in {"parked", "register", "abort?", "pipe"}]
    /\ dgram' = "look"
    /\ UNCHANGED <<local, send, recv, shared, body, hook, world>>

InvalidateStops ==
    /\ dgram = "look"
    /\ dgram' = "over"
    /\ IF hook /\ (body.pc # "dropped" \/ task.pc \notin {"none", "over"}) THEN Cancel(link)
       ELSE UNCHANGED <<link, send, recv, body>>
    /\ UNCHANGED <<local, task, abort, pipe_waker, invalid, hook, world>>

----------------------------------------------------------------------------
(* The peer, and the end of the connection *)

PeerStops ==
    /\ ~peer.stop /\ send.end = "open" /\ send.by # "none"
    /\ peer' = [peer EXCEPT !.stop = TRUE]
    /\ UNCHANGED <<local, send, recv, task, shared, body, invalid, hook, dgram, net>>

PeerAcks ==
    /\ ~peer.acked /\ send.end = "fin" /\ net = "up"
    /\ peer' = [peer EXCEPT !.acked = TRUE]
    /\ UNCHANGED <<local, send, recv, task, shared, body, invalid, hook, dgram, net>>

ConnectionLost ==
    /\ net = "up" /\ fut # "new"
    /\ net' = "down"
    /\ UNCHANGED <<local, send, recv, task, shared, body, invalid, hook, dgram, peer>>

ExchangeOver ==
    /\ fut \in {"rejected", "failed", "malformed", "dropped", "tunnel"} \/ body.pc = "dropped"
    /\ task.pc \in {"none", "parked", "over"}
    /\ UNCHANGED exVars

ExchangeNext ==
    \/ Reject \/ Open \/ DropFuture \/ FutureStep \/ PeerHead
    \/ PipeStep \/ TaskStep \/ TaskWaits \/ DropTask \/ TaskEvent
    \/ BodyStep \/ BodyWaits \/ BodyAborts \/ BodyEvent \/ DropBody
    \/ Invalidate \/ InvalidateStops
    \/ PeerStops \/ PeerAcks \/ ConnectionLost
    \/ ExchangeOver

ExchangeSpec == ExchangeInit /\ [][ExchangeNext]_exVars

(* The caller polls its future and the executor its tasks when they are    *)
(* woken, and calls that have begun go on.  The peer, the transport and    *)
(* the application's own body need do nothing.                             *)
ExchangeFairness ==
    /\ WF_exVars(FutureStep)
    /\ WF_exVars(TaskStep \/ TaskWaits)
    /\ WF_exVars(BodyAborts)
    /\ WF_exVars(InvalidateStops)

ExchangeFairSpec == ExchangeSpec /\ ExchangeFairness

----------------------------------------------------------------------------
(* Properties *)

Failed == body.told = "error" \/ invalid \/ net = "down" \/ task.failed
Complete == peer.acked \/ peer.stop

(* "Admission remains held until [FIN] is acknowledged": the exchange      *)
(* gives its permit back only when its send direction has ended, and it    *)
(* leaves the count of active exchanges, by which a drain closes the       *)
(* connection, only when both directions have; a FIN counts once it is     *)
(* acknowledged, unless the exchange failed or its task was discarded.     *)
ReleasedIsSettled ==
    /\ link.active = "permit" => send.end # "open"
    /\ link.active = "gone" /\ fut = "done" => send.end # "open" /\ recv.end # "open"
    /\ link.active \in {"permit", "gone"} /\ fut = "done" /\ send.end = "fin" =>
          Complete \/ Failed \/ task.pc \in {"guard", "over"}

(* A response that was stopped from elsewhere, by a failed upload or an    *)
(* invalid Datagram, or that is shorter or longer than it declared, never  *)
(* reads as a clean end: the application is told of an end only when the   *)
(* peer's FIN was read and all of the declared length came.                *)
CleanEndWasRead ==
    body.told = "end" => recv.end = "fin" /\ body.left \in {None, 0}

(* FIN is the promise that the request is whole: it goes out only after    *)
(* exactly the declared length, and never for a body that failed.          *)
FinIsWhole ==
    send.end = "fin" => Declared \in {None, sent} /\ ~pipe.data

(* "A malformed response is a stream error in both directions": unless the *)
(* peer has stopped the request, or a Datagram comes in between, both      *)
(* directions end with the same code.                                      *)
MalformedBothWays ==
    fut = "malformed" /\ ~invalid /\ ~peer.stop => send.end \in {"fin", recv.end}

(* The body sleeps only while there is something to wait for: a failure    *)
(* found by the sending task or by a Datagram wakes it.                    *)
BodyIsWoken ==
    body.pc = "parked" /\ ~body.woken => link.recv /\ ~link.error

(* An invalid Datagram ends the exchange, wherever its future, its task    *)
(* and its body are, and however it races the hand-over of the body (the   *)
(* token is checked again once the hook is in place).                      *)
InvalidEndsAll == invalid ~> link.active = "gone"

(* When the response fails, the sending that is left is reset, and the     *)
(* exchange is released, even if the request's body never yields again.    *)
FailureEndsAll == body.told = "error" ~> link.active = "gone"

(* An end that one side of an exchange is told of is the true one.         *)
EndsAreTrue == CleanEndWasRead /\ FinIsWhole /\ MalformedBothWays

(* A failure on either side reaches both, and the exchange ends.           *)
EndsReachAll == InvalidEndsAll /\ FailureEndsAll
=============================================================================
