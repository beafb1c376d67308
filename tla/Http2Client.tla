---------------------------- MODULE Http2Client ----------------------------
(***************************************************************************)
(* The HTTP/2 client (proto/http2/client.rs): the dispatch task, which     *)
(* takes requests from the queue, holds extended CONNECTs back until the   *)
(* server's SETTINGS are known, and opens streams; the connection task,    *)
(* which drives the http2 connection and publishes those SETTINGS; and the *)
(* two tasks a request may have, SendWhen for its response and PipeMap for *)
(* its body.  The user cancels, drops its handles or the connection, and   *)
(* the peer answers, resets and closes, between any two of their steps.    *)
(*                                                                         *)
(* The http2 crate is external.  Its state changes under its own lock, so  *)
(* a call of it is one step: a stream waits to be opened, is open, has     *)
(* ended on both sides, was reset, or failed with the connection; a stream *)
(* whose last handle is dropped is reset.  A response is a single event.   *)
(* After a GOAWAY it takes no more streams, and ends with the last one.    *)
(***************************************************************************)
EXTENDS Naturals, Sequences, SequencesExt, FiniteSets

CONSTANTS
    Requests,
    Kinds,          \* of "plain", "body", "connect", "extended"
    MaxBodies,      \* requests that have a body to send
    MaxStreams      \* streams that may be open at a time

ASSUME ClientAssumption ==
    /\ IsFiniteSet(Requests) /\ MaxBodies \in Nat /\ MaxStreams \in Nat \ {0}
    /\ Kinds \subseteq {"plain", "body", "connect", "extended"}

VARIABLES
    kind, outcome,  \* of each request: what it is, what its caller was told
    queue,          \* the queue of req_rx
    handles,        \* a SendRequest is alive
    peer,           \* PeerSettings
    gate,           \* ConnectGate::parked
    task,           \* ClientTask: where its poll is, and the request in hand
    ctx,            \* fut_ctx
    armed,          \* what will wake the dispatch task, but for the SETTINGS
    conn,           \* ConnTask, the SETTINGS it has applied, and how it ended
    stream,         \* of each request: its stream
    when,           \* of each request: SendWhen
    pipe, cancel    \* of each request: PipeMap, and the channel to it

asked == << kind, outcome >>
sent  == << stream, when, pipe, cancel >>
vars  == << asked, queue, handles, peer, gate, task, ctx, armed, conn, sent >>

NoRequest == "none"

Tunnels(r) == kind[r] \in {"connect", "extended"}

NoStream == [st |-> "none", local |-> FALSE, resp |-> "none", tunnel |-> FALSE]

Init ==
    /\ kind = [r \in Requests |-> "none"] /\ outcome = [r \in Requests |-> "unsent"]
    /\ queue = << >> /\ handles = TRUE
    /\ peer = [ext |-> "unknown", waker |-> FALSE, parked |-> FALSE]
    /\ gate = << >>
    /\ task = [pc |-> "idle", woken |-> TRUE, item |-> NoRequest, abandoned |-> FALSE]
    /\ ctx = NoRequest /\ armed = {}
    /\ conn = [pc |-> "idle", known |-> "unknown",
               refuses |-> FALSE, end |-> "no"]
    /\ stream = [r \in Requests |-> NoStream]
    /\ when = [r \in Requests |-> "none"]
    /\ pipe = [r \in Requests |-> "none"] /\ cancel = [r \in Requests |-> "none"]

----------------------------------------------------------------------------
Live(s) == s.st \in {"pending", "open"}

OpenStreams(str) == Cardinality({r \in Requests : str[r].st = "open"})

(* Both sides of a stream are done *)
Ended(s) == IF s.st = "open" /\ s.local /\ s.resp # "none" /\ ~s.tunnel
            THEN [s EXCEPT !.st = "ended"] ELSE s

Gone == [NoStream EXCEPT !.st = "gone"]

Reset(s) == IF Live(s) THEN [s EXCEPT !.st = "reset"] ELSE s

(* The answer to a caller, if it still waits *)
Answer(out, rs, what) ==
    [r \in Requests |-> IF r \in rs /\ out[r] = "waiting" THEN what ELSE out[r]]

Canceled(r) == outcome[r] = "canceled"

Wakes(what) == task' = [task EXCEPT !.woken = @ \/ what \in armed]

(* The poll begins or goes on; its end gives the request in hand away *)
Goes(pc) ==
    task' = [task EXCEPT !.pc = pc, !.woken = @ /\ task.pc # "idle",
                         !.item = IF pc \in {"settle", "idle", "done"} THEN NoRequest ELSE @]

Running(s) == IF s = "parked" THEN "ready" ELSE s

----------------------------------------------------------------------------
(* Users *)

Send(r, k) ==
    /\ outcome[r] = "unsent" /\ handles
    /\ k = "body" => Cardinality({q \in Requests : kind[q] = "body"}) < MaxBodies
    /\ kind' = [kind EXCEPT ![r] = k]
    /\ IF task.pc # "dropped"
       THEN /\ queue' = Append(queue, r) /\ outcome' = [outcome EXCEPT ![r] = "waiting"]
            /\ Wakes("queue") /\ armed' = armed \ {"queue"}
       ELSE /\ outcome' = [outcome EXCEPT ![r] = "returned"]
            /\ UNCHANGED << queue, task, armed >>
    /\ UNCHANGED << handles, peer, gate, ctx, conn, sent >>

(* The caller drops its future: who polls the callback's closing is woken *)
Cancel(r) ==
    /\ outcome[r] = "waiting"
    /\ outcome' = [outcome EXCEPT ![r] = "canceled"]
    /\ when' = [when EXCEPT ![r] = Running(@)]
    /\ Wakes(r) /\ armed' = armed \ {r}
    /\ UNCHANGED << kind, queue, handles, peer, gate, ctx, conn, stream, pipe, cancel >>

DropHandles ==
    /\ handles /\ handles' = FALSE
    /\ Wakes("queue") /\ armed' = armed \ {"queue"}
    /\ UNCHANGED << asked, queue, peer, gate, ctx, conn, sent >>

(* A request's body, or the window for it, has something for its pipe *)
BodyReady(r) ==
    /\ pipe[r] = "parked" /\ pipe' = [pipe EXCEPT ![r] = "ready"]
    /\ UNCHANGED << asked, queue, handles, peer, gate, task, ctx, armed, conn, stream, when, cancel >>

(* The upgraded stream of a tunnel is closed *)
TunnelEnds(r) ==
    /\ stream[r].tunnel
    /\ stream' = [stream EXCEPT ![r] = Gone]
    /\ UNCHANGED << asked, queue, handles, peer, gate, task, ctx, armed, conn, when, pipe, cancel >>

----------------------------------------------------------------------------
(* ClientTask::poll *)

(* What poll_settle does once it knows whether the protocol is enabled, or *)
(* that this is not known                                                  *)
Settled(ext) ==
    LET kept == SelectSeq(gate, LAMBDA r : ~Canceled(r))
    IN  /\ gate' = CASE ext = "enabled"  -> gate
                     [] ext = "disabled" -> << >>
                     [] ext = "unknown"  -> kept
        /\ outcome' = IF ext = "disabled" THEN Answer(outcome, ToSet(gate), "refused")
                      ELSE outcome
        /\ armed' = IF ext = "unknown" THEN armed \cup ToSet(kept) ELSE armed
        /\ Goes("ready")
        /\ UNCHANGED << queue, ctx, sent >>

(* What admit does with the request in hand *)
Admitted(ext) ==
    /\ gate' = IF ext = "unknown" THEN Append(gate, task.item) ELSE gate
    /\ outcome' = IF ext = "disabled" THEN Answer(outcome, {task.item}, "refused")
                  ELSE outcome
    /\ Goes(IF ext = "enabled" THEN "send" ELSE "settle")
    /\ UNCHANGED << queue, ctx, armed, sent >>

(* set_parked *)
Publishes == peer' = [peer EXCEPT !.parked = (gate' # << >>)]

PollSettleSlip ==
    /\ task.pc = "settle" \/ (task.pc = "idle" /\ task.woken)
    /\ IF gate = << >> \/ ctx # NoRequest
       THEN Goes("ready") /\ UNCHANGED << outcome, peer, gate, queue, ctx, armed, sent >>
       ELSE IF peer.ext # "unknown" THEN Settled(peer.ext) /\ Publishes
       ELSE /\ Goes("register")
            /\ UNCHANGED << outcome, peer, gate, queue, ctx, armed, sent >>
    /\ UNCHANGED << kind, handles, conn >>

(* ConnectGate::poll_settle, up to the first load *)
PollSettle ==
    /\ task.pc = "settle" \/ (task.pc = "idle" /\ task.woken)
    /\ IF gate = << >>
       THEN Goes("ready") /\ UNCHANGED << outcome, peer, gate, queue, ctx, armed, sent >>
       ELSE IF peer.ext # "unknown" THEN Settled(peer.ext) /\ Publishes
       ELSE /\ Goes("register")
            /\ UNCHANGED << outcome, peer, gate, queue, ctx, armed, sent >>
    /\ UNCHANGED << kind, handles, conn >>

(* PeerSettings::poll_extended_connect: register, and look again *)
Register ==
    /\ task.pc = "register" /\ Goes("recheck")
    /\ peer' = [peer EXCEPT !.waker = TRUE]
    /\ UNCHANGED << asked, queue, handles, gate, ctx, armed, conn, sent >>

Recheck ==
    /\ task.pc = "recheck"
    /\ IF task.item = NoRequest THEN Settled(peer.ext) ELSE Admitted(peer.ext)
    /\ Publishes
    /\ UNCHANGED << kind, handles, conn >>

(* What a poll of the body's pipe makes of the stream: the body ends, it   *)
(* fails, or more is to come; a stream that is gone ends the pipe          *)
Piped(s) == IF s.st # "open" THEN {s}
            ELSE {s, Ended([s EXCEPT !.local = TRUE]), Reset(s)}

Lasts(s, t) == s.st = "open" /\ t = s

(* poll_pipe: the body is polled at once, and given a task if it is not    *)
(* done; the response always has one                                       *)
PollPipe(r) ==
    \E s \in IF kind[r] = "body" THEN Piped(stream[r]) ELSE {stream[r]} :
        LET lasts == kind[r] = "body" /\ Lasts(stream[r], s)
        IN  /\ stream' = [stream EXCEPT ![r] = s]
            /\ pipe' = [pipe EXCEPT ![r] = IF lasts THEN "ready" ELSE "done"]
            /\ cancel' = [cancel EXCEPT ![r] = IF lasts THEN "open" ELSE "none"]
            /\ when' = [when EXCEPT ![r] = "ready"]

(* ConnectGate::release, and the end of the poll *)
Release(what) ==
    /\ outcome' = Answer(outcome, ToSet(gate), what)
    /\ gate' = << >> /\ peer' = [peer EXCEPT !.parked = FALSE]

Blame == IF conn.end = "timeout" THEN "timed_out" ELSE "returned"

(* h2_tx.poll_ready, and what follows it for a stream that was waiting *)
PollReady ==
    /\ task.pc = "ready"
    /\ CASE conn.refuses ->
              /\ IF ctx = NoRequest THEN UNCHANGED sent ELSE PollPipe(ctx)
              /\ Release(Blame) /\ ctx' = NoRequest /\ Goes("done") /\ UNCHANGED armed
         [] ~conn.refuses /\ ctx # NoRequest /\ stream[ctx].st = "pending" ->
              /\ Goes("idle") /\ armed' = armed \cup {"ready"}
              /\ UNCHANGED << outcome, gate, peer, ctx, sent >>
         [] ~conn.refuses /\ ctx # NoRequest /\ stream[ctx].st # "pending" ->
              /\ PollPipe(ctx) /\ ctx' = NoRequest /\ Goes("settle")
              /\ UNCHANGED << outcome, gate, peer, armed >>
         [] ~conn.refuses /\ ctx = NoRequest ->
              /\ Goes("pop")
              /\ UNCHANGED << outcome, gate, peer, ctx, armed, sent >>
    /\ UNCHANGED << kind, queue, handles, conn >>

PopEnabledSlip ==
    /\ task.pc = "pop"
    /\ IF peer.ext = "enabled" /\ gate # << >>
       THEN /\ task' = [task EXCEPT !.pc = "check", !.item = Head(gate)]
            /\ gate' = Tail(gate) /\ UNCHANGED peer
       ELSE Goes("recv") /\ UNCHANGED << gate, peer >>
    /\ UNCHANGED << asked, queue, handles, ctx, armed, conn, sent >>

(* ConnectGate::pop_enabled *)
PopEnabled ==
    /\ task.pc = "pop"
    /\ IF peer.ext = "enabled" /\ gate # << >>
       THEN /\ task' = [task EXCEPT !.pc = "check", !.item = Head(gate)]
            /\ gate' = Tail(gate) /\ Publishes
       ELSE Goes("recv") /\ UNCHANGED << gate, peer >>
    /\ UNCHANGED << asked, queue, handles, ctx, armed, conn, sent >>

(* req_rx.poll_recv: parked requests keep the task alive without senders *)
PollRecv ==
    /\ task.pc = "recv"
    /\ CASE queue # << >> ->
              /\ task' = [task EXCEPT !.pc = "check", !.item = Head(queue)]
              /\ queue' = Tail(queue) /\ UNCHANGED armed
         [] queue = << >> /\ handles ->
              /\ Goes("eof") /\ armed' = armed \cup {"queue"} /\ UNCHANGED queue
         [] queue = << >> /\ ~handles ->
              /\ Goes(IF gate = << >> THEN "done" ELSE "eof") /\ UNCHANGED << queue, armed >>
    /\ UNCHANGED << asked, handles, peer, gate, ctx, conn, sent >>

(* A canceled request is skipped; any other goes to ConnectGate::admit, up *)
(* to the first load of poll_extended_connect                              *)
Check ==
    /\ task.pc = "check"
    /\ CASE Canceled(task.item) ->
              Goes("settle") /\ UNCHANGED << outcome, peer, gate, queue, ctx, armed, sent >>
         [] ~Canceled(task.item) /\ kind[task.item] # "extended" ->
              Goes("send") /\ UNCHANGED << outcome, peer, gate, queue, ctx, armed, sent >>
         [] ~Canceled(task.item) /\ kind[task.item] = "extended" ->
              IF peer.ext # "unknown" THEN Admitted(peer.ext) /\ UNCHANGED peer
              ELSE /\ Goes("register")
                   /\ UNCHANGED << outcome, peer, gate, queue, ctx, armed, sent >>
    /\ UNCHANGED << kind, handles, conn >>

(* h2_tx.send_request; a CONNECT with a body is refused before it *)
SendRequest ==
    LET r == task.item
    IN  /\ task.pc = "send"
        /\ \/ /\ Tunnels(r) \/ conn.refuses
              /\ outcome' = Answer(outcome, {r}, "failed")
              /\ Goes("settle") /\ UNCHANGED stream
           \/ /\ ~conn.refuses
              /\ \E st \in {"pending"} \cup IF OpenStreams(stream) < MaxStreams
                                            THEN {"open"} ELSE {} :
                    stream' = [stream EXCEPT ![r] = [NoStream EXCEPT !.st = st,
                                                     !.local = (kind[r] = "plain")]]
              /\ Goes("reready") /\ UNCHANGED outcome
        /\ UNCHANGED << kind, queue, handles, peer, gate, ctx, armed, conn, when, pipe, cancel >>

(* poll_ready again: a stream that waits to be opened is set aside *)
PollReadyAgain ==
    /\ task.pc = "reready"
    /\ IF ~conn.refuses /\ stream[task.item].st = "pending"
       THEN /\ ctx' = task.item /\ armed' = armed \cup {"ready"}
            /\ Goes("idle") /\ UNCHANGED sent
       ELSE PollPipe(task.item) /\ Goes("settle") /\ UNCHANGED << ctx, armed >>
    /\ UNCHANGED << asked, queue, handles, peer, gate, conn >>

PollEofSlip ==
    /\ task.pc = "eof"
    /\ IF conn.pc # "gone"
       THEN Goes("idle") /\ armed' = armed \cup {"eof"}
       ELSE Goes("done") /\ UNCHANGED armed
    /\ UNCHANGED << asked, queue, handles, peer, gate, ctx, conn, sent >>

(* conn_eof: the connection task has gone; parked requests are told of a   *)
(* keep-alive timeout                                                      *)
PollEof ==
    /\ task.pc = "eof"
    /\ CASE conn.pc # "gone" ->
              /\ Goes("idle") /\ armed' = armed \cup {"eof"}
              /\ UNCHANGED << outcome, gate, peer >>
         [] conn.pc = "gone" /\ conn.end = "timeout" ->
              Goes("done") /\ Release("timed_out") /\ UNCHANGED armed
         [] conn.pc = "gone" /\ conn.end # "timeout" ->
              Goes("done") /\ UNCHANGED << outcome, gate, peer, armed >>
    /\ UNCHANGED << kind, queue, handles, ctx, conn, sent >>

DropTaskSlip ==
    /\ task.pc \in {"idle", "done"}
    /\ task' = [task EXCEPT !.pc = "dropped", !.woken = FALSE,
                            !.abandoned = (task.pc = "idle")]
    /\ outcome' = Answer(outcome, ToSet(gate \o queue) \cup {ctx}, "returned")
    /\ gate' = << >> /\ queue' = << >> /\ armed' = {}
    /\ peer' = [peer EXCEPT !.parked = FALSE]
    /\ stream' = IF ctx = NoRequest THEN stream ELSE [stream EXCEPT ![ctx] = Reset(@)]
    /\ ctx' = NoRequest
    /\ UNCHANGED << kind, handles, conn, when, pipe, cancel >>

(* The task is dropped, done or not: what it holds goes back to its caller *)
(* unsent, but for a request already given to http2                        *)
DropTask ==
    /\ task.pc \in {"idle", "done"}
    /\ task' = [task EXCEPT !.pc = "dropped", !.woken = FALSE,
                            !.abandoned = (task.pc = "idle")]
    /\ outcome' = Answer(Answer(outcome, ToSet(gate \o queue), "returned"), {ctx}, "failed")
    /\ gate' = << >> /\ queue' = << >> /\ armed' = {}
    /\ peer' = [peer EXCEPT !.parked = FALSE]
    /\ stream' = IF ctx = NoRequest THEN stream ELSE [stream EXCEPT ![ctx] = Reset(@)]
    /\ ctx' = NoRequest
    /\ UNCHANGED << kind, handles, conn, when, pipe, cancel >>

----------------------------------------------------------------------------
(* SendWhen::poll over ResponseFutMap::poll *)

(* A stream that its request's tasks are done with is reset if it is live, *)
(* and then of no more interest                                            *)
Unheld(w, p, s) == IF w = "done" /\ p \in {"none", "done"} /\ ~s.tunnel THEN Gone ELSE s

(* The sending half of a CONNECT goes to the tunnel, or ends if refused; a *)
(* success that breaks the Capsule Protocol resets the stream              *)
Responded(r) ==
    LET s == stream[r]
    IN  IF ~Tunnels(r) THEN s
        ELSE IF s.resp = "success" THEN [s EXCEPT !.tunnel = (s.st = "open")]
        ELSE IF s.resp = "malformed" THEN Reset(s)
        ELSE Ended([s EXCEPT !.local = TRUE])

Response(r) == IF stream[r].resp = "malformed" THEN "failed" ELSE "response"

ResponseError == IF conn.end = "timeout" THEN "timed_out" ELSE "failed"

(* The channel to the pipe: used to cancel it, or only dropped *)
Tells(r, what) ==
    /\ cancel' = [cancel EXCEPT ![r] = IF @ = "open" THEN what ELSE @]
    /\ pipe' = [pipe EXCEPT ![r] = IF cancel[r] = "open" THEN Running(@) ELSE @]

Finishes(r, s) ==
    /\ when' = [when EXCEPT ![r] = "done"]
    /\ stream' = [stream EXCEPT ![r] = Unheld("done", pipe[r], s)]

SendWhenPollSlip(r) ==
    /\ when[r] = "ready"
    /\ CASE stream[r].resp # "none" ->
              /\ outcome' = Answer(outcome, {r}, Response(r))
              /\ Finishes(r, Responded(r)) /\ Tells(r, "dropped")
         [] stream[r].resp = "none" /\ ~Live(stream[r]) ->
              /\ outcome' = Answer(outcome, {r}, ResponseError)
              /\ Finishes(r, stream[r]) /\ Tells(r, "dropped")
         [] stream[r].resp = "none" /\ Live(stream[r]) /\ Canceled(r) ->
              Finishes(r, stream[r]) /\ Tells(r, "dropped") /\ UNCHANGED outcome
         [] stream[r].resp = "none" /\ Live(stream[r]) /\ ~Canceled(r) ->
              /\ when' = [when EXCEPT ![r] = "parked"]
              /\ UNCHANGED << outcome, stream, cancel, pipe >>
    /\ UNCHANGED << kind, queue, handles, peer, gate, task, ctx, armed, conn >>

SendWhenPoll(r) ==
    /\ when[r] = "ready"
    /\ CASE stream[r].resp # "none" ->
              /\ outcome' = Answer(outcome, {r}, Response(r))
              /\ Finishes(r, Responded(r)) /\ Tells(r, "dropped")
         [] stream[r].resp = "none" /\ ~Live(stream[r]) ->
              /\ outcome' = Answer(outcome, {r}, ResponseError)
              /\ Finishes(r, stream[r]) /\ Tells(r, "dropped")
         [] stream[r].resp = "none" /\ Live(stream[r]) /\ Canceled(r) ->
              Finishes(r, stream[r]) /\ Tells(r, "sent") /\ UNCHANGED outcome
         [] stream[r].resp = "none" /\ Live(stream[r]) /\ ~Canceled(r) ->
              /\ when' = [when EXCEPT ![r] = "parked"]
              /\ UNCHANGED << outcome, stream, cancel, pipe >>
    /\ UNCHANGED << kind, queue, handles, peer, gate, task, ctx, armed, conn >>

(* PipeMap::poll: the cancellation first, then the body *)
PipeMapPoll(r) ==
    /\ pipe[r] = "ready"
    /\ \E s \in IF cancel[r] = "sent" THEN {Reset(stream[r])} ELSE Piped(stream[r]) :
        LET lasts == cancel[r] # "sent" /\ Lasts(stream[r], s)
        IN  /\ pipe' = [pipe EXCEPT ![r] = IF lasts THEN "parked" ELSE "done"]
            /\ cancel' = [cancel EXCEPT ![r] = IF lasts /\ @ = "open" THEN @ ELSE "none"]
            /\ stream' = [stream EXCEPT ![r] = Unheld(when[r], pipe'[r], s)]
            /\ when' = [when EXCEPT ![r] = IF s.st = "reset" THEN Running(@) ELSE @]
    /\ UNCHANGED << asked, queue, handles, peer, gate, task, ctx, armed, conn >>

----------------------------------------------------------------------------
(* ConnTask::poll *)

(* What a stream becomes when the connection reads an answer on it, or     *)
(* that the connection is broken or goes away                              *)
Reads(s, answer, break) ==
    LET t == CASE answer = "none"  -> s
               [] answer = "reset" -> Reset(s)
               [] OTHER -> Ended([s EXCEPT !.resp = answer])
    IN  IF \/ break \in {"error", "timeout"} /\ Live(t)
           \/ break = "goaway" /\ t.st = "pending"
        THEN [t EXCEPT !.st = "failed"] ELSE t

(* Nothing refers to the connection, or it takes no streams and has none *)
Over(str, refuses) ==
    \/ task.pc = "dropped" /\ \A r \in Requests :
            /\ when[r] \in {"none", "done"} /\ pipe[r] \in {"none", "done"} /\ ~Live(str[r])
    \/ refuses /\ \A r \in Requests : ~Live(str[r])

(* The connection is polled.  It reads any of: SETTINGS, an answer, and    *)
(* that it is broken, goes away or timed out (Http2Ping); and it opens the *)
(* streams it has room for.  With nothing to publish, and not finished,    *)
(* the poll then ends.                                                     *)
Drive(ext, r, answer, break) ==
    LET read    == [q \in Requests |-> Reads(stream[q], IF q = r THEN answer ELSE "none", break)]
        waiting == {q \in Requests : read[q].st = "pending"}
        refuses == conn.refuses \/ break # "no"
    IN  /\ conn.pc = "idle" /\ (conn.refuses => break \in {"no", "error"})
        /\ \E opened \in SUBSET waiting :
            LET str   == [q \in Requests |-> IF q \in opened THEN [read[q] EXCEPT !.st = "open"]
                                             ELSE read[q]]
                moved == {q \in Requests : str[q] # stream[q]}
                end   == IF break \in {"error", "timeout"} THEN break
                         ELSE IF Over(str, refuses) THEN "closed" ELSE "no"
            IN  /\ OpenStreams(str) <= MaxStreams
                /\ opened = waiting \/ OpenStreams(str) = MaxStreams
                /\ stream' = str
                /\ when' = [q \in Requests |-> IF q \in moved THEN Running(when[q]) ELSE when[q]]
                /\ pipe' = [q \in Requests |-> IF q \in moved THEN Running(pipe[q]) ELSE pipe[q]]
                /\ IF refuses \/ ctx \in moved
                   THEN Wakes("ready") /\ armed' = armed \ {"ready"}
                   ELSE UNCHANGED << task, armed >>
                /\ conn' = [pc |-> IF ext = peer.ext /\ end = "no" THEN "idle" ELSE "publish",
                            refuses |-> refuses, known |-> ext, end |-> end]
        /\ << stream', conn' >> # << stream, conn >>
        /\ UNCHANGED << asked, queue, handles, peer, gate, ctx, cancel >>

(* SETTINGS are the first thing the peer sends; the protocol may be        *)
(* enabled later, and not disabled again                                   *)
Settings == CASE conn.known = "unknown"  -> {"unknown", "enabled", "disabled"}
              [] conn.known = "disabled" -> {"disabled", "enabled"}
              [] conn.known = "enabled"  -> {"enabled"}

Unanswered == {r \in Requests : stream[r].st = "open" /\ stream[r].resp = "none"}

(* Only a CONNECT tells a refusal from a success, and only CONNECT-UDP, an *)
(* extended one, a success that breaks the Capsule Protocol                *)
Answers(r) == {"success", "reset"} \cup (IF Tunnels(r) THEN {"refusal"} ELSE {})
                                  \cup (IF kind[r] = "extended" THEN {"malformed"} ELSE {})

Drives ==
    \E ext \in Settings :
        \/ \E break \in {"no", "error", "timeout", "goaway"} :
              Drive(ext, NoRequest, "none", break)
        \/ /\ ext # "unknown"
           /\ \E r \in Unanswered, break \in {"no", "error", "timeout", "goaway"} :
                \E answer \in Answers(r) : Drive(ext, r, answer, break)

(* The end of the poll.  A finished task is dropped, and its cancel_tx     *)
(* with it.  drop_rx is ready only when the dispatch task and all pipes    *)
(* are gone, and then nobody listens.                                      *)
PollEnds(settings) ==
    /\ conn' = [conn EXCEPT !.pc = IF conn.end # "no" THEN "gone" ELSE "idle"]
    /\ task' = [task EXCEPT !.woken = @ \/ settings \/ (conn.end # "no" /\ "eof" \in armed)]
    /\ armed' = IF conn.end # "no" THEN armed \ {"eof"} ELSE armed

PublishSlip ==
    /\ conn.pc = "publish"
    /\ IF conn.known \notin {"unknown", peer.ext}
       THEN /\ peer' = [peer EXCEPT !.ext = conn.known]
            /\ PollEnds(FALSE)
       ELSE PollEnds(FALSE) /\ UNCHANGED peer
    /\ UNCHANGED << asked, queue, handles, gate, ctx, sent >>

(* PeerSettings::publish, also after the last poll: the store, the wake *)
Publish ==
    /\ conn.pc = "publish"
    /\ IF conn.known \notin {"unknown", peer.ext}
       THEN /\ peer' = [peer EXCEPT !.ext = conn.known]
            /\ conn' = [conn EXCEPT !.pc = "wake"] /\ UNCHANGED << task, armed >>
       ELSE PollEnds(FALSE) /\ UNCHANGED peer
    /\ UNCHANGED << asked, queue, handles, gate, ctx, sent >>

PublishWake ==
    /\ conn.pc = "wake" /\ PollEnds(peer.waker)
    /\ peer' = [peer EXCEPT !.waker = FALSE]
    /\ UNCHANGED << asked, queue, handles, gate, ctx, sent >>

----------------------------------------------------------------------------
Dispatches ==
    \/ PollSettle \/ Register \/ Recheck \/ PollReady \/ PopEnabled \/ PollRecv
    \/ Check \/ SendRequest \/ PollReadyAgain \/ PollEof

Terminated ==
    /\ conn.pc = "gone" /\ task.pc = "dropped"
    /\ \A r \in Requests : when[r] \in {"none", "done"} /\ pipe[r] \in {"none", "done"}
    /\ UNCHANGED vars

Next ==
    \/ \E r \in Requests : \/ \E k \in Kinds : Send(r, k)
                           \/ Cancel(r) \/ BodyReady(r) \/ TunnelEnds(r)
                           \/ SendWhenPoll(r) \/ PipeMapPoll(r)
    \/ DropHandles \/ Dispatches \/ DropTask
    \/ Drives \/ Publish \/ PublishWake
    \/ Terminated

Spec == Init /\ [][Next]_vars

----------------------------------------------------------------------------
Asleep == task.pc = "idle" /\ ~task.woken

(* A request that is given back was never sent, so that its caller may     *)
(* send it again elsewhere, and an extended CONNECT is sent only to a      *)
(* server that enabled the protocol (ConnectGate).                         *)
GivenBackUnsent ==
    \A r \in Requests :
        /\ outcome[r] \in {"refused", "returned"} => stream[r].st = "none"
        /\ kind[r] = "extended" /\ stream[r].st # "none" => peer.ext = "enabled"

(* A parked request is never forgotten.  When the dispatch task sleeps on  *)
(* parked requests, it will be woken: the SETTINGS are unknown and its     *)
(* waker is in place, with no caller among them that has gone; or they     *)
(* have just been published and the wake follows; or the protocol is       *)
(* enabled and a stream waits for room.  A refusal never waits for room,   *)
(* and none sleeps through the end of the connection.                      *)
GateIsSettled ==
    Asleep /\ gate # << >> /\ conn.pc # "wake" =>
        /\ peer.ext = "unknown" => /\ peer.waker
                                   /\ \A r \in ToSet(gate) : ~Canceled(r)
        /\ peer.ext # "unknown" => peer.ext = "enabled" /\ ctx # NoRequest
        /\ conn.pc # "gone"

(* Keep-alive counts parked requests as use of the connection: what it is  *)
(* told (PeerSettings::parked) is what the gate holds.                     *)
ParkedIsPublished == peer.parked <=> gate # << >>

(* "Drop the returned future to cancel an in-flight request. If a stream   *)
(* has been opened, cancellation resets it": once its tasks have been      *)
(* polled, the stream of a canceled request that has no response is gone.  *)
CanceledIsReset ==
    \A r \in Requests :
        /\ Canceled(r) => when[r] # "parked"
        /\ Canceled(r) /\ when[r] = "done" /\ pipe[r] # "ready" /\ stream[r].resp = "none"
              => ~Live(stream[r])

(* A request parked when keep-alive gives the connection up is returned    *)
(* with the timeout, whichever of the two ends the dispatch task learns of *)
(* first, unless the application dropped the connection.                   *)
TimeoutIsBlamed ==
    [][conn.end = "timeout" /\ ~task'.abandoned =>
         \A r \in ToSet(gate) : outcome'[r] # "returned"]_vars

(* No caller is left waiting for nothing.  When no task is going to run,   *)
(* whoever still waits does so for the peer: for the answer on its open    *)
(* stream, for the SETTINGS, or for room, which the peer or an unfinished  *)
(* body or tunnel withholds.                                               *)
Quiet ==
    /\ Asleep \/ task.pc = "dropped"
    /\ conn.pc \in {"gone", "idle"}
    /\ \A r \in Requests : when[r] # "ready" /\ pipe[r] # "ready"
    /\ \A r \in Requests : stream[r].st = "pending" => OpenStreams(stream) = MaxStreams

NoRoom == ctx # NoRequest /\ stream[ctx].st = "pending"

NobodyIsForgotten ==
    Quiet => \A r \in Requests : outcome[r] = "waiting" =>
        \/ stream[r].st = "open" /\ stream[r].resp = "none" /\ conn.end = "no"
        \/ r \in ToSet(gate) /\ peer.ext = "unknown" /\ conn.end = "no"
        \/ r \in ToSet(gate \o queue) \cup {ctx} /\ NoRoom /\ conn.end = "no"

(* Whoever waits is remembered: a caller, by a task that will answer it;   *)
(* a parked request, by the gate, which is settled and which keep-alive    *)
(* sees.                                                                   *)
WaitersAreKept == NobodyIsForgotten /\ GateIsSettled /\ ParkedIsPublished
=============================================================================
