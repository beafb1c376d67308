---------------------------- MODULE Http1Client ----------------------------
(***************************************************************************)
(* The HTTP/1 connection task: the Dispatcher of proto/http1/dispatch.rs   *)
(* driving a connection (Http1State) for the request channel (Dispatch).   *)
(*                                                                         *)
(* One poll of the task is a walk of dpc: poll_read ("read"), poll_write   *)
(* ("write"), poll_flush ("flush"), the decision to go round again         *)
(* ("again"), the second poll_write of a round ("rewrite", "reflush") and  *)
(* the end of poll_inner ("finish").  Each turn of the loops in poll_read  *)
(* and poll_write is one step, and the peer, the application and the       *)
(* reader of the response body act between any two.  A parked task is      *)
(* polled again only after something it armed has woken it.                *)
(*                                                                         *)
(* Definitions that Next does not use are slips that the properties must   *)
(* notice; each stands before the definition it is a slip of.              *)
(***************************************************************************)
EXTENDS Http1State

CONSTANTS
    Requests,      \* the requests the application may send
    MaxFrames,     \* pieces that request bodies may have, in all
    MaxData,       \* pieces that response bodies may have, in all
    MaxStalls,     \* times the transport or a request body is not ready, in all
    MaxStrays,     \* messages or bytes the peer sends that answer nothing; a
                   \* connection has stalls or strays, not both
    Bodies,        \* how requests and responses may be framed
    QuietBody      \* a pending request body may become ready without a wake-up

ASSUME BoundsAssumption ==
    /\ {MaxFrames, MaxData, MaxStalls, MaxStrays} \subseteq Nat
    /\ QuietBody \in BOOLEAN
    /\ Bodies \subseteq {"none", "zero", "chunked", "sized", "framed", "close", "upgrade"}

VARIABLES
    want, buffered_once, queue, rx_open, tx, rx, callback, outcome, canceled, written,
    conn,          \* the connection, a record of Http1State
    body_tx,       \* the dispatcher feeds a response body
    body_rx,       \* the dispatcher drains a request body
    is_closing, is_aborted,
    dpc,           \* where the task is in its poll, or "parked" or "done"
    woken,         \* the task has been scheduled
    reader,        \* the application's end of the response body in progress
    complete,      \* history: the end of that body has been read
    order,         \* history: the requests in the order they were written
    answers,       \* history: for each request, which response it was given (0: none)
    bye,           \* history: this end or the peer has asked to close the connection
    left,          \* what is left of the bounds
    answered,      \* the requests the peer has answered
    sending        \* the framing of the response the peer is in, or "none"

channel == <<want, buffered_once, queue, rx_open, tx, rx, callback, outcome, canceled, written>>
streams == <<body_tx, body_rx, reader, complete>>
flags == <<is_closing, is_aborted>>
history == <<order, answers, bye>>
server == <<answered, sending>>
vars == <<channel, conn, streams, flags, dpc, woken, history, left, server>>

D == INSTANCE Dispatch

Sent == Bodies \cap {"none", "zero", "chunked", "sized"}
Received == Bodies \cap {"none", "framed", "close", "upgrade"}

Init ==
    /\ D!Init
    /\ conn = InitialConn
    /\ body_tx = FALSE /\ body_rx = FALSE
    /\ is_closing = FALSE /\ is_aborted = FALSE
    /\ dpc = "read" /\ woken = FALSE
    /\ reader = "none" /\ complete = FALSE
    /\ order = << >> /\ answers = [r \in Requests |-> 0] /\ bye = FALSE
    /\ \E stray \in BOOLEAN :
         left = [frames |-> MaxFrames, data |-> MaxData,
                 stalls |-> IF stray THEN 0 ELSE MaxStalls, strays |-> IF stray THEN MaxStrays ELSE 0]
    /\ answered = 0 /\ sending = "none"

Spend(what) == left[what] > 0 /\ left' = [left EXCEPT ![what] = @ - 1]

(* Something the task may have armed happens. *)
Wakes(source) ==
    /\ woken' = (woken \/ source \in conn.armed)
    /\ conn' = [conn EXCEPT !.armed = @ \ {source}]

(***************************************************************************)
(* poll_read.                                                              *)
(***************************************************************************)
Reads == dpc = "read" /\ ~is_closing

(* Dispatcher::close *)
Closed(c) == CloseWrite(CloseRead(c))

ReadClosing ==
    /\ dpc = "read" /\ is_closing
    /\ dpc' = "write"
    /\ UNCHANGED <<channel, conn, streams, flags, woken, history, left, server>>

ReadHeadForgotten ==
    /\ Reads /\ CanReadHead(conn)
    /\ callback \in canceled
    /\ callback' = D!NoRequest /\ outcome' = [outcome EXCEPT ![callback] = "gone"]
    /\ conn' = TryKeepAlive([conn EXCEPT !.reading = "KeepAlive"])
    /\ UNCHANGED <<want, buffered_once, queue, rx_open, tx, rx, canceled, written,
                   streams, flags, dpc, woken, history, left, server>>

(* Nobody awaits the response any more. *)
ReadHeadAbandoned ==
    /\ Reads /\ CanReadHead(conn)
    /\ callback \in canceled \cup {D!NoRequest}
    /\ IF callback \in canceled THEN D!NoticeCanceled ELSE UNCHANGED channel
    /\ is_aborted' = TRUE /\ is_closing' = TRUE
    /\ conn' = Closed(conn)
    /\ UNCHANGED <<streams, dpc, woken, history, left, server>>

Awaited == Reads /\ CanReadHead(conn) /\ callback \notin canceled \cup {D!NoRequest}

ReadHeadPending ==
    /\ Awaited /\ Got(conn) = "pending"
    /\ conn' = Arm(Fill(conn), "cancel")
    /\ dpc' = "write"
    /\ UNCHANGED <<channel, streams, flags, woken, history, left, server>>

ReadHeadMessageOnce ==
    /\ Awaited /\ Got(conn) = "data"
    /\ LET c == Arm(Fill(conn), "cancel")
           head == Head(c.read_buf)
       IN  /\ head.kind = "head"
           /\ conn' = ReadHead(c)
           /\ IF head.body \in {"framed", "close"}
              THEN body_tx' = TRUE /\ reader' = "hungry" /\ complete' = FALSE
              ELSE UNCHANGED <<body_tx, reader, complete>>
           /\ answers' = [answers EXCEPT ![callback] = head.answers]
           /\ bye' = (bye \/ ~head.keep_alive)
    /\ D!RecvResponse
    /\ dpc' = "write"
    /\ UNCHANGED <<body_rx, flags, woken, order, left, server>>

ReadHeadMessage ==
    /\ Awaited /\ Got(conn) = "data"
    /\ LET c == Arm(Fill(conn), "cancel")
           head == Head(c.read_buf)
       IN  /\ head.kind = "head"
           /\ conn' = ReadHead(c)
           /\ IF head.body \in {"framed", "close"}
              THEN body_tx' = TRUE /\ reader' = "hungry" /\ complete' = FALSE
              ELSE UNCHANGED <<body_tx, reader, complete>>
           /\ answers' = [answers EXCEPT ![callback] = head.answers]
           /\ bye' = (bye \/ ~head.keep_alive)
    /\ D!RecvResponse
    /\ UNCHANGED <<body_rx, flags, dpc, woken, order, left, server>>

(* on_read_head_error, and what poll_read_head does with its verdict. *)
ReadHeadError ==
    /\ Awaited
    /\ \/ Got(conn) \in {"eof", "error"}
       \/ Got(conn) = "data" /\ Head(Fill(conn).read_buf).kind # "head"
    /\ IF Got(conn) = "data" \/ ~IsIdle(conn) THEN D!RecvError ELSE UNCHANGED channel
    /\ conn' = Closed(Arm(Fill(conn), "cancel"))
    /\ is_closing' = TRUE
    /\ UNCHANGED <<streams, is_aborted, dpc, woken, history, left, server>>

Feeds == Reads /\ ~CanReadHead(conn) /\ body_tx

(* The reader of the body went away: drain or close. *)
ReadBodyUnwanted ==
    /\ Feeds /\ CanReadBody(conn) /\ reader = "dropped"
    /\ conn' = DrainOrCloseRead(Arm(conn, "reader"))
    /\ body_tx' = FALSE
    /\ UNCHANGED <<channel, body_rx, reader, complete, flags, dpc, woken, history, left, server>>

ReadBodyBlocked ==
    /\ Feeds /\ CanReadBody(conn) /\ reader = "full"
    /\ conn' = Arm(conn, "reader")
    /\ dpc' = "write"
    /\ UNCHANGED <<channel, streams, flags, woken, history, left, server>>

(* poll_read_body; when the reader goes away before send_data, the connection closes. *)
ReadBodyFrame ==
    /\ Feeds /\ CanReadBody(conn) /\ reader = "hungry"
    /\ LET c == Arm(conn, "reader") IN
       CASE BodyResult(c) = "pending" ->
                conn' = ReadBody(c) /\ dpc' = "write" /\ UNCHANGED <<body_tx, reader, complete>>
         [] BodyResult(c) = "data" ->
                /\ UNCHANGED <<dpc, complete>>
                /\ \/ conn' = ReadBody(c) /\ reader' = "full" /\ UNCHANGED body_tx
                   \/ conn' = CloseRead(ReadBody(c)) /\ reader' = "dropped" /\ body_tx' = FALSE
         [] BodyResult(c) = "end" ->
                conn' = ReadBody(c) /\ complete' = TRUE /\ UNCHANGED <<dpc, body_tx, reader>>
         [] OTHER ->
                /\ conn' = ReadBody(c) /\ body_tx' = FALSE /\ reader' = "error"
                /\ UNCHANGED <<dpc, complete>>
    /\ UNCHANGED <<channel, body_rx, flags, woken, history, left, server>>

(* The body is over and its sender is dropped, which ends it for the reader. *)
ReadBodyOver ==
    /\ Feeds /\ ~CanReadBody(conn)
    /\ body_tx' = FALSE
    /\ reader' = IF reader = "dropped" THEN reader ELSE "eof"
    /\ UNCHANGED <<channel, conn, body_rx, complete, flags, dpc, woken, history, left, server>>

ReadKeepAlive ==
    /\ Reads /\ ~CanReadHead(conn) /\ ~body_tx
    /\ conn' = KeepAliveRead(conn)
    /\ dpc' = IF KeepAliveReadFails(conn) THEN "failing" ELSE "write"
    /\ UNCHANGED <<channel, streams, flags, woken, history, left, server>>

(***************************************************************************)
(* poll_write, first or second in its round.                               *)
(***************************************************************************)
Writes == dpc \in {"write", "rewrite"}
AfterWriteSkippingFlush(ready) ==
    CASE dpc = "write" -> IF ready THEN "flush" ELSE "finish"
      [] dpc = "rewrite" -> IF ready THEN "loop" ELSE "reflush"

AfterWrite(ready) ==
    CASE dpc = "write" -> "flush"
      [] dpc = "rewrite" -> IF ready THEN "loop" ELSE "reflush"

Takes == Writes /\ ~is_closing /\ ~body_rx /\ CanWriteHead(conn) /\ callback = D!NoRequest

WriteClosing ==
    /\ Writes /\ is_closing
    /\ dpc' = AfterWrite(TRUE)
    /\ UNCHANGED <<channel, conn, streams, flags, woken, history, left, server>>

TakeRequest ==
    /\ Takes /\ queue # << >> /\ Head(queue) \notin canceled
    /\ D!PollMsg
    /\ \E body \in Sent, close \in BOOLEAN :
           /\ conn' = WriteHead(Arm(conn, "cancel"), Head(queue), body, close)
           /\ body_rx' = (body # "none")
           /\ bye' = (bye \/ close)
    /\ order' = Append(order, Head(queue))
    /\ UNCHANGED <<body_tx, reader, complete, flags, dpc, woken, answers, left, server>>

(* The queue is empty: poll_recv arms the task, then signals that it wants a request. *)
FindNoRequest ==
    /\ Takes /\ D!PollMsgEmpty
    /\ conn' = Arm(conn, "queue")
    /\ UNCHANGED <<streams, flags, dpc, woken, history, left, server>>

WantRequest ==
    /\ Writes /\ D!Want
    /\ dpc' = AfterWrite(FALSE)
    /\ UNCHANGED <<conn, streams, flags, woken, history, left, server>>

(* A canceled request, or no handle left to send one. *)
TakeNothing ==
    /\ Takes
    /\ \/ queue # << >> /\ Head(queue) \in canceled /\ D!PollMsg
       \/ D!PollMsgNone
    /\ is_closing' = TRUE
    /\ conn' = Closed(conn)
    /\ dpc' = AfterWrite(TRUE)
    /\ UNCHANGED <<streams, is_aborted, woken, history, left, server>>

(* poll_flush of the connection: all is written and flushed, or the        *)
(* transport takes a part and stalls, or it has failed.  It wakes the task *)
(* that it has stalled when it is ready again, and not before.             *)
FlushReady ==
    /\ "write" \notin conn.armed
    /\ conn.peer # "reset" \/ conn.write_buf = << >>
    /\ conn' = TryKeepAlive(Flushed(conn, Len(conn.write_buf)))
    /\ UNCHANGED left

FlushStalls ==
    /\ conn.peer # "reset"
    /\ \/ "write" \in conn.armed /\ UNCHANGED <<conn, left>>
       \/ /\ "write" \notin conn.armed /\ Spend("stalls")
          /\ \E n \in 0 .. Len(conn.write_buf) : conn' = Arm(Flushed(conn, n), "write")

FlushFails ==
    /\ conn.peer = "reset" /\ conn.write_buf # << >>
    /\ UNCHANGED <<conn, left>>

Streams == Writes /\ ~is_closing /\ ~Takes /\ rx # "sawEmpty"

WriteFull ==
    /\ Streams /\ ~CanBufferBody(conn)
    /\ \/ FlushReady /\ UNCHANGED dpc
       \/ FlushStalls /\ dpc' = AfterWrite(FALSE)
       \/ FlushFails /\ dpc' = "failing"
    /\ UNCHANGED <<channel, streams, flags, woken, history, server>>

Drains == Streams /\ CanBufferBody(conn) /\ body_rx

(* A body that is dropped wakes nobody. *)
NoBody(c) == [c EXCEPT !.armed = @ \ {"body"}]

(* The message needs no more body: forget it. *)
DropRequestBody ==
    /\ Drains /\ ~CanWriteBody(conn)
    /\ body_rx' = FALSE /\ conn' = NoBody(conn)
    /\ UNCHANGED <<channel, body_tx, reader, complete, flags, dpc, woken, history, left, server>>

Writer == order[Len(order)]

RequestBodyPending ==
    /\ Drains /\ CanWriteBody(conn)
    /\ \/ "body" \in conn.armed /\ UNCHANGED <<conn, left>>
       \/ "body" \notin conn.armed /\ Spend("stalls") /\ conn' = Arm(conn, "body")
    /\ dpc' = AfterWrite(FALSE)
    /\ UNCHANGED <<channel, streams, flags, woken, history, server>>

(* A pending body becomes ready by waking the task, unless it is a quiet one. *)
Yields == Drains /\ CanWriteBody(conn) /\ (QuietBody \/ "body" \notin conn.armed)

(* A frame of the request body: data that may complete the message; the    *)
(* last data, complete or short; trailers; the end; or an error.           *)
RequestBodyData ==
    /\ Yields /\ Spend("frames")
    /\ \/ \E fin \in {FALSE, conn.enc = "sized"} :
              conn' = WriteBody(conn, Writer, fin) /\ UNCHANGED body_rx
       \/ conn' = NoBody(WriteBody(conn, Writer, TRUE)) /\ body_rx' = FALSE
       \/ conn.enc = "sized" /\ conn' = NoBody(WriteShort(conn, Writer)) /\ body_rx' = FALSE
    /\ UNCHANGED <<channel, body_tx, reader, complete, flags, dpc, woken, history, server>>

RequestBodyTrailers ==
    /\ Yields
    /\ \/ conn.enc = "chunked" /\ conn' = NoBody(WriteBody(conn, Writer, TRUE))
       \/ conn' = NoBody(conn)
    /\ body_rx' = FALSE
    /\ UNCHANGED <<channel, body_tx, reader, complete, flags, dpc, woken, history, left, server>>

RequestBodyEnds ==
    /\ \/ Yields
       \/ Streams /\ CanBufferBody(conn) /\ ~body_rx /\ CanWriteBody(conn)
    /\ body_rx' = FALSE
    /\ conn' = NoBody(EndBody(conn, Writer))
    /\ dpc' = IF conn.enc = "sized" THEN "failing" ELSE dpc
    /\ UNCHANGED <<channel, body_tx, reader, complete, flags, woken, history, left, server>>

RequestBodyFails ==
    /\ Yields
    /\ body_rx' = FALSE /\ conn' = NoBody(conn)
    /\ dpc' = "failing"
    /\ UNCHANGED <<channel, body_tx, reader, complete, flags, woken, history, left, server>>

WriteNothing ==
    /\ Streams /\ CanBufferBody(conn) /\ ~body_rx /\ ~CanWriteBody(conn)
    /\ dpc' = AfterWrite(FALSE)
    /\ UNCHANGED <<channel, conn, streams, flags, woken, history, left, server>>

(***************************************************************************)
(* poll_flush, and whether to go round again.                              *)
(***************************************************************************)
Flush ==
    /\ dpc = "flush"
    /\ \/ FlushReady /\ dpc' = "again"
       \/ FlushStalls /\ dpc' = "againStalled"
       \/ FlushFails /\ dpc' = "failing"
    /\ UNCHANGED <<channel, streams, flags, woken, history, server>>

CanWriteAgain == ~is_closing /\ body_rx /\ CanWriteBody(conn)

(* The second condition of poll_loop asks for write_ready or flush_ready;  *)
(* the write is ready only when closing, and then CanWriteAgain is false.  *)
Again ==
    /\ dpc \in {"again", "againStalled"}
    /\ dpc' = CASE conn.notify_read -> "loop"
                [] ~conn.notify_read /\ CanWriteAgain /\ dpc = "again" -> "rewrite"
                [] OTHER -> "finish"
    /\ conn' = [conn EXCEPT !.notify_read = FALSE]
    /\ UNCHANGED <<channel, streams, flags, woken, history, left, server>>

ReflushNever ==
    /\ dpc = "reflush"
    /\ dpc' = "finish"
    /\ UNCHANGED <<channel, conn, streams, flags, woken, history, left, server>>

Reflush ==
    /\ dpc = "reflush"
    /\ \/ conn.write_buf = << >> /\ dpc' = "finish" /\ UNCHANGED <<conn, left>>
       \/ conn.write_buf # << >> /\ FlushReady /\ dpc' = "finish"
       \/ conn.write_buf # << >> /\ FlushStalls /\ dpc' = "finish"
       \/ conn.write_buf # << >> /\ FlushFails /\ dpc' = "failing"
    /\ UNCHANGED <<channel, streams, flags, woken, history, server>>

(* Round again, unless this poll has gone round sixteen times: then it     *)
(* wakes itself and yields.                                                *)
Loop ==
    /\ dpc = "loop"
    /\ \/ dpc' = "read" /\ UNCHANGED woken
       \/ dpc' = "parked" /\ woken' = TRUE
    /\ UNCHANGED <<channel, conn, streams, flags, history, left, server>>

(***************************************************************************)
(* The end of poll_inner, and poll_catch.                                  *)
(***************************************************************************)
IsDone == is_closing \/ conn.reading = "Closed"

Park ==
    /\ dpc = "finish" /\ ~IsDone
    /\ dpc' = "parked"
    /\ UNCHANGED <<channel, conn, streams, flags, woken, history, left, server>>

Shuts == ~conn.upgrade /\ ~is_aborted /\ ~CanWriteBody(conn)

Finish ==
    /\ dpc = "finish" /\ IsDone
    /\ \/ /\ ~Shuts
          /\ dpc' = IF conn.error THEN "failing" ELSE "done"
          /\ UNCHANGED <<conn, left>>
       \/ /\ Shuts /\ (conn.peer # "reset" \/ conn.write_buf = << >>)
          /\ conn' = Flushed(conn, Len(conn.write_buf))
          /\ dpc' = IF conn.error THEN "failing" ELSE "done"
          /\ UNCHANGED left
       \/ Shuts /\ FlushStalls /\ dpc' = "parked"
       \/ Shuts /\ FlushFails /\ dpc' = "failing"
    /\ UNCHANGED <<channel, streams, flags, woken, history, server>>

FailBody == reader' = IF body_tx /\ reader # "dropped" THEN "error" ELSE reader

(* poll_catch tells the body, then the exchange in flight, or else the     *)
(* first request in the queue of a channel that it closes.                 *)
Fail ==
    /\ dpc = "failing"
    /\ body_tx' = FALSE /\ FailBody
    /\ \/ D!RecvError /\ dpc' = "done"
       \/ callback = D!NoRequest /\ D!CancelTaker /\ dpc' = "closing"
       \/ rx = "drained" /\ UNCHANGED channel /\ dpc' = "done"
    /\ UNCHANGED <<conn, body_rx, complete, flags, woken, history, left, server>>

CloseChannel ==
    /\ dpc = "closing"
    /\ \/ D!Close /\ UNCHANGED dpc
       \/ D!ReturnQueued /\ dpc' = "done"
    /\ UNCHANGED <<conn, streams, flags, woken, history, left, server>>

DropTaskQuietly ==
    /\ dpc \in {"parked", "done"} /\ D!DropTask
    /\ body_tx' = FALSE /\ reader' = IF body_tx /\ reader # "dropped" THEN "eof" ELSE reader
    /\ dpc' = "dropped"
    /\ UNCHANGED <<conn, body_rx, complete, flags, woken, history, left, server>>

(* The finished task is dropped, or a parked one is when its runtime shuts *)
(* down; the guard tells the reader of a body that it is cut short.        *)
DropTask ==
    /\ dpc \in {"parked", "done"} /\ D!DropTask
    /\ body_tx' = FALSE /\ FailBody
    /\ dpc' = "dropped"
    /\ UNCHANGED <<conn, body_rx, complete, flags, woken, history, left, server>>

DropQueue ==
    /\ D!DropQueue
    /\ UNCHANGED <<conn, streams, flags, dpc, woken, history, left, server>>

(***************************************************************************)
(* The scheduler, the application and the peer.                            *)
(***************************************************************************)
Poll ==
    /\ dpc = "parked" /\ woken
    /\ dpc' = "read" /\ woken' = FALSE
    /\ UNCHANGED <<channel, conn, streams, flags, history, left, server>>

AppSends ==
    /\ \/ D!PollReady /\ UNCHANGED <<conn, woken>>
       \/ (\E r \in Requests : D!TrySend(r)) /\ UNCHANGED <<conn, woken>>
       \/ D!Push /\ Wakes("queue")
       \/ D!DropSender /\ Wakes("queue")
    /\ UNCHANGED <<streams, flags, dpc, history, left, server>>

AppCancels ==
    /\ \E r \in Requests :
           /\ D!CancelFuture(r)
           /\ IF r = callback THEN Wakes("cancel") ELSE UNCHANGED <<conn, woken>>
    /\ UNCHANGED <<streams, flags, dpc, history, left, server>>

ReaderTakes ==
    /\ reader = "full"
    /\ reader' = "hungry" /\ Wakes("reader")
    /\ UNCHANGED <<channel, body_tx, body_rx, complete, flags, dpc, history, left, server>>

ReaderDrops ==
    /\ reader \in {"hungry", "full"}
    /\ reader' = "dropped" /\ Wakes("reader")
    /\ UNCHANGED <<channel, body_tx, body_rx, complete, flags, dpc, history, left, server>>

(* The request body or the transport becomes ready again. *)
Unstall ==
    /\ \E source \in {"body", "write"} : source \in conn.armed /\ Wakes(source)
    /\ UNCHANGED <<channel, streams, flags, dpc, history, left, server>>

HeadPiece(n, body, keep) == [kind |-> "head", answers |-> n, body |-> body, keep_alive |-> keep]

Arrives(piece) ==
    /\ conn.peer = "open"
    /\ woken' = (woken \/ "read" \in conn.armed)
    /\ conn' = [conn EXCEPT !.armed = @ \ {"read"}, !.wire_in = Append(@, piece)]

HeadsSeen == Len(SelectSeq(conn.wire_out, LAMBDA p : p.head))

(* The peer answers the requests in order, as soon as it has seen a head. *)
PeerAnswers ==
    /\ sending = "none" /\ answered < HeadsSeen
    /\ \E body \in Received, keep \in BOOLEAN :
           /\ body = "upgrade" => ~keep
           /\ Arrives(HeadPiece(answered + 1, body, keep))
           /\ sending' = IF body \in {"framed", "close"} THEN body ELSE "none"
    /\ answered' = answered + 1
    /\ UNCHANGED <<channel, streams, flags, dpc, history, left>>

PeerStreams ==
    /\ \/ sending # "none" /\ Spend("data") /\ Arrives([kind |-> "data"]) /\ UNCHANGED sending
       \/ sending = "framed" /\ Arrives([kind |-> "end"]) /\ sending' = "none" /\ UNCHANGED left
    /\ UNCHANGED <<channel, streams, flags, dpc, history, answered>>

(* A response that answers nothing, or bytes that are no message. *)
PeerStrays ==
    /\ Spend("strays")
    /\ Arrives([kind |-> "junk"]) \/ (sending = "none" /\ Arrives(HeadPiece(0, "none", TRUE)))
    /\ UNCHANGED <<channel, streams, flags, dpc, history, server>>

PeerCloses ==
    /\ conn.peer = "open"
    /\ woken' = (woken \/ "read" \in conn.armed)
    /\ \E how \in {"eof", "reset"} :
           conn' = [conn EXCEPT !.armed = @ \ {"read"}, !.peer = how]
    /\ UNCHANGED <<channel, streams, flags, dpc, history, left, server>>

Terminated ==
    /\ D!Terminated
    /\ UNCHANGED vars

ReadNext ==
    \/ ReadClosing \/ ReadHeadAbandoned \/ ReadHeadPending \/ ReadHeadMessage \/ ReadHeadError
    \/ ReadBodyUnwanted \/ ReadBodyBlocked \/ ReadBodyFrame \/ ReadBodyOver \/ ReadKeepAlive

WriteNext ==
    \/ WriteClosing \/ TakeRequest \/ FindNoRequest \/ WantRequest \/ TakeNothing
    \/ WriteFull \/ DropRequestBody \/ RequestBodyPending \/ RequestBodyData
    \/ RequestBodyTrailers \/ RequestBodyEnds \/ RequestBodyFails \/ WriteNothing

EndNext ==
    \/ Flush \/ Again \/ Reflush \/ Loop \/ Park \/ Finish \/ Fail \/ CloseChannel

TaskNext == ReadNext \/ WriteNext \/ EndNext \/ Poll

EnvNext ==
    \/ AppSends \/ AppCancels \/ ReaderTakes \/ ReaderDrops \/ Unstall
    \/ PeerAnswers \/ PeerStreams \/ PeerStrays \/ PeerCloses

Next == TaskNext \/ DropTask \/ DropQueue \/ EnvNext \/ Terminated

Spec == Init /\ [][Next]_vars

(***************************************************************************)
(* Fairness.  A scheduled task runs and a finished one is dropped; a       *)
(* thread finishes the try_send it is in; the transport and a request body *)
(* that stalled become ready; the reader takes what it is given; and the   *)
(* peer answers every request it has seen and finishes every response.     *)
(* Nobody need ever send, cancel, close or drop anything else.             *)
(***************************************************************************)
FairSpec ==
    /\ Spec
    /\ WF_vars(TaskNext) /\ WF_vars(dpc = "done" /\ DropTask) /\ WF_vars(DropQueue)
    /\ WF_vars(tx \in Requests /\ AppSends)
    /\ WF_vars(Unstall) /\ WF_vars(ReaderTakes)
    /\ WF_vars(PeerAnswers) /\ WF_vars(PeerStreams) /\ WF_vars(sending = "close" /\ PeerCloses)

-----------------------------------------------------------------------------
(***************************************************************************)
(* Properties.                                                             *)
(***************************************************************************)

Parked == dpc = "parked" /\ ~woken

(* A parked task never sits on bytes it has buffered: the transport will   *)
(* wake it (poll_loop flushes what the second write of a round buffered).  *)
NoStrandedOutput == Parked /\ conn.write_buf # << >> => "write" \in conn.armed

(* A parked task never sits on input it could use: a response, body data   *)
(* for a reader with room, or the end of the connection (maybe_notify and  *)
(* wants_read_again).                                                      *)
NoStrandedInput ==
    Parked /\ (CanReadHead(conn) \/ (body_tx /\ CanReadBody(conn) /\ reader = "hungry"))
        => Got(conn) = "pending" /\ "read" \in conn.armed

(* A parked task whose connection is idle and flushed has asked for the    *)
(* next request (State::idle: "the Dispatcher should try the poll loop one *)
(* more time, so as to poll the pending requests stream").                 *)
IdleIsOffered ==
    Parked /\ ~IsMidMessage(conn) /\ conn.write_buf = << >>
        => "queue" \in conn.armed /\ queue = << >>

Stream == conn.wire_out \o conn.write_buf

(* What the connection sends is whole requests one after the other: a head *)
(* is only ever written at the start or after the end of the message       *)
(* before it, and each piece belongs to the message it follows.            *)
MessagesDoNotInterleave ==
    \A i \in 1 .. Len(Stream) :
        /\ Stream[i].head <=> (i = 1 \/ Stream[i - 1].fin)
        /\ ~Stream[i].head => Stream[i].req = Stream[i - 1].req

(* A peer that answers in order is understood in order: a request is given *)
(* the response to it and to no other.                                     *)
ResponseIsOwn ==
    \A i \in 1 .. Len(order) : answers[order[i]] \in {0, i}

(* No request follows a message that asked to close the connection,        *)
(* whichever side sent it (encode_head, keep_alive &= msg.keep_alive).     *)
NoReuseAfterClose == Len(order') > Len(order) => ~bye

(* No request is written on a connection that holds bytes which came       *)
(* before it, so that they cannot be taken for its response                *)
(* (require_empty_read).  Bytes that come while the body of a request is   *)
(* being streamed stay in the buffer (mid_message_detect_eof), so this is  *)
(* said of connections that have not streamed one.                         *)
CleanStart ==
    Len(order') > Len(order) /\ left.frames = MaxFrames => conn.read_buf = << >>

(* A connection that carried an exchange is used for another only when     *)
(* neither end has asked to close it and, but for what CleanStart leaves   *)
(* out, nothing of the earlier one is left to be read on it.               *)
ReuseIsSafe == [][NoReuseAfterClose /\ CleanStart]_vars

(* A reader that sees the end of a body without an error has been given    *)
(* all of it (poll_catch, SenderGuard).                                    *)
CleanEndIsComplete == reader = "eof" => complete

(* Every request that is accepted is answered, because the task never      *)
(* parks while there is something it must do for it (the wake-ups of       *)
(* poll_loop, and the promises of Dispatch).                               *)
EveryRequestAnswered ==
    \A r \in Requests : outcome[r] \in D!Pending ~> outcome[r] \in D!Settled
=============================================================================
