----------------------------- MODULE Http1State -----------------------------
(***************************************************************************)
(* The state of one HTTP/1 connection (proto/http1/conn.rs) over its       *)
(* buffered transport (proto/http1/io.rs), as a record, and what each of   *)
(* its operations makes of that record.                                    *)
(*                                                                         *)
(* What travels on the wire is cut into the pieces that the state machine  *)
(* tells apart.  From the peer: a message head, body data, the frame that  *)
(* ends a body, or bytes that parse as none of these.  To the peer: pieces *)
(* of the request, of which one is the head and one ends the message.      *)
(*                                                                         *)
(* Definitions that nothing uses are slips that the properties must        *)
(* notice; each stands before the definition it is a slip of.              *)
(***************************************************************************)
EXTENDS Naturals, Sequences

CONSTANTS
    QueueStrategy,    \* WriteStrategy::Queue (vectored transport) or Flatten
    BufCap            \* the pieces the write buffer holds before it must be flushed

ASSUME StateAssumption == QueueStrategy \in BOOLEAN /\ BufCap \in Nat \ {0}

(* Conn::new over a fresh transport.  armed: what will wake the task;      *)
(* wire_in, wire_out and peer are the transport, seen from this end.       *)
InitialConn ==
    [reading |-> "Init", writing |-> "Init", dec |-> "framed", enc |-> "chunked",
     keep_alive |-> "Busy", notify_read |-> FALSE, error |-> FALSE, upgrade |-> FALSE,
     read_buf |-> << >>, read_blocked |-> FALSE, write_buf |-> << >>, armed |-> {},
     wire_in |-> << >>, wire_out |-> << >>, peer |-> "open"]

Arm(c, source) == [c EXCEPT !.armed = @ \cup {source}]

(***************************************************************************)
(* Closing and keep-alive.                                                 *)
(***************************************************************************)
StateClose(c) == [c EXCEPT !.reading = "Closed", !.writing = "Closed", !.keep_alive = "Disabled"]
CloseRead(c) == [c EXCEPT !.reading = "Closed", !.keep_alive = "Disabled"]
CloseWrite(c) == [c EXCEPT !.writing = "Closed", !.keep_alive = "Disabled"]

Busy(c) == IF c.keep_alive = "Disabled" THEN c ELSE [c EXCEPT !.keep_alive = "Busy"]
DisableKeepAlive(c) == [c EXCEPT !.keep_alive = "Disabled"]
IsIdle(c) == c.keep_alive = "Idle"

Idle(c) ==
    [c EXCEPT !.reading = "Init", !.writing = "Init", !.keep_alive = "Idle", !.notify_read = TRUE]

StateTryKeepAlive(c) ==
    CASE c.reading = "KeepAlive" /\ c.writing = "KeepAlive" ->
             IF c.keep_alive = "Busy" THEN Idle(c) ELSE StateClose(c)
      [] c.reading = "Closed" /\ c.writing = "KeepAlive" -> StateClose(c)
      [] c.reading = "KeepAlive" /\ c.writing = "Closed" -> StateClose(c)
      [] OTHER -> c

(***************************************************************************)
(* Reading from the transport.                                             *)
(***************************************************************************)
IoResult(c) ==
    CASE c.peer = "reset" -> "error"
      [] c.peer # "reset" /\ c.wire_in # << >> -> "data"
      [] c.peer = "eof" /\ c.wire_in = << >> -> "eof"
      [] OTHER -> "pending"

PollReadFromIo(c) ==
    CASE IoResult(c) = "pending" -> [Arm(c, "read") EXCEPT !.read_blocked = TRUE]
      [] IoResult(c) = "data" ->
             [c EXCEPT !.read_blocked = FALSE, !.read_buf = @ \o c.wire_in, !.wire_in = << >>]
      [] OTHER -> [c EXCEPT !.read_blocked = FALSE]

(* A read through the buffer: the transport is asked only when the buffer is empty. *)
Got(c) == IF c.read_buf = << >> THEN IoResult(c) ELSE "data"
Fill(c) == IF c.read_buf = << >> THEN PollReadFromIo(c) ELSE c
Pop(c) == [c EXCEPT !.read_buf = Tail(@)]

MaybeNotify(c) ==
    IF c.reading # "Init" \/ c.writing = "Body" \/ c.read_blocked THEN c
    ELSE LET f == Fill(c) IN
         CASE Got(c) = "data" -> [f EXCEPT !.notify_read = TRUE]
           [] Got(c) = "pending" -> f
           [] Got(c) = "eof" -> IF IsIdle(f) THEN StateClose(f) ELSE CloseRead(f)
           [] OTHER -> [StateClose(f) EXCEPT !.error = TRUE, !.notify_read = TRUE]

TryKeepAlive(c) == MaybeNotify(StateTryKeepAlive(c))

CanReadHead(c) == c.reading = "Init" /\ c.writing # "Init"
CanReadBody(c) == c.reading = "Body"
IsMidMessage(c) == ~(c.reading = "Init" /\ c.writing = "Init")

(* poll_read_head, once a head is at the front of the buffer. *)
ReadHeadForgettingClose(c) ==
    LET head == Head(c.read_buf)
        b == [Busy(Pop(c)) EXCEPT !.upgrade = @ \/ head.body = "upgrade"]
    IN  IF head.body \in {"none", "upgrade"}
        THEN TryKeepAlive([b EXCEPT !.reading = "KeepAlive"])
        ELSE [b EXCEPT !.reading = "Body", !.dec = head.body]

ReadHead(c) ==
    LET head == Head(c.read_buf)
        b == [Busy(Pop(c)) EXCEPT !.upgrade = @ \/ head.body = "upgrade"]
        k == IF head.keep_alive THEN b ELSE DisableKeepAlive(b)
    IN  IF head.body \in {"none", "upgrade"}
        THEN TryKeepAlive([k EXCEPT !.reading = "KeepAlive"])
        ELSE [k EXCEPT !.reading = "Body", !.dec = head.body]

(* poll_read_body: what it returns, and the connection it leaves.  A body  *)
(* that ends with the connection takes every piece for data.               *)
BodyResult(c) ==
    LET t == Head(Fill(c).read_buf).kind IN
    CASE Got(c) = "data" -> IF t = "data" \/ c.dec = "close" THEN "data"
                            ELSE IF t = "end" THEN "end" ELSE "error"
      [] Got(c) = "eof" -> IF c.dec = "close" THEN "end" ELSE "error"
      [] OTHER -> Got(c)

ReadBody(c) ==
    LET f == IF Got(c) = "data" THEN Pop(Fill(c)) ELSE Fill(c) IN
    CASE BodyResult(c) = "end" -> TryKeepAlive([f EXCEPT !.reading = "KeepAlive"])
      [] BodyResult(c) = "error" -> TryKeepAlive([f EXCEPT !.reading = "Closed"])
      [] OTHER -> f

(* poll_drain_or_close_read: one more read, and then the body is over or the connection is. *)
DrainOrCloseRead(c) ==
    LET d == ReadBody(c) IN IF d.reading \in {"Init", "KeepAlive"} THEN d ELSE CloseRead(d)

(* poll_read_keep_alive: whether it fails, and the connection it leaves.   *)
(* Between messages any input but the end of an idle connection is an      *)
(* error (require_empty_read); within one, only the end is                 *)
(* (mid_message_detect_eof).                                               *)
KeepAliveReadIgnoresData(c) ==
    /\ c.reading # "Closed"
    /\ CASE Got(c) = "eof" -> IsMidMessage(c) \/ ~IsIdle(c)
         [] OTHER -> Got(c) = "error"

KeepAliveReadFails(c) ==
    /\ c.reading # "Closed"
    /\ CASE Got(c) = "pending" -> FALSE
         [] Got(c) = "data" -> ~IsMidMessage(c)
         [] Got(c) = "eof" -> IsMidMessage(c) \/ ~IsIdle(c)
         [] OTHER -> TRUE

KeepAliveRead(c) ==
    IF c.reading = "Closed" THEN c
    ELSE CASE Got(c) = "eof" -> CloseRead(Fill(c))
           [] Got(c) = "error" -> StateClose(Fill(c))
           [] OTHER -> Fill(c)

(***************************************************************************)
(* Writing.                                                                *)
(***************************************************************************)
Piece(r, head, fin) == [req |-> r, head |-> head, fin |-> fin]

Buffer(c, piece) == [c EXCEPT !.write_buf = Append(@, piece)]

CanBufferBody(c) == Len(c.write_buf) < BufCap
CanHeadersBuf(c) == QueueStrategy => \A i \in 1 .. Len(c.write_buf) : c.write_buf[i].head
CanWriteHead(c) == c.reading # "Closed" /\ c.writing = "Init" /\ CanHeadersBuf(c)
CanWriteBody(c) == c.writing = "Body"

(* write_head for a request whose body will be sent as `body`, with or     *)
(* without Connection: close.  Only a chunked or a sized body leaves the   *)
(* message open.                                                           *)
WriteHead(c, r, body, close) ==
    LET b == IF close THEN DisableKeepAlive(Busy(c)) ELSE Busy(c)
        open == body \in {"chunked", "sized"}
    IN  [Buffer(b, Piece(r, TRUE, ~open)) EXCEPT
            !.writing = IF open THEN "Body" ELSE "KeepAlive", !.enc = body]

(* One piece of the body.  fin: it completes the message, either because   *)
(* it is the last chunk or because it exhausts the announced length.       *)
WriteBody(c, r, fin) ==
    [Buffer(c, Piece(r, FALSE, fin)) EXCEPT !.writing = IF fin THEN "KeepAlive" ELSE "Body"]

(* write_body_and_end with less than the announced length. *)
WriteShort(c, r) == [Buffer(c, Piece(r, FALSE, FALSE)) EXCEPT !.writing = "Closed"]

EndBodySilently(c, r) ==
    IF c.enc = "chunked" THEN [c EXCEPT !.writing = "KeepAlive"] ELSE [c EXCEPT !.writing = "Closed"]

(* end_body: a chunked body gets its last chunk; a sized one that reaches  *)
(* this is short, which is an error.                                       *)
EndBody(c, r) == IF c.enc = "chunked" THEN WriteBody(c, r, TRUE) ELSE [c EXCEPT !.writing = "Closed"]

(* The transport accepts the first n pieces. *)
Flushed(c, n) ==
    [c EXCEPT !.wire_out = @ \o SubSeq(c.write_buf, 1, n),
              !.write_buf = SubSeq(@, n + 1, Len(@))]
=============================================================================
