------------------------------ MODULE Dispatch ------------------------------
(***************************************************************************)
(* The request channel of dispatch.rs between a SendRequest handle and the *)
(* HTTP/1 connection task: an unbounded mpsc queue that the `want` signal  *)
(* keeps short, and the promise each caller waits on.  The connection      *)
(* task's half is the Client of proto/http1/dispatch.rs; the connection it *)
(* serves is only the moments when a response or an error arrives.         *)
(*                                                                         *)
(* The two halves run in different threads, so each call that touches both *)
(* the signal and the queue is two steps.                                  *)
(*                                                                         *)
(* Definitions that Next does not use are slips that the properties must   *)
(* notice; each stands before the definition it is a slip of.              *)
(***************************************************************************)
EXTENDS Naturals, Sequences

CONSTANT Requests    \* the requests the application may send

VARIABLES
    want,             \* the want signal: "Idle", "Want", "Give" or "Closed"
    buffered_once,    \* the one message allowed without a signal was used
    queue,            \* the mpsc queue
    rx_open,          \* the mpsc receiver has not been closed
    tx,               \* the sender: "idle", "dropped", or the request it is about to queue
    rx,               \* where the connection task is in its use of the receiver
    callback,         \* the request whose response the task waits for, or NoRequest
    outcome,          \* what each request's caller has been told
    canceled,         \* the requests whose callers stopped waiting
    written           \* history: the requests handed to the connection's encoder

vars == <<want, buffered_once, queue, rx_open, tx, rx, callback, outcome, canceled, written>>

NoRequest == "none"

(* "refused" and "returned" give the request back; "error" and "gone" do   *)
(* not; "queued" and "taken" are still waiting.                            *)
Pending == {"queued", "taken"}
GivenBack == {"refused", "returned"}
Settled == GivenBack \cup {"response", "error", "gone"}
RxStates ==
    {"idle", "sawEmpty", "canceled", "closed", "ending", "drained", "dropping", "gone"}

(* The requests in the queue. *)
Queued == {queue[i] : i \in 1 .. Len(queue)}

ASSUME RequestsAssumption == Requests \cap {"idle", "dropped", NoRequest} = {}

Init ==
    /\ want = "Idle" /\ buffered_once = FALSE
    /\ queue = << >> /\ rx_open = TRUE
    /\ tx = "idle" /\ rx = "idle" /\ callback = NoRequest
    /\ outcome = [r \in Requests |-> "new"]
    /\ canceled = {} /\ written = {}

(***************************************************************************)
(* The SendRequest handle.                                                 *)
(***************************************************************************)

(* poll_ready parks its task in the signal when there is nothing to give to. *)
PollReady ==
    /\ tx = "idle" /\ want = "Idle"
    /\ want' = "Give"
    /\ UNCHANGED <<buffered_once, queue, rx_open, tx, rx, callback, outcome, canceled, written>>

TrySendUngated(r) ==
    /\ tx = "idle" /\ outcome[r] = "new"
    /\ tx' = r
    /\ UNCHANGED <<want, buffered_once, queue, rx_open, rx, callback, outcome, canceled, written>>

(* try_send, up to the mpsc send: take the signal or use the one free pass. *)
TrySend(r) ==
    /\ tx = "idle" /\ outcome[r] = "new"
    /\ want' = IF want = "Want" THEN "Idle" ELSE want
    /\ buffered_once' = TRUE
    /\ IF want = "Want" \/ ~buffered_once
       THEN tx' = r /\ UNCHANGED outcome
       ELSE outcome' = [outcome EXCEPT ![r] = "refused"] /\ UNCHANGED tx
    /\ UNCHANGED <<queue, rx_open, rx, callback, canceled, written>>

PushAnyway ==
    /\ tx \in Requests
    /\ tx' = "idle"
    /\ queue' = Append(queue, tx)
    /\ outcome' = [outcome EXCEPT ![tx] = "queued"]
    /\ UNCHANGED <<want, buffered_once, rx_open, rx, callback, canceled, written>>

(* The mpsc send that ends try_send; a closed receiver gives the value back. *)
Push ==
    /\ tx \in Requests
    /\ tx' = "idle"
    /\ queue' = IF rx_open THEN Append(queue, tx) ELSE queue
    /\ outcome' = [outcome EXCEPT ![tx] = IF rx_open THEN "queued" ELSE "refused"]
    /\ UNCHANGED <<want, buffered_once, rx_open, rx, callback, canceled, written>>

DropSender ==
    /\ tx = "idle"
    /\ tx' = "dropped"
    /\ UNCHANGED <<want, buffered_once, queue, rx_open, rx, callback, outcome, canceled, written>>

(* A caller drops the future of a request that is still on its way. *)
CancelFuture(r) ==
    /\ outcome[r] \in Pending /\ r \notin canceled
    /\ canceled' = canceled \cup {r}
    /\ UNCHANGED <<want, buffered_once, queue, rx_open, tx, rx, callback, outcome, written>>

(***************************************************************************)
(* The connection task.                                                    *)
(***************************************************************************)

(* poll_msg takes a request for the encoder, and waits for its response;   *)
(* one canceled in the queue is dropped and ends the connection.           *)
PollMsg ==
    /\ rx = "idle" /\ callback = NoRequest /\ queue # << >>
    /\ queue' = Tail(queue)
    /\ LET r == Head(queue) IN
       IF r \in canceled
       THEN /\ outcome' = [outcome EXCEPT ![r] = "gone"]
            /\ rx' = "ending"
            /\ UNCHANGED <<callback, written>>
       ELSE /\ outcome' = [outcome EXCEPT ![r] = "taken"]
            /\ callback' = r
            /\ written' = written \cup {r}
            /\ UNCHANGED rx
    /\ UNCHANGED <<want, buffered_once, rx_open, tx, canceled>>

(* poll_recv found the queue empty; it has yet to signal. *)
PollMsgEmpty ==
    /\ rx = "idle" /\ callback = NoRequest /\ queue = << >> /\ tx # "dropped"
    /\ rx' = "sawEmpty"
    /\ UNCHANGED <<want, buffered_once, queue, rx_open, tx, callback, outcome, canceled, written>>

Want ==
    /\ rx = "sawEmpty"
    /\ rx' = "idle"
    /\ want' = "Want"
    /\ UNCHANGED <<buffered_once, queue, rx_open, tx, callback, outcome, canceled, written>>

(* Every handle is gone and the queue is empty: the connection may end. *)
PollMsgNone ==
    /\ rx = "idle" /\ callback = NoRequest /\ queue = << >> /\ tx = "dropped"
    /\ rx' = "drained"
    /\ UNCHANGED <<want, buffered_once, queue, rx_open, tx, callback, outcome, canceled, written>>

RecvResponse ==
    /\ rx = "idle" /\ callback # NoRequest
    /\ outcome' = [outcome EXCEPT ![callback] = "response"]
    /\ callback' = NoRequest
    /\ UNCHANGED <<want, buffered_once, queue, rx_open, tx, rx, canceled, written>>

(* poll_ready of Client: the caller of the exchange in flight went away. *)
NoticeCanceled ==
    /\ rx = "idle" /\ callback \in canceled
    /\ rx' = "ending"
    /\ UNCHANGED <<want, buffered_once, queue, rx_open, tx, callback, outcome, canceled, written>>

RecvErrorReturning ==
    /\ rx \in {"idle", "ending"} /\ callback # NoRequest
    /\ outcome' = [outcome EXCEPT ![callback] = "returned"]
    /\ callback' = NoRequest
    /\ rx' = "ending"
    /\ UNCHANGED <<want, buffered_once, queue, rx_open, tx, canceled, written>>

(* recv_msg(Err) with an exchange in flight: its caller gets the error. *)
RecvError ==
    /\ rx \in {"idle", "ending"} /\ callback # NoRequest
    /\ outcome' = [outcome EXCEPT ![callback] = "error"]
    /\ callback' = NoRequest
    /\ rx' = "ending"
    /\ UNCHANGED <<want, buffered_once, queue, rx_open, tx, canceled, written>>

(* recv_msg(Err) with none: close in two steps, then empty the queue of one. *)
CancelTaker ==
    /\ rx \in {"idle", "ending"} /\ callback = NoRequest
    /\ rx' = "canceled"
    /\ want' = "Closed"
    /\ UNCHANGED <<buffered_once, queue, rx_open, tx, callback, outcome, canceled, written>>

Close ==
    /\ rx = "canceled"
    /\ rx' = "closed"
    /\ rx_open' = FALSE
    /\ UNCHANGED <<want, buffered_once, queue, tx, callback, outcome, canceled, written>>

ReturnQueued ==
    /\ rx = "closed"
    /\ rx' = "drained"
    /\ IF queue = << >> THEN UNCHANGED <<queue, outcome>>
       ELSE /\ outcome' = [outcome EXCEPT ![Head(queue)] = "returned"]
            /\ queue' = Tail(queue)
    /\ UNCHANGED <<want, buffered_once, rx_open, tx, callback, canceled, written>>

(* The task ends, or its runtime drops it: the callback goes first, then   *)
(* Receiver::drop cancels the signal.                                      *)
DropTaskForgettingWant ==
    /\ rx \in {"idle", "ending", "drained"}
    /\ rx' = "dropping"
    /\ outcome' = IF callback = NoRequest THEN outcome ELSE [outcome EXCEPT ![callback] = "gone"]
    /\ callback' = NoRequest
    /\ UNCHANGED <<want, buffered_once, queue, rx_open, tx, canceled, written>>

DropTask ==
    /\ rx \in {"idle", "ending", "drained"}
    /\ rx' = "dropping"
    /\ outcome' = IF callback = NoRequest THEN outcome ELSE [outcome EXCEPT ![callback] = "gone"]
    /\ callback' = NoRequest
    /\ want' = "Closed"
    /\ UNCHANGED <<buffered_once, queue, rx_open, tx, canceled, written>>

DropQueueSilently ==
    /\ rx = "dropping"
    /\ rx' = "gone"
    /\ rx_open' = FALSE
    /\ queue' = << >>
    /\ UNCHANGED <<want, buffered_once, tx, callback, outcome, canceled, written>>

(* The mpsc receiver is dropped; every Envelope in it returns its request. *)
DropQueue ==
    /\ rx = "dropping"
    /\ rx' = "gone"
    /\ rx_open' = FALSE
    /\ queue' = << >>
    /\ outcome' = [r \in Requests |-> IF r \in Queued THEN "returned" ELSE outcome[r]]
    /\ UNCHANGED <<want, buffered_once, tx, callback, canceled, written>>

Terminated ==
    /\ rx = "gone" /\ tx = "dropped"
    /\ UNCHANGED vars

CallerNext ==
    \/ PollReady \/ Push \/ DropSender
    \/ \E r \in Requests : TrySend(r) \/ CancelFuture(r)

TaskNext ==
    \/ PollMsg \/ PollMsgEmpty \/ Want \/ PollMsgNone
    \/ RecvResponse \/ NoticeCanceled \/ RecvError
    \/ CancelTaker \/ Close \/ ReturnQueued
    \/ DropTask \/ DropQueue

Next == CallerNext \/ TaskNext \/ Terminated

Spec == Init /\ [][Next]_vars

(***************************************************************************)
(* Fairness.  The connection task is polled when a request arrives, after  *)
(* an exchange ends, and once it has begun to close; it re-polls an empty  *)
(* queue only until it has signalled.  The caller's thread finishes the    *)
(* try_send it is in.  The peer answers an exchange, or the connection     *)
(* fails; nobody need ever drop the task or the handle.                    *)
(***************************************************************************)
TaskRuns ==
    \/ PollMsg \/ (want # "Want" /\ PollMsgEmpty) \/ Want \/ PollMsgNone
    \/ Close \/ ReturnQueued
    \/ (rx # "idle" /\ DropTask) \/ DropQueue

ExchangeEnds == RecvResponse \/ NoticeCanceled \/ RecvError

FairSpec == Spec /\ WF_vars(TaskRuns) /\ WF_vars(ExchangeEnds) /\ WF_vars(Push)

-----------------------------------------------------------------------------
(***************************************************************************)
(* Properties.                                                             *)
(***************************************************************************)

(* Type correctness; a request is in the queue once.                       *)
TypeOK ==
    /\ want \in {"Idle", "Want", "Give", "Closed"}
    /\ buffered_once \in BOOLEAN /\ rx_open \in BOOLEAN
    /\ queue \in Seq(Requests)
    /\ \A i, j \in 1 .. Len(queue) : queue[i] = queue[j] => i = j
    /\ tx \in Requests \cup {"idle", "dropped"}
    /\ rx \in RxStates
    /\ callback \in Requests \cup {NoRequest}
    /\ outcome \in [Requests -> Pending \cup Settled \cup {"new"}]
    /\ canceled \in SUBSET Requests /\ written \in SUBSET Requests

(* A request that is given back was never handed to the encoder, so the    *)
(* caller may retry it elsewhere (TrySendError, "A returned request was    *)
(* never sent").                                                           *)
ReturnedUnsent == \A r \in Requests : outcome[r] \in GivenBack => r \notin written

(* Somebody holds the promise of every caller that waits: the request is   *)
(* in the queue of a task that still exists, or is the exchange in flight. *)
PendingIsHeld ==
    \A r \in Requests :
        /\ outcome[r] = "queued" <=> r \in Queued
        /\ outcome[r] = "taken" <=> r = callback
        /\ outcome[r] \in Pending => rx # "gone"

(* The unbounded queue is bounded: a poll of the empty queue that races    *)
(* with two sends lets a third request in, and no more (try_send against   *)
(* poll_recv and its want).                                                *)
QueueBound == Len(queue) <= 3

(* The signal is cancelled before the queue is closed, so that a handle    *)
(* never reports ready for a connection that takes no more requests.       *)
NeverReadyWhenClosed == want = "Want" => rx_open

(* Every request that try_send accepts is answered.                        *)
EveryRequestAnswered ==
    \A r \in Requests : tx = r \/ outcome[r] \in Pending ~> outcome[r] \in Settled

(* A task parked in poll_ready is woken: by the next signal or by the end  *)
(* of the connection.                                                      *)
ReadyIsAnswered == want = "Give" ~> want # "Give"

(* A request that is accepted is kept: there is room for it, someone will  *)
(* answer it, and it comes back only unsent.                               *)
RequestsAreKept == ReturnedUnsent /\ PendingIsHeld /\ QueueBound
=============================================================================
