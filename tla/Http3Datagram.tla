--------------------------- MODULE Http3Datagram ---------------------------
(***************************************************************************)
(* HTTP Datagrams over one HTTP/3 connection: the registry of sessions     *)
(* (proto/http3/datagram.rs), the driver that the connection task polls,   *)
(* and the senders and receivers an application holds                      *)
(* (conn/http3/datagram.rs).                                               *)
(*                                                                         *)
(* What happens under the registry's lock is one step.  The wakes that     *)
(* follow an unlock are owed: each is delivered in a later step of its     *)
(* own.  A queued packet is its size.                                      *)
(*                                                                         *)
(* Definitions that Next does not use are slips that the properties must   *)
(* notice; each stands before the definition it is a slip of.              *)
(***************************************************************************)
EXTENDS Integers, SequencesExt, FiniteSetsExt, TLC

CONSTANTS
    Sessions,           \* Quarter Stream IDs of the requests
    Senders, On,        \* the Sender handles, and the session of each
    PACKETS, SESSION_BYTES, CONNECTION_BYTES,
    Payloads,           \* sizes of what an application sends
    Arrivals,           \* sizes of what a peer sends
    Limits,             \* what the transport gives as max_datagram_size
    Work,               \* packets per direction in one poll of the driver (32)
    Uses                \* which of the handles the applications use: a bound for TLC

ASSUME DatagramAssumption ==
    /\ Sessions \subseteq Nat /\ On \in [Senders -> Sessions]
    /\ PACKETS \in Nat \ {0} /\ SESSION_BYTES \in Nat /\ CONNECTION_BYTES \in Nat /\ Work \in Nat \ {0}
    /\ Uses \subseteq [senders : SUBSET Senders, waiters : SUBSET Senders, readers : SUBSET Sessions]
    /\ Payloads \subseteq Nat /\ Arrivals \subseteq Nat /\ Limits \subseteq Int

VARIABLES
    streams,        \* the entries of the registered sessions
    ready,          \* the round robin of sessions that have something to send
    incoming, outgoing,     \* bytes queued for the connection
    max_size, negotiated, closed,
    met,            \* the sessions registered so far
    invalid, abort, \* of each request: its token, and why it was aborted
    aborting,       \* of each session: what is left of an abort
    sender,         \* of each Sender: where its poll is, for what, and its Notified
    receiver,       \* of each Receiver: where its poll is
    received,       \* of each request: the waker of its receiver, and whether it was woken
    driver,         \* where its poll is, its loop index and the packet in hand
    waker, woken,   \* the registry's waker; the connection task will be polled
    blocked,        \* the transport takes no packet, and will wake the task when it does
    owed,           \* wakes of those who have left the lock
    use             \* the handles in use: who sends, who of them waits, who receives

state == <<streams, ready, incoming, outgoing, max_size, negotiated, closed>>
requests == <<met, invalid, abort, aborting>>
task == <<driver, waker, woken, blocked>>
dgVars == <<state, requests, sender, receiver, received, task, owed, use>>

None == -1      \* no max_datagram_size; no packet
READY == -1     \* poll_ready rather than poll_send

Entry(semantics) ==
    [semantics |-> semantics, send_open |-> TRUE, recv_open |-> TRUE,
     incoming |-> <<>>, outgoing |-> <<>>, incoming_bytes |-> 0, outgoing_bytes |-> 0]

DatagramInit ==
    /\ use \in Uses
    /\ streams = <<>> /\ ready = <<>> /\ incoming = 0 /\ outgoing = 0
    /\ max_size \in (IF use.senders = {} THEN {None} ELSE Limits) /\ negotiated = FALSE /\ closed = FALSE
    /\ met = {}
    /\ invalid = [q \in Sessions |-> FALSE] /\ abort = [q \in Sessions |-> "none"]
    /\ aborting = [q \in Sessions |-> "no"]
    /\ sender = [s \in Senders |-> [pc |-> "idle", size |-> READY, waiting |-> "none"]]
    /\ receiver = [q \in Sessions |-> "none"]
    /\ received = [q \in Sessions |-> [waker |-> FALSE, woken |-> FALSE]]
    /\ driver = [pc |-> "parked", index |-> 0, id |-> None]
    /\ waker = FALSE /\ woken = TRUE /\ blocked = FALSE
    /\ owed = [driver |-> FALSE, room |-> FALSE, recv |-> {}]

Registered(q) == q \in DOMAIN streams
SendOpen(q) == Registered(q) /\ streams[q].send_open

Owes(d, r, rs) ==
    owed' = [driver |-> owed.driver \/ d, room |-> owed.room \/ r, recv |-> owed.recv \cup (rs \cap use.readers)]

Without(seq, q) == SelectSeq(seq, LAMBDA id : id # q)

----------------------------------------------------------------------------
(* Admission *)

prefix_size(q) ==
    CASE q \in 0 .. 63             -> 1
      [] q \in 64 .. 16383         -> 2
      [] q \in 16384 .. 1073741823 -> 4
      [] OTHER                     -> 8

Full(q, size) ==
    \/ Len(streams[q].outgoing) = PACKETS
    \/ size > SESSION_BYTES - streams[q].outgoing_bytes
    \/ size > CONNECTION_BYTES - outgoing

Least(a, b) == IF a < b THEN a ELSE b

(* RequestState::ready *)
is_ready(q) ==
    CASE ~SendOpen(q)                         -> "Closed"
      [] ~negotiated \/ max_size = None       -> "Unavailable"
      [] max_size < prefix_size(q)            -> "TooLarge"
      [] Full(q, Least(max_size, SESSION_BYTES)) -> "Full"
      [] OTHER                                -> "Ok"

(* RequestState::try_send_buf, up to the push *)
admits(q, payload) ==
    LET size == payload + prefix_size(q)
    IN  CASE ~SendOpen(q)                     -> "Closed"
          [] ~negotiated \/ max_size = None   -> "Unavailable"
          [] size > max_size \/ size > SESSION_BYTES -> "TooLarge"
          [] Full(q, size)                    -> "Full"
          [] OTHER                            -> "Ok"

(* and the push *)
EnqueueUnannounced(q, size) ==
    /\ streams' = [streams EXCEPT ![q].outgoing = Append(@, size), ![q].outgoing_bytes = @ + size]
    /\ outgoing' = outgoing + size
    /\ ready' = IF streams[q].outgoing = <<>> THEN Append(ready, q) ELSE ready
    /\ UNCHANGED owed

EnqueueUncounted(q, size) ==
    /\ streams' = [streams EXCEPT ![q].outgoing = Append(@, size), ![q].outgoing_bytes = @ + size]
    /\ outgoing' = outgoing + size
    /\ ready' = Append(ready, q)
    /\ Owes(TRUE, FALSE, {})

Enqueue(q, size) ==
    /\ streams' = [streams EXCEPT ![q].outgoing = Append(@, size), ![q].outgoing_bytes = @ + size]
    /\ outgoing' = outgoing + size
    /\ ready' = IF streams[q].outgoing = <<>> THEN Append(ready, q) ELSE ready
    /\ Owes(TRUE, FALSE, {})

try_send(q, payload) ==
    /\ IF admits(q, payload) = "Ok"
       THEN Enqueue(q, payload + prefix_size(q))
       ELSE UNCHANGED <<streams, outgoing, ready, owed>>
    /\ UNCHANGED <<incoming, max_size, negotiated, closed>>

Attempt(s) ==
    IF sender[s].size = READY THEN is_ready(On[s]) ELSE admits(On[s], sender[s].size)

Attempts(s) ==
    IF sender[s].size = READY THEN UNCHANGED <<state, owed>> ELSE try_send(On[s], sender[s].size)

----------------------------------------------------------------------------
(* A Sender.  poll_admit tries, waits on the connection's Notify, and      *)
(* tries once more.                                                        *)

(* The application has a session only after a CONNECT with Datagram semantics. *)
Granted(q) == receiver[q] # "none"
Sending(s) == s \in use.senders /\ Granted(On[s]) /\ sender[s].pc = "idle"

TrySend(s) ==
    /\ Sending(s)
    /\ \E p \in Payloads : try_send(On[s], p)
    /\ UNCHANGED <<requests, sender, receiver, received, task>>

(* poll_send, poll_ready *)
PollSend(s) ==
    /\ Sending(s) /\ s \in use.waiters
    /\ \E n \in Payloads \cup {READY} : sender' = [sender EXCEPT ![s].pc = "try", ![s].size = n]
    /\ UNCHANGED <<state, requests, receiver, received, task, owed>>

First(s) ==
    /\ sender[s].pc = "try"
    /\ Attempts(s)
    /\ sender' = [sender EXCEPT ![s] =
                    IF Attempt(s) = "Full" THEN [@ EXCEPT !.pc = "full"]
                    ELSE [pc |-> "idle", size |-> READY, waiting |-> "none"]]
    /\ UNCHANGED <<requests, receiver, received, task>>

(* get_or_insert_with: a Notified may be left over from a canceled wait *)
Wait(s) ==
    /\ sender[s].pc = "full"
    /\ sender' = [sender EXCEPT ![s].pc = "wait",
                                ![s].waiting = IF @ = "none" THEN "created" ELSE @]
    /\ UNCHANGED <<state, requests, receiver, received, task, owed>>

(* Already notified: the task wakes itself and is polled again *)
PollNotified(s) ==
    /\ sender[s].pc = "wait"
    /\ sender' = [sender EXCEPT ![s] =
                    IF @.waiting = "notified" THEN [@ EXCEPT !.pc = "try", !.waiting = "none"]
                    ELSE [@ EXCEPT !.pc = "again", !.waiting = "registered"]]
    /\ UNCHANGED <<state, requests, receiver, received, task, owed>>

SecondUnchecked(s) ==
    /\ sender[s].pc = "again"
    /\ sender' = [sender EXCEPT ![s].pc = "parked"]
    /\ UNCHANGED <<state, requests, receiver, received, task, owed>>

Second(s) ==
    /\ sender[s].pc = "again"
    /\ Attempts(s)
    /\ sender' = [sender EXCEPT ![s] =
                    IF Attempt(s) = "Full" THEN [@ EXCEPT !.pc = "parked"]
                    ELSE [pc |-> "idle", size |-> READY, waiting |-> "none"]]
    /\ UNCHANGED <<requests, receiver, received, task>>

(* The waiter was notified *)
Repoll(s) ==
    /\ sender[s].pc = "parked" /\ sender[s].waiting = "notified"
    /\ sender' = [sender EXCEPT ![s].pc = "try"]
    /\ UNCHANGED <<state, requests, receiver, received, task, owed>>

(* The application drops the wait; the Sender keeps its Notified *)
CancelSend(s) ==
    /\ sender[s].pc = "parked"
    /\ sender' = [sender EXCEPT ![s].pc = "idle", ![s].size = READY]
    /\ UNCHANGED <<state, requests, receiver, received, task, owed>>

SenderNext(s) ==
    First(s) \/ Wait(s) \/ PollNotified(s) \/ Second(s) \/ Repoll(s)

----------------------------------------------------------------------------
(* A Receiver, which is also what aborts the session *)

(* The application has it, and is in none of its calls *)
Held(q) == q \in use.readers /\ receiver[q] \in {"idle", "parked", "ended"} /\ aborting[q] \in {"no", "done"}

PollRecv(q) ==
    /\ Held(q)
    /\ \/ receiver[q] = "idle"
       \/ receiver[q] = "parked" /\ received[q].woken
    /\ receiver' = [receiver EXCEPT ![q] = "look"]
    /\ received' = [received EXCEPT ![q] = [waker |-> TRUE, woken |-> FALSE]]
    /\ UNCHANGED <<state, requests, sender, task, owed>>

Look(q) ==
    /\ receiver[q] = "look"
    /\ IF Registered(q) /\ streams[q].incoming # <<>>
       THEN LET size == Head(streams[q].incoming)
            IN  /\ streams' = [streams EXCEPT ![q].incoming = Tail(@), ![q].incoming_bytes = @ - size]
                /\ incoming' = incoming - size
                /\ receiver' = [receiver EXCEPT ![q] = "idle"]
       ELSE /\ receiver' = [receiver EXCEPT ![q] =
                               IF Registered(q) /\ streams[q].recv_open THEN "parked" ELSE "ended"]
            /\ UNCHANGED <<streams, incoming>>
    /\ UNCHANGED <<ready, outgoing, max_size, negotiated, closed, requests, sender, received, task, owed>>

(* RequestState::close_recv, by the Receiver's drop or by the stream's guards *)
CloseRecvUnsettled(q) ==
    /\ IF Registered(q)
       THEN /\ streams' = [streams EXCEPT ![q] = [@ EXCEPT !.recv_open = FALSE, !.incoming_bytes = 0,
                                                           !.incoming = <<>>]]
            /\ UNCHANGED incoming
       ELSE UNCHANGED <<streams, incoming>>
    /\ Owes(FALSE, FALSE, {q})
    /\ UNCHANGED <<ready, outgoing, max_size, negotiated, closed>>

CloseRecvSilent(q) ==
    /\ IF Registered(q)
       THEN /\ streams' = [streams EXCEPT ![q] = [@ EXCEPT !.recv_open = FALSE, !.incoming_bytes = 0,
                                                           !.incoming = <<>>]]
            /\ incoming' = incoming - streams[q].incoming_bytes
       ELSE UNCHANGED <<streams, incoming>>
    /\ UNCHANGED <<ready, outgoing, max_size, negotiated, closed, owed>>

CloseRecv(q) ==
    /\ IF Registered(q)
       THEN /\ streams' = [streams EXCEPT ![q] = [@ EXCEPT !.recv_open = FALSE, !.incoming_bytes = 0,
                                                           !.incoming = <<>>]]
            /\ incoming' = incoming - streams[q].incoming_bytes
       ELSE UNCHANGED <<streams, incoming>>
    /\ Owes(FALSE, FALSE, {q})
    /\ UNCHANGED <<ready, outgoing, max_size, negotiated, closed>>

DropReceiver(q) ==
    /\ Held(q)
    /\ CloseRecv(q)
    /\ receiver' = [receiver EXCEPT ![q] = "dropped"]
    /\ UNCHANGED <<requests, sender, received, task>>

----------------------------------------------------------------------------
(* The ends of a session *)

(* RequestState::close_send *)
CloseSend(q) ==
    /\ IF Registered(q)
       THEN /\ streams' = [streams EXCEPT ![q] = [@ EXCEPT !.send_open = FALSE, !.outgoing_bytes = 0,
                                                           !.outgoing = <<>>]]
            /\ outgoing' = outgoing - streams[q].outgoing_bytes
            /\ ready' = Without(ready, q)
       ELSE UNCHANGED <<streams, outgoing, ready>>
    /\ Owes(TRUE, TRUE, {})
    /\ UNCHANGED <<incoming, max_size, negotiated, closed>>

(* A stream guard, or the tunnel's shutdown or drop, closes one direction *)
EndSend(q) ==
    /\ use.senders # {} /\ SendOpen(q) /\ CloseSend(q)
    /\ UNCHANGED <<requests, sender, receiver, received, task>>

EndRecv(q) ==
    /\ use.readers # {} /\ Registered(q) /\ streams[q].recv_open /\ CloseRecv(q)
    /\ UNCHANGED <<requests, sender, receiver, received, task>>

(* RequestState::close, by the drop of the Registration *)
Close(q) ==
    /\ Registered(q)
    /\ streams' = [p \in DOMAIN streams \ {q} |-> streams[p]]
    /\ incoming' = incoming - streams[q].incoming_bytes
    /\ outgoing' = outgoing - streams[q].outgoing_bytes
    /\ ready' = Without(ready, q)
    /\ Owes(TRUE, TRUE, {q})
    /\ UNCHANGED <<max_size, negotiated, closed, requests, sender, receiver, received, task>>

(* RequestState::abort: the reason, the token, then both directions.  It   *)
(* may come again, or from both the control stream and the Datagrams.      *)
AbortTokenFirst(q) ==
    /\ Held(q) /\ aborting[q] = "no"
    /\ aborting' = [aborting EXCEPT ![q] = "cancel"]
    /\ invalid' = [invalid EXCEPT ![q] = TRUE]
    /\ UNCHANGED <<state, met, abort, sender, receiver, received, task, owed>>

Abort(q) ==
    /\ Held(q) /\ aborting[q] = "no"
    /\ aborting' = [aborting EXCEPT ![q] = "cancel"]
    /\ \E why \in {"Datagram", "Message"} : abort' = [abort EXCEPT ![q] = IF @ = "none" THEN why ELSE @]
    /\ UNCHANGED <<state, met, invalid, sender, receiver, received, task, owed>>

AbortCancel(q) ==
    /\ aborting[q] = "cancel"
    /\ invalid' = [invalid EXCEPT ![q] = TRUE]
    /\ aborting' = [aborting EXCEPT ![q] = "recv"]
    /\ UNCHANGED <<state, met, abort, sender, receiver, received, task, owed>>

AbortRecv(q) ==
    /\ aborting[q] = "recv"
    /\ CloseRecv(q)
    /\ aborting' = [aborting EXCEPT ![q] = "send"]
    /\ UNCHANGED <<met, invalid, abort, sender, receiver, received, task>>

AbortSend(q) ==
    /\ aborting[q] = "send"
    /\ CloseSend(q)
    /\ aborting' = [aborting EXCEPT ![q] = "done"]
    /\ UNCHANGED <<met, invalid, abort, sender, receiver, received, task>>

AbortNext(q) == AbortCancel(q) \/ AbortRecv(q) \/ AbortSend(q)

----------------------------------------------------------------------------
(* The connection *)

(* Registry::register *)
Register(q) ==
    /\ q \notin met
    /\ met' = met \cup {q}
    /\ \E semantics \in {TRUE, use.senders # {}} :
         /\ streams' = IF closed THEN streams ELSE streams @@ (q :> Entry(semantics))
         /\ receiver' = [receiver EXCEPT ![q] = IF semantics THEN "idle" ELSE "none"]
    /\ UNCHANGED <<ready, incoming, outgoing, max_size, negotiated, closed, invalid, abort, aborting, sender,
                   received, task, owed>>

(* The peer's SETTINGS enable H3_DATAGRAM *)
Negotiated ==
    /\ use.senders # {} /\ ~negotiated
    /\ negotiated' = TRUE
    /\ UNCHANGED <<streams, ready, incoming, outgoing, max_size, closed, requests, sender, receiver, received, task, owed>>

(* Registry::close: the driver has ended, or someone else ends the         *)
(* connection (Shared::terminate) while the driver is at work              *)
RegistryClose ==
    /\ ~closed
    /\ closed' = TRUE /\ incoming' = 0 /\ outgoing' = 0 /\ ready' = <<>> /\ streams' = <<>>
    /\ Owes(TRUE, TRUE, DOMAIN streams)
    /\ UNCHANGED <<max_size, negotiated, requests, sender, receiver, received, task>>

(* Registry::receive *)
receive(q, size) ==
    CASE ~Registered(q) \/ ~streams[q].recv_open ->
            UNCHANGED <<streams, incoming, invalid, owed>>
      [] Registered(q) /\ streams[q].recv_open /\ ~streams[q].semantics ->
            /\ invalid' = [invalid EXCEPT ![q] = TRUE]
            /\ UNCHANGED <<streams, incoming, owed>>
      [] OTHER ->
            IF \/ Len(streams[q].incoming) = PACKETS
               \/ size > SESSION_BYTES - streams[q].incoming_bytes
               \/ size > CONNECTION_BYTES - incoming
            THEN UNCHANGED <<streams, incoming, invalid, owed>>
            ELSE /\ streams' = [streams EXCEPT ![q].incoming = Append(@, size),
                                               ![q].incoming_bytes = @ + size]
                 /\ incoming' = incoming + size
                 /\ Owes(FALSE, FALSE, {q})
                 /\ UNCHANGED invalid

Goto(where, index) == driver' = [driver EXCEPT !.pc = where, !.index = index]

(* The start of a poll: the waker, then the transport's limit *)
DriverPoll ==
    /\ driver.pc = "parked" /\ woken
    /\ woken' = FALSE /\ waker' = TRUE
    /\ Goto("limit", 0)
    /\ UNCHANGED <<state, requests, sender, receiver, received, blocked, owed>>

DriverLimitQuiet ==
    /\ driver.pc = "limit"
    /\ \E m \in IF use.senders = {} THEN {max_size} ELSE Limits : max_size' = m /\ Owes(FALSE, FALSE, {})
    /\ Goto("recv", 0)
    /\ UNCHANGED <<streams, ready, incoming, outgoing, negotiated, closed, requests, sender, receiver, received,
                   waker, woken, blocked>>

DriverLimit ==
    /\ driver.pc = "limit"
    /\ \E m \in IF use.senders = {} THEN {max_size} ELSE Limits : max_size' = m /\ Owes(FALSE, m # max_size, {})
    /\ Goto("recv", 0)
    /\ UNCHANGED <<streams, ready, incoming, outgoing, negotiated, closed, requests, sender, receiver, received,
                   waker, woken, blocked>>

(* One round of the receive loop; after the last the task wakes itself *)
DriverRecv ==
    /\ driver.pc = "recv" /\ use.readers # {}
    /\ \E q \in Sessions, size \in Arrivals : receive(q, size)
    /\ IF driver.index = Work - 1
       THEN Goto("send", 0) /\ woken' = TRUE
       ELSE Goto("recv", driver.index + 1) /\ UNCHANGED woken
    /\ UNCHANGED <<ready, outgoing, max_size, negotiated, closed, met, abort, aborting, sender, receiver, received,
                   waker, blocked>>

(* Nothing to read *)
DriverRecvPending ==
    /\ driver.pc = "recv"
    /\ Goto("send", 0)
    /\ UNCHANGED <<state, requests, sender, receiver, received, waker, woken, blocked, owed>>

(* The transport has ended or failed, or a Datagram is malformed *)
DriverEnds ==
    /\ driver.pc \in {"recv", "sending"}
    /\ Goto("over", 0)
    /\ UNCHANGED <<state, requests, sender, receiver, received, waker, woken, blocked, owed>>

(* Registry::next.  Every session of the round robin has a packet, as      *)
(* RoundRobin says, so its loop looks at one only.                         *)
NextPacket ==
    LET q == Head(ready)
        size == Head(streams[q].outgoing)
    IN  /\ streams' = [streams EXCEPT ![q].outgoing = Tail(@), ![q].outgoing_bytes = @ - size]
        /\ outgoing' = outgoing - size
        /\ ready' = IF Len(streams[q].outgoing) > 1 THEN Append(Tail(ready), q) ELSE Tail(ready)

DriverNext ==
    /\ driver.pc = "send" /\ driver.id = None
    /\ IF ready = <<>>
       THEN /\ driver' = [driver EXCEPT !.pc = "parked", !.index = 0]
            /\ UNCHANGED <<streams, outgoing, ready, owed>>
       ELSE /\ NextPacket
            /\ Owes(FALSE, TRUE, {})
            /\ driver' = [driver EXCEPT !.pc = "open", !.id = Head(ready)]
    /\ UNCHANGED <<incoming, max_size, negotiated, closed, requests, sender, receiver, received, waker, woken, blocked>>

(* The end of a round of the send loop *)
Round(id) ==
    IF driver.index = Work - 1
    THEN driver' = [pc |-> "parked", index |-> 0, id |-> id] /\ woken' = TRUE
    ELSE driver' = [pc |-> "send", index |-> driver.index + 1, id |-> id] /\ UNCHANGED woken

(* A packet left from an earlier poll, or the one just taken: is its session still open? *)
DriverOpen ==
    /\ driver.id # None /\ driver.pc \in {"send", "open"}
    /\ IF SendOpen(driver.id)
       THEN driver' = [driver EXCEPT !.pc = "sending"] /\ UNCHANGED woken
       ELSE Round(None)
    /\ UNCHANGED <<state, requests, sender, receiver, received, waker, blocked, owed>>

(* poll_send: taken, or refused as too large *)
DriverSends ==
    /\ driver.pc = "sending"
    /\ Round(None)
    /\ UNCHANGED <<state, requests, sender, receiver, received, waker, blocked, owed>>

DriverBlocked ==
    /\ driver.pc = "sending"
    /\ driver' = [driver EXCEPT !.pc = "parked", !.index = 0]
    /\ blocked' = TRUE
    /\ UNCHANGED <<state, requests, sender, receiver, received, waker, woken, owed>>

(* The transport takes packets again, or a packet or any other event arrives *)
TransportWakes ==
    /\ blocked
    /\ blocked' = FALSE /\ woken' = TRUE
    /\ UNCHANGED <<state, requests, sender, receiver, received, driver, waker, owed>>

Event ==
    /\ driver.pc = "parked" /\ ~woken
    /\ woken' = TRUE
    /\ UNCHANGED <<state, requests, sender, receiver, received, driver, waker, blocked, owed>>

DriverStep ==
    \/ DriverPoll \/ DriverLimit \/ DriverRecv \/ DriverRecvPending \/ DriverEnds
    \/ DriverNext \/ DriverOpen \/ DriverSends \/ DriverBlocked

----------------------------------------------------------------------------
(* The wakes that are owed *)

WakeDriver ==
    /\ owed.driver
    /\ owed' = [owed EXCEPT !.driver = FALSE]
    /\ waker' = FALSE /\ woken' = (woken \/ waker)
    /\ UNCHANGED <<state, requests, sender, receiver, received, driver, blocked>>

(* capacity_notify.notify_waiters: every Notified there is *)
NotifyWaiters ==
    /\ owed.room
    /\ owed' = [owed EXCEPT !.room = FALSE]
    /\ sender' = [s \in Senders |-> IF sender[s].waiting = "none" THEN sender[s]
                                    ELSE [sender[s] EXCEPT !.waiting = "notified"]]
    /\ UNCHANGED <<state, requests, receiver, received, task>>

WakeReceiver(q) ==
    /\ q \in owed.recv
    /\ owed' = [owed EXCEPT !.recv = @ \ {q}]
    /\ received' = [received EXCEPT ![q] = [waker |-> FALSE, woken |-> @.woken \/ @.waker]]
    /\ UNCHANGED <<state, requests, sender, receiver, task>>

Wakes == WakeDriver \/ NotifyWaiters \/ \E q \in Sessions : WakeReceiver(q)

----------------------------------------------------------------------------
(* The connection is over, and everyone has noticed *)
DatagramsOver ==
    /\ closed /\ met = Sessions
    /\ UNCHANGED dgVars

DatagramNext == UNCHANGED use /\
    \/ \E s \in Senders : TrySend(s) \/ PollSend(s) \/ SenderNext(s) \/ CancelSend(s)
    \/ \E q \in Sessions :
          \/ PollRecv(q) \/ Look(q) \/ DropReceiver(q)
          \/ Register(q) \/ EndSend(q) \/ EndRecv(q) \/ Close(q) \/ Abort(q) \/ AbortNext(q)
    \/ Negotiated \/ RegistryClose
    \/ DriverStep \/ TransportWakes \/ Event \/ Wakes
    \/ DatagramsOver

DatagramSpec == DatagramInit /\ [][DatagramNext]_dgVars

(* The executor polls what is woken, a wake that is owed is delivered, and *)
(* the transport takes packets again and again, and is not always too busy *)
(* to get to them.  Nobody has to send, and the connection need not close. *)
DatagramFairness ==
    /\ WF_dgVars(DriverStep /\ UNCHANGED use)
    /\ SF_dgVars(DriverSends /\ UNCHANGED use)
    /\ WF_dgVars(TransportWakes /\ UNCHANGED use)
    /\ WF_dgVars(WakeDriver /\ UNCHANGED use)

DatagramFairSpec == DatagramSpec /\ DatagramFairness

----------------------------------------------------------------------------
Bytes(seq) == FoldLeft(LAMBDA a, b : a + b, 0, seq)

Total(field(_)) == FoldSet(LAMBDA q, n : n + field(q), 0, DOMAIN streams)

(* The budgets, which the registry keeps in counters next to the queues:   *)
(* a session's and the connection's counters are exactly the bytes that    *)
(* are queued, whoever closed what in which order, so no subtraction       *)
(* underflows and no room is lost; and no queue is over its limit.         *)
BudgetsExact ==
    /\ \A q \in DOMAIN streams :
          /\ streams[q].incoming_bytes = Bytes(streams[q].incoming)
          /\ streams[q].outgoing_bytes = Bytes(streams[q].outgoing)
          /\ streams[q].incoming_bytes <= SESSION_BYTES /\ streams[q].outgoing_bytes <= SESSION_BYTES
          /\ Len(streams[q].incoming) <= PACKETS /\ Len(streams[q].outgoing) <= PACKETS
    /\ incoming = Total(LAMBDA q : streams[q].incoming_bytes) /\ incoming <= CONNECTION_BYTES
    /\ outgoing = Total(LAMBDA q : streams[q].outgoing_bytes) /\ outgoing <= CONNECTION_BYTES

(* The round robin (next, try_send_buf, close_send, close) holds every     *)
(* session that has a packet to send, exactly once, and no other.          *)
RoundRobin ==
    /\ ToSet(ready) = {q \in DOMAIN streams : streams[q].outgoing # <<>>}
    /\ Len(ready) = Cardinality(ToSet(ready))

(* "a concurrent dequeue cannot leave this sender asleep with room         *)
(* available" (poll_admit): a sender that sleeps would still be refused as *)
(* Full, or a notification is on its way; also when it waits for a packet  *)
(* of the largest size and the transport's limit shrinks.                  *)
SleepersAreFull ==
    \A s \in Senders :
        sender[s].pc = "parked" /\ sender[s].waiting # "notified" => Attempt(s) = "Full" \/ owed.room

(* A receiver sleeps only while its session is open and has nothing for    *)
(* it, or its wake is on its way (poll_recv registers before it looks).    *)
ReceiverSeesAll ==
    \A q \in Sessions :
        receiver[q] = "parked" /\ ~received[q].woken =>
            \/ Registered(q) /\ streams[q].recv_open /\ streams[q].incoming = <<>>
            \/ q \in owed.recv

(* The code a stream resets with is settled before anyone can see that it  *)
(* is to be reset: "Published before the cancel, which the stream guards   *)
(* and the transfer task observe first" (abort); and a request without     *)
(* Datagram semantics is invalid, never aborted.                           *)
AbortIsKnown ==
    \A q \in Sessions :
        /\ invalid[q] /\ Registered(q) /\ streams[q].semantics => abort[q] # "none"
        /\ abort[q] # "none" /\ Registered(q) => streams[q].semantics

(* "rotating between sessions" (next): while the connection lives, every   *)
(* session with packets gets its turn again and again, however busy the    *)
(* others are, and although the driver works on a few packets per poll.    *)
EverySessionSends ==
    \A q \in Sessions : []<>(driver.pc = "over" \/ q \notin ToSet(ready) \/ driver.id = q)

(* The accounts of the registry are those of its queues.                   *)
BookkeepingExact == BudgetsExact /\ RoundRobin

(* Whoever waits for a change of the registry is told of it.               *)
WaitersAreTold == SleepersAreFull /\ ReceiverSeesAll /\ AbortIsKnown
=============================================================================
