---------------------------- MODULE Http3Shared ----------------------------
(***************************************************************************)
(* The accounting by which an HTTP/3 connection drains and closes          *)
(* (proto/http3/shared.rs), used by everyone who touches the connection:   *)
(* the request futures, the SendRequest handles, the Connection handle, a  *)
(* stream that finds a protocol violation, and the connection task (the    *)
(* ConnTask of proto/http3/client.rs).                                     *)
(*                                                                         *)
(* They run in different threads and share only atomics, so every load,    *)
(* store and wake is a step of its own; the atomics are taken to be        *)
(* sequentially consistent.                                                *)
(*                                                                         *)
(* Definitions that Next does not use are slips that the properties must   *)
(* notice; each stands before the definition it is a slip of.              *)
(***************************************************************************)
EXTENDS Integers, FiniteSets

CONSTANTS
    Requests,      \* the requests that may be made
    Limit,         \* max_concurrent_requests
    MaxSenders,    \* SendRequest handles that may exist at once
    Events         \* what may befall the connection: a bound for TLC

ASSUME SharedAssumption ==
    /\ IsFiniteSet(Requests)
    /\ Events \subseteq {"graceful", "dropHandle", "dropTask", "violation", "failure", "settings",
                        "goaway", "peerClose", "cancel"}
    /\ Limit \in Nat \ {0} /\ MaxSenders \in Nat \ {0}

VARIABLES
    draining, permits, permits_closed, settings_ready,
    reserved, active, senders,
    violation,        \* a stream has published a violation
    error,            \* the published error, or "none"
    waker, woken,     \* the task's registered waker; the task is scheduled
    rq,               \* where each request future is
    pc,               \* where the task, the handle, a violating stream and the last sender are
    opened,           \* for each of them: its shutdown found admission open
    then,             \* for each of them: where it goes after a shutdown
    seen,             \* the task: what it read of reserved
    settings,         \* the peer's SETTINGS have arrived
    goaway,           \* the peer's GOAWAY has arrived
    quic,             \* how the connection was closed: "open", "quiet", "loud" or "peer"
    late              \* history: the requests admitted after admission was closed

flags == <<draining, permits_closed, settings_ready, violation, error>>
counts == <<permits, reserved, active, senders>>
wakers == <<waker, woken>>
actors == <<pc, opened, then, seen>>
peer == <<settings, goaway>>
vars == <<flags, counts, wakers, rq, actors, peer, quic, late>>

Actors == {"task", "handle", "stream", "sender"}

(* A request future: created ("checked" until it is counted), waiting,     *)
(* admitted, on its way out, over.                                         *)
Waiting == {"settling", "reserved"}
HoldsReservation == Waiting \cup {"acquired", "counted", "leaving"}
HoldsPermit == {"acquired", "counted", "active"}
HoldsActive == {"counted", "active", "reading", "released"}
Exchanging == {"active", "reading"}
Over == {"left", "waking", "gone"}
RequestStates == {"new", "checked"} \cup HoldsReservation \cup HoldsActive \cup Over

In(states) == {r \in Requests : rq[r] \in states}

Init ==
    /\ draining = FALSE /\ permits_closed = FALSE /\ settings_ready = FALSE
    /\ permits = Limit /\ reserved = 0 /\ active = 0 /\ senders = 1
    /\ violation = FALSE /\ error = "none"
    /\ waker = FALSE /\ woken = TRUE
    /\ rq = [r \in Requests |-> "new"]
    /\ pc = [a \in Actors |-> IF a = "task" THEN "parked" ELSE "idle"]
    /\ opened = [a \in Actors |-> FALSE]
    /\ then = [a \in Actors |-> "idle"]
    /\ seen = 0 /\ settings = FALSE /\ goaway = FALSE /\ quic = "open" /\ late = {}

Task(where) == pc["task"] = where
Goto(a, where) == pc' = [pc EXCEPT ![a] = where]

(* AtomicWaker::wake *)
Wake == waker' = FALSE /\ woken' = (woken \/ waker)

PublishLast(e) == error' = e

Publish(e) == error' = IF error = "none" THEN e ELSE error

(* Only the first close of a QUIC connection counts. *)
CloseQuic(how) == quic' = IF quic = "open" THEN how ELSE quic

(***************************************************************************)
(* Requests.                                                               *)
(***************************************************************************)

(* try_send_request asks first, and counts the request before it returns its future. *)
Check(r) ==
    /\ rq[r] = "new" /\ senders > Cardinality(In({"checked"}))
    /\ rq' = [rq EXCEPT ![r] = IF draining THEN "gone" ELSE "checked"]
    /\ UNCHANGED <<flags, counts, wakers, actors, peer, quic, late>>

(* An extended CONNECT waits for the peer's SETTINGS before admission.     *)
Reserve(r) ==
    /\ rq[r] = "checked"
    /\ reserved' = reserved + 1
    /\ \E s \in Waiting : rq' = [rq EXCEPT ![r] = s]
    /\ UNCHANGED <<flags, permits, active, senders, wakers, actors, peer, quic, late>>

(* The SETTINGS, or a shutdown, end the wait: admission, or the request is returned. *)
Settle(r) ==
    /\ rq[r] = "settling" /\ settings_ready
    /\ \E s \in {"reserved", "leaving"} : rq' = [rq EXCEPT ![r] = s]
    /\ UNCHANGED <<flags, counts, wakers, actors, peer, quic, late>>

Acquire(r) ==
    /\ rq[r] = "reserved" /\ permits > 0 /\ ~permits_closed
    /\ permits' = permits - 1
    /\ rq' = [rq EXCEPT ![r] = "acquired"]
    /\ UNCHANGED <<flags, reserved, active, senders, wakers, actors, peer, quic, late>>

(* Admission is closed: the request is returned, whatever permits are left. *)
Refuse(r) ==
    /\ rq[r] = "reserved" /\ permits_closed
    /\ rq' = [rq EXCEPT ![r] = "leaving"]
    /\ UNCHANGED <<flags, counts, wakers, actors, peer, quic, late>>

(* The request is invalid, or the caller drops the future while it waits. *)
Cancel(r) ==
    /\ "cancel" \in Events
    /\ rq[r] \in Waiting
    /\ rq' = [rq EXCEPT ![r] = "leaving"]
    /\ UNCHANGED <<flags, counts, wakers, actors, peer, quic, late>>

(* admit counts the exchange, then gives up the reservation. *)
Count(r) ==
    /\ rq[r] = "acquired"
    /\ active' = active + 1
    /\ rq' = [rq EXCEPT ![r] = "counted"]
    /\ late' = IF permits_closed THEN late \cup {r} ELSE late
    /\ UNCHANGED <<flags, permits, reserved, senders, wakers, actors, peer, quic>>

Unreserve(r) ==
    /\ rq[r] = "counted"
    /\ reserved' = reserved - 1
    /\ rq' = [rq EXCEPT ![r] = "active"]
    /\ UNCHANGED <<flags, permits, active, senders, wakers, actors, peer, quic, late>>

(* Only the response body remains, or Active is dropped: the permit returns. *)
ReleasePermit(r) ==
    /\ rq[r] = "active"
    /\ permits' = permits + 1
    /\ \E s \in {"reading", "released"} : rq' = [rq EXCEPT ![r] = s]
    /\ UNCHANGED <<flags, reserved, active, senders, wakers, actors, peer, quic, late>>

DropUnadmitted(r) ==
    /\ rq[r] \in {"reading", "released", "leaving"}
    /\ reserved' = reserved - 1
    /\ rq' = [rq EXCEPT ![r] = "left"]
    /\ UNCHANGED <<flags, permits, active, senders, wakers, actors, peer, quic, late>>

(* Active::drop *)
Drop(r) ==
    /\ \/ /\ rq[r] \in {"reading", "released"}
          /\ active' = active - 1 /\ UNCHANGED reserved
       \/ /\ rq[r] = "leaving"
          /\ reserved' = reserved - 1 /\ UNCHANGED active
    /\ rq' = [rq EXCEPT ![r] = "left"]
    /\ UNCHANGED <<flags, permits, senders, wakers, actors, peer, quic, late>>

DropCheck(r) ==
    /\ rq[r] = "left"
    /\ rq' = [rq EXCEPT ![r] = IF draining THEN "waking" ELSE "gone"]
    /\ UNCHANGED <<flags, counts, wakers, actors, peer, quic, late>>

DropWake(r) ==
    /\ rq[r] = "waking"
    /\ Wake
    /\ rq' = [rq EXCEPT ![r] = "gone"]
    /\ UNCHANGED <<flags, counts, actors, peer, quic, late>>

(***************************************************************************)
(* SendRequest handles.  A request being created borrows its handle.       *)
(***************************************************************************)
CloneSender ==
    /\ senders \in 1 .. MaxSenders - 1
    /\ senders' = senders + 1
    /\ UNCHANGED <<flags, permits, reserved, active, wakers, rq, actors, peer, quic, late>>

DropSender ==
    /\ senders > Cardinality(In({"checked"}))
    /\ senders' = senders - 1
    /\ IF senders = 1 THEN Goto("sender", "drain") ELSE UNCHANGED pc
    /\ UNCHANGED <<flags, permits, reserved, active, wakers, rq, opened, then, seen, peer, quic, late>>

(***************************************************************************)
(* drain and shutdown, by whoever calls them.                              *)
(***************************************************************************)
Drain(a) ==
    /\ pc[a] = "drain"
    /\ draining' = TRUE
    /\ Goto(a, IF draining THEN "drained" ELSE "drainWake")
    /\ UNCHANGED <<permits_closed, settings_ready, violation, error, counts, wakers, rq, opened, then,
                   seen, peer, quic, late>>

DrainWakeNever(a) ==
    /\ pc[a] = "drainWake"
    /\ Goto(a, "drained")
    /\ UNCHANGED <<flags, counts, wakers, rq, opened, then, seen, peer, quic, late>>

DrainWake(a) ==
    /\ pc[a] = "drainWake"
    /\ Wake
    /\ Goto(a, "drained")
    /\ UNCHANGED <<flags, counts, rq, opened, then, seen, peer, quic, late>>

DrainedSilently(a) ==
    /\ pc[a] = "drained"
    /\ Goto(a, then[a])
    /\ UNCHANGED <<flags, counts, wakers, rq, opened, then, seen, peer, quic, late>>

(* What is left of a shutdown after its drain; a plain drain is over. *)
Drained(a) ==
    /\ pc[a] = "drained"
    /\ settings_ready' = (settings_ready \/ opened[a])
    /\ Goto(a, IF opened[a] THEN "shutWake" ELSE then[a])
    /\ UNCHANGED <<draining, permits_closed, violation, error, counts, wakers, rq, opened, then, seen,
                   peer, quic, late>>

ShutWake(a) ==
    /\ pc[a] = "shutWake"
    /\ Wake
    /\ Goto(a, then[a])
    /\ UNCHANGED <<flags, counts, rq, opened, then, seen, peer, quic, late>>

(* The call of shutdown, up to its own first load. *)
Shutdown(a, next) ==
    /\ pc' = [pc EXCEPT ![a] = "shutdown"]
    /\ then' = [then EXCEPT ![a] = next]

ShutdownCheck(a) ==
    /\ pc[a] = "shutdown"
    /\ opened' = [opened EXCEPT ![a] = ~permits_closed]
    /\ Goto(a, IF permits_closed THEN "drain" ELSE "shut")
    /\ UNCHANGED <<flags, counts, wakers, rq, then, seen, peer, quic, late>>

ShutdownClose(a) ==
    /\ pc[a] = "shut"
    /\ permits_closed' = TRUE
    /\ Goto(a, "drain")
    /\ UNCHANGED <<draining, settings_ready, violation, error, counts, wakers, rq, opened, then, seen,
                   peer, quic, late>>

(***************************************************************************)
(* The Connection handle: graceful_shutdown, and its drop.                 *)
(***************************************************************************)
GracefulShutdown ==
    /\ "graceful" \in Events
    /\ pc["handle"] = "idle"
    /\ Shutdown("handle", "idle")
    /\ UNCHANGED <<flags, counts, wakers, rq, opened, seen, peer, quic, late>>

DropHandle ==
    /\ "dropHandle" \in Events
    /\ pc["handle"] = "idle"
    /\ Publish("dropped")
    /\ Shutdown("handle", "closeReason")
    /\ UNCHANGED <<draining, permits_closed, settings_ready, violation, counts, wakers, rq, opened, seen,
                   peer, quic, late>>

(* The handle has seen the task's outcome; its drop does nothing. *)
HandleCompletes ==
    /\ pc["handle"] = "idle" /\ Task("finished")
    /\ Goto("handle", "over")
    /\ UNCHANGED <<flags, counts, wakers, rq, opened, then, seen, peer, quic, late>>

CloseReasonQuietly(a) ==
    /\ pc[a] = "closeReason"
    /\ Goto(a, "closeQuiet")
    /\ UNCHANGED <<flags, counts, wakers, rq, opened, then, seen, peer, quic, late>>

(* close_reason, then the close itself: also how a dropped task ends. *)
CloseReason(a) ==
    /\ pc[a] = "closeReason"
    /\ Goto(a, IF violation THEN "closeLoud" ELSE "closeQuiet")
    /\ UNCHANGED <<flags, counts, wakers, rq, opened, then, seen, peer, quic, late>>

(***************************************************************************)
(* A stream of an active exchange violates the protocol.                   *)
(***************************************************************************)
Violate ==
    /\ "violation" \in Events
    /\ pc["stream"] = "idle"
    /\ In(Exchanging) # {}
    /\ violation' = TRUE
    /\ Goto("stream", "publish")
    /\ UNCHANGED <<draining, permits_closed, settings_ready, error, counts, wakers, rq, opened, then, seen,
                   peer, quic, late>>

ViolatePublish ==
    /\ pc["stream"] = "publish"
    /\ Publish("violation")
    /\ Shutdown("stream", "lastWake")
    /\ UNCHANGED <<draining, permits_closed, settings_ready, violation, counts, wakers, rq, opened, seen,
                   peer, quic, late>>

ViolateWake ==
    /\ pc["stream"] = "lastWake"
    /\ Wake
    /\ Goto("stream", "over")
    /\ UNCHANGED <<flags, counts, rq, opened, then, seen, peer, quic, late>>

(***************************************************************************)
(* The connection task.                                                    *)
(***************************************************************************)
Register ==
    /\ Task("parked") /\ woken
    /\ woken' = FALSE /\ waker' = TRUE
    /\ Goto("task", "violation?")
    /\ UNCHANGED <<flags, counts, rq, opened, then, seen, peer, quic, late>>

TaskViolation ==
    /\ Task("violation?")
    /\ Goto("task", IF violation THEN "close" ELSE "driver")
    /\ UNCHANGED <<flags, counts, wakers, rq, opened, then, seen, peer, quic, late>>

(* poll_close: the QUIC connection is closed, by the peer or by another of its owners. *)
TaskDriver ==
    /\ Task("driver")
    /\ IF quic # "open"
       THEN Publish("closed") /\ Shutdown("task", "finished")
       ELSE Goto("task", "settings") /\ UNCHANGED <<error, then>>
    /\ UNCHANGED <<draining, permits_closed, settings_ready, violation, counts, wakers, rq, opened, seen,
                   peer, quic, late>>

(* Publish the peer's SETTINGS once they are there; a GOAWAY shuts admission. *)
TaskSettings ==
    /\ Task("settings")
    /\ settings_ready' = (settings_ready \/ settings)
    /\ IF goaway THEN Shutdown("task", "draining?")
       ELSE Goto("task", "draining?") /\ UNCHANGED then
    /\ UNCHANGED <<draining, permits_closed, violation, error, counts, wakers, rq, opened, seen, peer, quic, late>>

(* The Datagram driver fails the connection: a malformed Datagram, a failed backend. *)
TaskFails ==
    /\ "failure" \in Events
    /\ Task("settings")
    /\ settings_ready' = (settings_ready \/ settings)
    /\ Publish("failed")
    /\ Shutdown("task", "closeLoud")
    /\ UNCHANGED <<draining, permits_closed, violation, counts, wakers, rq, opened, seen, peer, quic, late>>

TaskDraining ==
    /\ Task("draining?")
    /\ Goto("task", IF draining THEN "reserved?" ELSE "parked")
    /\ UNCHANGED <<flags, counts, wakers, rq, opened, then, seen, peer, quic, late>>

(* is_idle, load by load *)
TaskReserved ==
    /\ Task("reserved?")
    /\ seen' = reserved
    /\ Goto("task", "admission?")
    /\ UNCHANGED <<flags, counts, wakers, rq, opened, then, peer, quic, late>>

TaskAdmissionUnheeded ==
    /\ Task("admission?")
    /\ Goto("task", "active?")
    /\ UNCHANGED <<flags, counts, wakers, rq, opened, then, seen, peer, quic, late>>

TaskAdmission ==
    /\ Task("admission?")
    /\ Goto("task", IF permits_closed \/ seen = 0 THEN "active?" ELSE "parked")
    /\ UNCHANGED <<flags, counts, wakers, rq, opened, then, seen, peer, quic, late>>

TaskActive ==
    /\ Task("active?")
    /\ Goto("task", IF active = 0 THEN "close" ELSE "parked")
    /\ UNCHANGED <<flags, counts, wakers, rq, opened, then, seen, peer, quic, late>>

(* close: a violation, or a quiet close that is published afterwards. *)
TaskClose ==
    /\ Task("close")
    /\ IF violation
       THEN Publish("violation") /\ Shutdown("task", "closeLoud")
       ELSE Goto("task", "closeGraceful") /\ UNCHANGED <<error, then>>
    /\ UNCHANGED <<draining, permits_closed, settings_ready, violation, counts, wakers, rq, opened, seen,
                   peer, quic, late>>

TaskCloseGraceful ==
    /\ Task("closeGraceful")
    /\ CloseQuic("quiet")
    /\ Goto("task", "graceful")
    /\ UNCHANGED <<flags, counts, wakers, rq, opened, then, seen, peer, late>>

TaskGraceful ==
    /\ Task("graceful")
    /\ Publish("closed")
    /\ Shutdown("task", "finished")
    /\ UNCHANGED <<draining, permits_closed, settings_ready, violation, counts, wakers, rq, opened, seen,
                   peer, quic, late>>

(* The last step of a loud close, and of a close by drop: it wakes the     *)
(* task if that still waits for the QUIC connection.                       *)
CloseStep(a) ==
    /\ pc[a] \in {"closeLoud", "closeQuiet"}
    /\ CloseQuic(IF pc[a] = "closeLoud" THEN "loud" ELSE "quiet")
    /\ woken' = TRUE
    /\ Goto(a, IF a = "task" THEN "finished" ELSE "over")
    /\ UNCHANGED <<flags, counts, waker, rq, opened, then, seen, peer, late>>

(* The executor discards the task. *)
DropTask ==
    /\ "dropTask" \in Events
    /\ Task("parked")
    /\ Publish("dropped")
    /\ Shutdown("task", "closeReason")
    /\ UNCHANGED <<draining, permits_closed, settings_ready, violation, counts, wakers, rq, opened, seen,
                   peer, quic, late>>

(***************************************************************************)
(* The peer, whose events wake the task.                                   *)
(***************************************************************************)
PeerSettings ==
    /\ "settings" \in Events
    /\ ~settings
    /\ settings' = TRUE /\ woken' = TRUE
    /\ UNCHANGED <<flags, counts, waker, rq, actors, goaway, quic, late>>

PeerGoaway ==
    /\ "goaway" \in Events
    /\ ~goaway
    /\ goaway' = TRUE /\ woken' = TRUE
    /\ UNCHANGED <<flags, counts, waker, rq, actors, settings, quic, late>>

PeerCloses ==
    /\ "peerClose" \in Events
    /\ quic = "open"
    /\ quic' = "peer" /\ woken' = TRUE
    /\ UNCHANGED <<flags, counts, waker, rq, actors, peer, late>>

RequestNext(r) ==
    \/ Check(r) \/ Reserve(r) \/ Settle(r) \/ Acquire(r) \/ Refuse(r) \/ Cancel(r)
    \/ Count(r) \/ Unreserve(r) \/ ReleasePermit(r) \/ Drop(r) \/ DropCheck(r) \/ DropWake(r)

CallNext(a) ==
    \/ Drain(a) \/ DrainWake(a) \/ Drained(a) \/ ShutWake(a) \/ ShutdownCheck(a) \/ ShutdownClose(a)
    \/ CloseReason(a) \/ CloseStep(a)

TaskNext ==
    \/ Register \/ TaskViolation \/ TaskDriver \/ TaskSettings \/ TaskFails \/ TaskDraining \/ TaskReserved
    \/ TaskAdmission \/ TaskActive \/ TaskClose \/ TaskCloseGraceful \/ TaskGraceful

Terminated ==
    /\ Task("finished") /\ senders = 0 /\ pc["handle"] = "over"
    /\ In({"new"} \cup Over) = Requests
    /\ UNCHANGED vars

Next ==
    \/ \E r \in Requests : RequestNext(r)
    \/ \E a \in Actors : CallNext(a)
    \/ TaskNext \/ CloneSender \/ DropSender \/ GracefulShutdown \/ DropHandle \/ HandleCompletes
    \/ Violate \/ ViolatePublish \/ ViolateWake \/ DropTask
    \/ PeerSettings \/ PeerGoaway \/ PeerCloses
    \/ Terminated

Spec == Init /\ [][Next]_vars

(* The executor runs the task and the callers; the application polls its   *)
(* futures, and every exchange comes to an end.  Nobody has to cancel, to  *)
(* send SETTINGS or to close.  The semaphore is first come, first served.  *)
Fairness ==
    /\ WF_vars(TaskNext)
    /\ \A a \in Actors : WF_vars(CallNext(a))
    /\ WF_vars(ViolatePublish \/ ViolateWake)
    /\ \A r \in Requests :
          /\ WF_vars(Reserve(r) \/ Settle(r) \/ Refuse(r) \/ Count(r) \/ Unreserve(r))
          /\ WF_vars(ReleasePermit(r) \/ Drop(r) \/ DropCheck(r) \/ DropWake(r))
          /\ SF_vars(Acquire(r))

FairSpec == Spec /\ Fairness

(***************************************************************************)
(* Properties.                                                             *)
(***************************************************************************)
Calls == {"drain", "drainWake", "drained", "shutWake", "shutdown", "shut"}
Closes == {"closeReason", "closeLoud", "closeQuiet"}
TaskSteps == {"parked", "violation?", "driver", "settings", "draining?", "reserved?", "admission?",
              "active?", "close", "closeGraceful", "graceful", "finished"}

(* Type correctness; no counter leaves its range. *)
TypeOK ==
    /\ draining \in BOOLEAN /\ permits_closed \in BOOLEAN /\ settings_ready \in BOOLEAN
    /\ violation \in BOOLEAN /\ waker \in BOOLEAN /\ woken \in BOOLEAN
    /\ settings \in BOOLEAN /\ goaway \in BOOLEAN
    /\ error \in {"none", "violation", "closed", "failed", "dropped"}
    /\ quic \in {"open", "quiet", "loud", "peer"}
    /\ permits \in 0 .. Limit /\ senders \in 0 .. MaxSenders
    /\ reserved \in 0 .. Cardinality(Requests) /\ active \in 0 .. Cardinality(Requests)
    /\ seen \in 0 .. Cardinality(Requests)
    /\ rq \in [Requests -> RequestStates] /\ late \subseteq Requests
    /\ pc \in [Actors -> Calls \cup Closes \cup TaskSteps \cup {"idle", "publish", "lastWake", "over"}]
    /\ opened \in [Actors -> BOOLEAN]
    /\ then \in [Actors -> {"idle", "lastWake", "closeReason", "closeLoud", "draining?", "finished"}]

(* The three counters of shared.rs are moved by separate atomic operations *)
(* of many threads; they always equal the number of requests that hold a   *)
(* reservation, a permit and an exchange.                                  *)
CountsExact ==
    /\ reserved = Cardinality(In(HoldsReservation))
    /\ active = Cardinality(In(HoldsActive))
    /\ permits = Limit - Cardinality(In(HoldsPermit))

(* The task closes a drained connection only when no exchange runs on it   *)
(* and no request that may still be admitted waits, although it reads      *)
(* reserved, permits and active at different times.  Only a request whose  *)
(* admission a shutdown overtook (ConnTask::poll, Shared::is_idle) may be  *)
(* cut.                                                                    *)
GracefulCloseCutsNothing ==
    Task("closeGraceful") =>
        /\ In(HoldsActive) \subseteq late
        /\ permits_closed \/ In(HoldsReservation) = {}

(* "a drain never closes with H3_NO_ERROR once the error is visible"       *)
(* (violate): when the connection is closed quietly, no violation has been *)
(* published, unless by an exchange a shutdown overtook.                   *)
QuietCloseIsClean ==
    quic = "open" /\ quic' = "quiet" => error # "violation" \/ late # {}

(* The error is published before a close wakes the exchanges ("Publish the *)
(* cause before the transport close wakes exchanges"), and the first one   *)
(* stays.                                                                  *)
FirstErrorStays ==
    /\ error # "none" => error' = error
    /\ quic = "open" /\ quic' = "loud" => error # "none"

(* A closed admission (a shutdown, a GOAWAY, an error) ends the task even  *)
(* if the peer never sends its SETTINGS: the wakes of shutdown reach it.   *)
ShutdownFinishes == permits_closed ~> Task("finished")

(* A drain by the drop of the last sender ends the task as well, unless a  *)
(* request waits for SETTINGS that never come.                             *)
DrainFinishes == draining ~> (Task("finished") \/ In({"settling"}) # {})

(* A connection that closes blames the first error that was published, and *)
(* closes quietly only when there was none.                                *)
CloseIsTrue == [][QuietCloseIsClean /\ FirstErrorStays]_vars

(* However the connection came to end, its task ends.                      *)
ClosingFinishes == ShutdownFinishes /\ DrainFinishes
=============================================================================
