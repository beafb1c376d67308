----------------------------- MODULE Http2Ping -----------------------------
(***************************************************************************)
(* PINGs on an HTTP/2 connection (proto/http2/ping.rs) and the part of the *)
(* connection future that drives them (Conn::poll of http2/client.rs):     *)
(* keep-alive, which closes a connection whose peer has gone silent, and   *)
(* adaptive flow control, which widens the receive window with the         *)
(* bandwidth seen between a PING and its answer.                           *)
(*                                                                         *)
(* Readers of response bodies record their data from their own tasks, and  *)
(* time passes, between any two critical sections of the connection task.  *)
(* The http2 crate is external: one user PING and one SETTINGS may be      *)
(* unanswered at a time, and queueing a PING wakes the connection task.    *)
(* Bandwidths are floating-point numbers: whether a sample has a usable    *)
(* round trip and is no slower than the fastest so far is left open.       *)
(*                                                                         *)
(* Every instant is kept relative to the present, so time is unbounded:    *)
(* Timer::now() is 0, the past negative, and Tick moves every instant      *)
(* back by one.                                                            *)
(***************************************************************************)
EXTENDS Integers

CONSTANTS
    Interval,       \* keep_alive_interval
    Timeout,        \* keep_alive_timeout
    WhileIdle,      \* keep_alive_while_idle
    Initial,        \* bdp_initial_window
    BDP_LIMIT,      \* the widest window
    MaxBytes,       \* bytes recorded in one sample
    MaxPingDelay,   \* the ping delay from which it grows no more (10 seconds)
    MaxLag          \* how long the task is kept from running between two reads

ASSUME PingAssumption ==
    /\ Interval \in Nat /\ Timeout \in Nat /\ WhileIdle \in BOOLEAN
    /\ Initial \in Nat \ {0, 1} /\ BDP_LIMIT \in Nat /\ Initial <= BDP_LIMIT
    /\ MaxBytes \in Nat /\ MaxPingDelay \in Nat /\ MaxLag \in Nat

VARIABLES
    shared,     \* Shared, behind its mutex
    bdp,        \* Bdp: its window, ping_delay and stable_count
    ka,         \* KeepAlive: its state, deadline and sleep
    pc,         \* where the connection task's poll is
    woken,      \* the task will be polled
    is_idle,    \* what the poll read of streams and parked requests
    win,        \* pending_window, the SETTINGS in flight and the window in use
    h2,         \* the user PING, and whether the task waits for its answer
    inbox,      \* what the peer has sent and the connection not read
    use,        \* open streams, parked requests, and who is woken by parking
    hist        \* how long the task was kept waiting, and other history

vars == << shared, bdp, ka, pc, woken, is_idle, win, h2, inbox, use, hist >>

None == 1000        \* no instant, or no window

(* Instants further back than any delay are not told apart *)
Horizon == -(Interval + Timeout + MaxLag + 2)

AtLeast(a, b) == IF a >= b THEN a ELSE b
AtMost(a, b)  == IF a <= b THEN a ELSE b

Back(t, floor) == IF t = None THEN None ELSE AtLeast(t - 1, floor)

Closed == pc = "closed"
Busy == use.streams \/ use.parked

Unscheduled == [state |-> "Init", at |-> None, sleep |-> None, armed |-> FALSE]

Init ==
    /\ shared = [bytes |-> 0, next_bdp_at |-> 0, last_read_at |-> 0,
                 ping_sent |-> FALSE, timed_out |-> FALSE]
    /\ bdp = [window |-> Initial, ping_delay |-> 1, stable_count |-> 0]
    /\ ka = Unscheduled
    /\ pc = "parked" /\ woken = TRUE /\ is_idle = FALSE
    /\ win = [pending |-> None, sent |-> None, used |-> Initial]
    /\ h2 = [ping |-> "none", waits |-> FALSE]
    /\ inbox = {}
    /\ use = [streams |-> FALSE, parked |-> FALSE, conn_waker |-> FALSE]
    /\ hist = [lag |-> 0, busy_at |-> 0, queued_at |-> None]

----------------------------------------------------------------------------
(* The sleep has run out and its waker was taken *)
SleepFires == ka.armed /\ ka.sleep <= 0

Runnable == ~Closed /\ (woken \/ SleepFires \/ pc # "parked")

(* A sleep that is not scheduled says nothing, so the last read may then   *)
(* fall behind the horizon.                                                *)
Tick ==
    /\ ~Closed /\ (Runnable => hist.lag < MaxLag)
    /\ shared' = [shared EXCEPT !.next_bdp_at  = Back(@, 0),
                                !.last_read_at = IF ka.state = "Init" THEN Back(@, Horizon)
                                                 ELSE @ - 1]
    /\ ka' = IF ka.state = "Init" THEN ka ELSE [ka EXCEPT !.at = @ - 1, !.sleep = @ - 1]
    /\ hist' = [hist EXCEPT !.lag = IF Runnable THEN @ + 1 ELSE @,
                            !.busy_at = IF Busy THEN Back(@, Horizon) ELSE 0,
                            !.queued_at = Back(@, -Timeout)]
    /\ UNCHANGED << bdp, pc, woken, is_idle, win, h2, inbox, use >>

(* Shared::send_ping: nothing happens when a PING is unanswered *)
SendPing(s) == IF h2.ping = "none" THEN [s EXCEPT !.ping_sent = TRUE] ELSE s

QueuePing == /\ h2' = IF h2.ping = "none" THEN [h2 EXCEPT !.ping = "queued"] ELSE h2
             /\ woken' = (woken \/ h2.ping = "none")

(* Recorder::record_data, by the reader of a response body *)
RecordData(len) ==
    /\ ~Closed /\ use.streams
    /\ shared.bytes + len <= MaxBytes
    /\ shared.next_bdp_at = None \/ shared.next_bdp_at = 0
    /\ LET s == [shared EXCEPT !.next_bdp_at = None, !.bytes = @ + len]
       IN  IF ~s.ping_sent
           THEN shared' = SendPing(s) /\ QueuePing
           ELSE shared' = s /\ UNCHANGED << h2, woken >>
    /\ UNCHANGED << bdp, ka, pc, is_idle, win, inbox, use, hist >>

----------------------------------------------------------------------------
(* Bdp *)

stabilize_delay(b) ==
    IF b.ping_delay >= MaxPingDelay THEN b
    ELSE IF b.stable_count + 1 >= 2
         THEN [b EXCEPT !.ping_delay = @ * 4, !.stable_count = 0]
         ELSE [b EXCEPT !.stable_count = @ + 1]

CalculateSlip(b, bytes, faster) ==
    IF faster /\ bytes >= b.window \div 3
    THEN [b EXCEPT !.window = AtMost(2 * bytes, BDP_LIMIT),
                   !.stable_count = 0, !.ping_delay = @ \div 2]
    ELSE stabilize_delay(b)

(* Bdp::calculate: `faster' when the round trip is not zero and the        *)
(* bandwidth is not below the largest one seen                             *)
calculate(b, bytes, faster) ==
    IF b.window # BDP_LIMIT /\ faster /\ bytes >= (b.window * 2) \div 3
    THEN [b EXCEPT !.window = AtMost(2 * bytes, BDP_LIMIT),
                   !.stable_count = 0, !.ping_delay = @ \div 2]
    ELSE stabilize_delay(b)

(* whether calculate returns a window *)
Widens(b, bytes, faster) ==
    b.window # BDP_LIMIT /\ faster /\ bytes >= (b.window * 2) \div 3

----------------------------------------------------------------------------
(* Conn::poll, one critical section at a time *)

(* set_initial_window_size fails while a SETTINGS is unacknowledged *)
SetWindow(w, wnd) == IF w.sent = None THEN [w EXCEPT !.sent = wnd, !.pending = None]
                     ELSE [w EXCEPT !.pending = wnd]

(* the task is polled, and first polls its Ponger *)
PollPonger ==
    /\ pc = "parked" /\ (woken \/ SleepFires)
    /\ pc' = "conn" /\ woken' = FALSE
    /\ ka' = IF SleepFires THEN [ka EXCEPT !.armed = FALSE] ELSE ka
    /\ IF ~shared.ping_sent \/ h2.ping # "answered"
       THEN /\ h2' = [h2 EXCEPT !.waits = @ \/ shared.ping_sent]
            /\ UNCHANGED << shared, bdp, win >>
       ELSE \E faster \in BOOLEAN :
            LET b == calculate(bdp, shared.bytes, faster)
            IN  /\ h2' = [ping |-> "none", waits |-> FALSE]
                /\ bdp' = b
                /\ shared' = [shared EXCEPT !.ping_sent = FALSE, !.last_read_at = 0,
                                            !.bytes = 0, !.next_bdp_at = b.ping_delay]
                /\ win' = IF Widens(bdp, shared.bytes, faster)
                          THEN SetWindow(win, b.window) ELSE win
    /\ UNCHANGED << is_idle, inbox, use, hist >>

(* Connection::poll reads what has come and writes what is queued; the     *)
(* waiting window goes out when its turn has come, the read is recorded,   *)
(* and whether the connection is idle is read.                             *)
Tracks == ~WhileIdle /\ ~use.streams

PollConnSlip ==
    LET acked == IF "ack" \in inbox THEN [win EXCEPT !.used = win.sent, !.sent = None]
                 ELSE win
    IN  /\ pc = "conn" /\ pc' = "alive"
        /\ win' = acked
        /\ h2' = [h2 EXCEPT !.ping = IF "pong" \in inbox THEN "answered"
                                     ELSE IF @ = "queued" THEN "written" ELSE @]
        /\ woken' = (woken \/ ("pong" \in inbox /\ h2.waits))
        /\ inbox' = {}
        /\ shared' = IF inbox = {} THEN shared ELSE [shared EXCEPT !.last_read_at = 0]
        /\ is_idle' = (Tracks /\ ~use.parked)
        /\ use' = [use EXCEPT !.conn_waker = @ \/ Tracks]
        /\ hist' = IF inbox = {} THEN hist ELSE [hist EXCEPT !.lag = 0]
        /\ UNCHANGED << bdp, ka >>

PollConn ==
    LET acked == IF "ack" \in inbox THEN [win EXCEPT !.used = win.sent, !.sent = None]
                 ELSE win
    IN  /\ pc = "conn" /\ pc' = "alive"
        /\ win' = IF acked.pending # None THEN SetWindow(acked, acked.pending) ELSE acked
        /\ h2' = [h2 EXCEPT !.ping = IF "pong" \in inbox THEN "answered"
                                     ELSE IF @ = "queued" THEN "written" ELSE @]
        /\ woken' = (woken \/ ("pong" \in inbox /\ h2.waits))
        /\ inbox' = {}
        /\ shared' = IF inbox = {} THEN shared ELSE [shared EXCEPT !.last_read_at = 0]
        /\ is_idle' = (Tracks /\ ~use.parked)
        /\ use' = [use EXCEPT !.conn_waker = @ \/ Tracks]
        /\ hist' = IF inbox = {} THEN hist ELSE [hist EXCEPT !.lag = 0]
        /\ UNCHANGED << bdp, ka >>

(* Connection::poll is done: the peer closed, or an error; keep-alive is   *)
(* not polled any more                                                     *)
ConnEnds ==
    /\ pc = "conn" /\ pc' = "closed"
    /\ shared' = IF inbox = {} THEN shared ELSE [shared EXCEPT !.last_read_at = 0]
    /\ UNCHANGED << bdp, ka, woken, is_idle, win, h2, inbox, use, hist >>

ScheduleSlip(k) == [k EXCEPT !.state = "Scheduled", !.at = Interval, !.sleep = Interval,
                             !.armed = FALSE]

(* KeepAlive::schedule *)
Schedule(k) == [k EXCEPT !.state = "Scheduled", !.at = shared.last_read_at + Interval,
                         !.sleep = shared.last_read_at + Interval, !.armed = FALSE]

maybe_schedule(k) ==
    CASE k.state = "Init"     -> IF ~WhileIdle /\ is_idle THEN k ELSE Schedule(k)
      [] k.state = "PingSent" -> IF shared.ping_sent THEN k ELSE Schedule(k)
      [] OTHER                -> k

(* Ponger::poll_keep_alive up to the timeout: maybe_schedule, maybe_ping *)
PollKeepAlive ==
    LET k     == maybe_schedule(ka)
        fired == k.state = "Scheduled" /\ k.sleep <= 0
        stale == fired /\ shared.last_read_at + Interval > k.at
        spare == fired /\ ~stale /\ ~WhileIdle /\ is_idle
    IN  /\ pc = "alive" /\ pc' = "timeout"
        /\ IF fired /\ ~stale /\ ~spare
           THEN /\ shared' = SendPing(shared) /\ QueuePing
                /\ ka' = [state |-> "PingSent", at |-> Timeout,
                          sleep |-> Timeout, armed |-> FALSE]
                /\ hist' = [hist EXCEPT !.queued_at = 0]
           ELSE /\ ka' = IF fired THEN Unscheduled
                         ELSE [k EXCEPT !.armed = @ \/ k.state = "Scheduled"]
                /\ woken' = (woken \/ stale)
                /\ hist' = IF k.state = "PingSent" THEN hist ELSE [hist EXCEPT !.queued_at = None]
                /\ UNCHANGED << shared, h2 >>
        /\ is_idle' = FALSE
        /\ UNCHANGED << bdp, win, inbox, use >>

(* KeepAlive::poll_timeout; the connection is shut down when it runs out *)
PollTimeoutSlip ==
    /\ pc = "timeout"
    /\ IF ka.state # "PingSent" \/ ka.sleep > 0
       THEN /\ ka' = [ka EXCEPT !.armed = @ \/ ka.state = "PingSent"]
            /\ pc' = "parked" /\ UNCHANGED shared
       ELSE /\ shared' = [shared EXCEPT !.timed_out = TRUE]
            /\ pc' = "closed" /\ UNCHANGED ka
    /\ UNCHANGED << bdp, woken, is_idle, win, h2, inbox, use, hist >>

PollTimeout ==
    LET next == shared.last_read_at + Timeout
    IN  /\ pc = "timeout"
        /\ CASE ka.state # "PingSent" \/ ka.sleep > 0 ->
                  /\ ka' = [ka EXCEPT !.armed = @ \/ ka.state = "PingSent"]
                  /\ pc' = "parked" /\ UNCHANGED shared
             [] ka.state = "PingSent" /\ ka.sleep <= 0 /\ next > ka.at ->
                  /\ ka' = [ka EXCEPT !.at = next, !.sleep = next, !.armed = FALSE]
                  /\ UNCHANGED << pc, shared >>
             [] ka.state = "PingSent" /\ ka.sleep <= 0 /\ next <= ka.at ->
                  /\ shared' = [shared EXCEPT !.timed_out = TRUE]
                  /\ pc' = "closed" /\ UNCHANGED ka
        /\ UNCHANGED << bdp, woken, is_idle, win, h2, inbox, use, hist >>

----------------------------------------------------------------------------
(* The peer, and the users of the connection *)

Arrives(what) ==
    /\ ~Closed /\ inbox' = inbox \cup {what} /\ woken' = TRUE
    /\ UNCHANGED << shared, bdp, ka, pc, is_idle, win, h2, use, hist >>

PeerSends    == "bytes" \notin inbox /\ Arrives("bytes")
PeerAnswers  == h2.ping = "written" /\ "pong" \notin inbox /\ Arrives("pong")
PeerAcks     == win.sent # None /\ "ack" \notin inbox /\ Arrives("ack")

Uses(streams, parked) ==
    /\ ~Closed
    /\ use' = [use EXCEPT !.streams = streams, !.parked = parked,
                          !.conn_waker = @ /\ ~(parked /\ ~use.parked)]
    /\ hist' = [hist EXCEPT !.busy_at = IF Busy THEN @ ELSE 0]
    /\ UNCHANGED << shared, bdp, ka, pc, is_idle, win, h2, inbox >>

(* a request opens a stream, which wakes the connection *)
OpenStream  == ~use.streams /\ woken' = TRUE /\ Uses(TRUE, use.parked)
CloseStream == use.streams /\ UNCHANGED woken /\ Uses(FALSE, use.parked)
(* PeerSettings::set_parked *)
Park        == ~use.parked /\ woken' = (woken \/ use.conn_waker) /\ Uses(use.streams, TRUE)
Unpark      == use.parked /\ UNCHANGED woken /\ Uses(use.streams, FALSE)

Terminated == Closed /\ UNCHANGED vars

Next ==
    \/ Tick \/ \E len \in 1 .. MaxBytes : RecordData(len)
    \/ PollPonger \/ PollConn \/ ConnEnds \/ PollKeepAlive \/ PollTimeout
    \/ PeerSends \/ PeerAnswers \/ PeerAcks
    \/ OpenStream \/ CloseStream \/ Park \/ Unpark
    \/ Terminated

Spec == Init /\ [][Next]_vars

----------------------------------------------------------------------------
(* keep_alive_timeout, as its documentation has it: the connection is      *)
(* closed only when a PING is unanswered and nothing was read for the      *)
(* timeout, counted from when the PING was queued or from the last read,   *)
(* whichever is later.                                                     *)
TimeoutIsEarned ==
    shared.timed_out =>
        /\ shared.ping_sent
        /\ AtLeast(shared.last_read_at, hist.queued_at) + Timeout <= 0

(* A silent peer is noticed: while the connection is in use, it is closed  *)
(* by the time the interval and the timeout have passed since the last     *)
(* read, or since it came into use, but for the time the task was kept     *)
(* from running.  No order of reads, requests that park and streams that   *)
(* close leaves the connection without an alarm.                           *)
SilenceIsNoticed ==
    (~Closed /\ (WhileIdle \/ Busy)) =>
        0 <= AtLeast(shared.last_read_at, IF WhileIdle THEN 0 ELSE hist.busy_at)
                 + Interval + Timeout + hist.lag

(* The newest window is never forgotten: the window in use, on its way or  *)
(* waiting for its turn is the one last calculated, and it waits only      *)
(* while a SETTINGS is unacknowledged or the connection is being polled.   *)
NewestWindowGoesOut ==
    /\ bdp.window = IF win.pending # None THEN win.pending
                    ELSE IF win.sent # None THEN win.sent ELSE win.used
    /\ win.pending # None => win.sent # None \/ pc = "conn"

(* The window only ever grows: http2 is never told to take back window.    *)
WindowNeverShrinks == bdp'.window >= bdp.window /\ win'.used >= win.used

(* Keep-alive closes the connection when it should, and only then.         *)
TimeoutIsRight == TimeoutIsEarned /\ SilenceIsNoticed

(* The window http2 is given is the newest one and only ever grows.        *)
WindowFollows == [][NewestWindowGoesOut' /\ WindowNeverShrinks]_vars
=============================================================================
