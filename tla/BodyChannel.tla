---------------------------- MODULE BodyChannel ----------------------------
(***************************************************************************)
(* The in-memory body channel of body/chan.rs: a one-chunk slot guarded by *)
(* a mutex, a side slot for an error, and one waker per end.  The critical *)
(* sections are atomic steps; registering a waker before the lock and      *)
(* waking the peer after the unlock are steps of their own, because the    *)
(* two ends run in different tasks and interleave there.                   *)
(*                                                                         *)
(* The sender is the connection task (the HTTP/1 dispatcher or the HTTP/3  *)
(* tunnel task), which sends only after poll_ready answered Ok and drops   *)
(* the sender after an error.  The receiver is the application's body.     *)
(*                                                                         *)
(* Definitions that BodyNext does not use are slips that the properties    *)
(* must notice; each stands before the definition it is a slip of.         *)
(***************************************************************************)
EXTENDS Integers, Sequences

CONSTANT MaxChunks    \* bound: how many chunks the sender has to send

ASSUME MaxChunksAssumption == MaxChunks \in Nat

VARIABLES
    item,             \* the slot: None, a chunk number, or Err
    pending_error,    \* an error waits behind the chunk in the slot
    trailers,         \* trailers are waiting to be taken
    sender_open, receiver_open,
    wanted,           \* the receiver has asked for data
    sender_waker, receiver_waker,    \* a waker is registered
    sender_woken, receiver_woken,    \* the task has been scheduled again
    spc, rpc,         \* where the sender's and the receiver's task are
    sent,             \* history: every item the channel accepted
    got,              \* history: every item the receiver was given
    terminated,       \* the receiver has been told that the body is over
    sent_trailers, got_trailers

slots == <<item, pending_error, trailers, sender_open, receiver_open, wanted>>
wakers == <<sender_waker, receiver_waker, sender_woken, receiver_woken>>
history == <<sent, got, terminated, sent_trailers, got_trailers>>
bodyVars == <<slots, wakers, spc, rpc, history>>

None == 0
Err == -1
Chunks == 1 .. MaxChunks

SenderParked == {"parkCapacity", "parkIo"}
SenderStates == SenderParked \cup
    {"run", "polling", "ready", "sentData", "sentTrailers", "sentError",
     "dropping", "dropped", "done"}
ReceiverStates ==
    {"run", "polling", "wakeRun", "wakePark", "wakeEnd", "parked", "ended",
     "finished", "dropped", "done"}

(* channel(wanter): a body whose sender waits for the first poll, or not.  *)
BodyInit ==
    /\ item = None
    /\ pending_error = FALSE
    /\ trailers = FALSE
    /\ sender_open = TRUE
    /\ receiver_open = TRUE
    /\ wanted \in BOOLEAN
    /\ sender_waker = FALSE /\ receiver_waker = FALSE
    /\ sender_woken = FALSE /\ receiver_woken = FALSE
    /\ spc = "run" /\ rpc = "run"
    /\ sent = << >> /\ got = << >>
    /\ terminated = FALSE /\ sent_trailers = FALSE /\ got_trailers = FALSE

(* AtomicWaker::wake takes the registered waker, if any, and schedules its *)
(* task.                                                                   *)
WakeReceiver ==
    /\ receiver_waker' = FALSE
    /\ receiver_woken' = (receiver_woken \/ receiver_waker)
    /\ UNCHANGED <<sender_waker, sender_woken>>

WakeSender ==
    /\ sender_waker' = FALSE
    /\ sender_woken' = (sender_woken \/ sender_waker)
    /\ UNCHANGED <<receiver_waker, receiver_woken>>

(***************************************************************************)
(* The sender.                                                             *)
(***************************************************************************)
HasRoom == wanted /\ item = None /\ ~pending_error

PollReadyRegister ==
    /\ spc = "run"
    /\ spc' = "polling"
    /\ sender_waker' = TRUE
    /\ UNCHANGED <<slots, receiver_waker, sender_woken, receiver_woken, rpc, history>>

PollBodyReady ==
    /\ spc = "polling"
    /\ spc' = CASE ~receiver_open -> "dropping"
                [] receiver_open /\ HasRoom -> "ready"
                [] OTHER -> "parkCapacity"
    /\ UNCHANGED <<slots, wakers, rpc, history>>

(* The body is ready but the connection has no bytes for it yet.           *)
WaitForIo ==
    /\ spc = "ready"
    /\ spc' = "parkIo"
    /\ UNCHANGED <<slots, wakers, rpc, history>>

SendData ==
    /\ spc = "ready"
    /\ Len(sent) < MaxChunks
    /\ IF receiver_open /\ HasRoom
       THEN /\ item' = Len(sent) + 1
            /\ sent' = Append(sent, Len(sent) + 1)
            /\ spc' = "sentData"
       ELSE /\ spc' = "dropping"
            /\ UNCHANGED <<item, sent>>
    /\ UNCHANGED <<pending_error, trailers, sender_open, receiver_open, wanted,
                   wakers, rpc, got, terminated, sent_trailers, got_trailers>>

(* Trailers end the message, so the connection drops the sender next.      *)
SendTrailers ==
    /\ spc = "ready"
    /\ sent_trailers' = receiver_open
    /\ trailers' = receiver_open
    /\ spc' = IF receiver_open THEN "sentTrailers" ELSE "dropping"
    /\ UNCHANGED <<item, pending_error, sender_open, receiver_open, wanted, wakers,
                   rpc, sent, got, terminated, got_trailers>>

(* A read error, a connection error, or the guard of a dropped dispatcher. *)
SendErrorOverData ==
    /\ spc \in SenderParked \cup {"run", "ready"}
    /\ receiver_open
    /\ item' = Err
    /\ sent' = Append(sent, Err)
    /\ spc' = "sentError"
    /\ UNCHANGED <<pending_error, trailers, sender_open, receiver_open, wanted, wakers,
                   rpc, got, terminated, sent_trailers, got_trailers>>

SendError ==
    /\ spc \in SenderParked \cup {"run", "ready"}
    /\ IF receiver_open
       THEN /\ IF item = None
               THEN item' = Err /\ UNCHANGED pending_error
               ELSE pending_error' = TRUE /\ UNCHANGED item
            /\ sent' = IF item # None /\ pending_error THEN sent ELSE Append(sent, Err)
            /\ spc' = "sentError"
       ELSE /\ spc' = "dropping"
            /\ UNCHANGED <<item, pending_error, sent>>
    /\ UNCHANGED <<trailers, sender_open, receiver_open, wanted, wakers, rpc, got,
                   terminated, sent_trailers, got_trailers>>

(* The wake that ends send_data, send_trailers, send_error and drop, after *)
(* the lock has been released.                                             *)
SenderWakes ==
    /\ spc \in {"sentData", "sentTrailers", "sentError", "dropped"}
    /\ spc' = CASE spc = "sentData" -> "run"
                [] spc = "dropped" -> "done"
                [] OTHER -> "dropping"
    /\ WakeReceiver
    /\ UNCHANGED <<slots, rpc, history>>

DropSenderSilently ==
    /\ spc \in SenderParked \cup {"run", "ready", "dropping"}
    /\ sender_open' = FALSE
    /\ spc' = "done"
    /\ UNCHANGED <<item, pending_error, trailers, receiver_open, wanted, wakers, rpc, history>>

DropBodySender ==
    /\ spc \in SenderParked \cup {"run", "ready", "dropping"}
    /\ sender_open' = FALSE
    /\ spc' = IF receiver_open THEN "dropped" ELSE "done"
    /\ UNCHANGED <<item, pending_error, trailers, receiver_open, wanted, wakers, rpc, history>>

(* A parked task is polled again when woken; other events may poll it too. *)
SenderRepolled ==
    /\ spc \in SenderParked
    /\ spc' = "run"
    /\ sender_woken' = FALSE
    /\ UNCHANGED <<slots, sender_waker, receiver_waker, receiver_woken, rpc, history>>

(***************************************************************************)
(* The receiver.                                                           *)
(***************************************************************************)
PollNextUnregistered ==
    /\ rpc = "run"
    /\ rpc' = "polling"
    /\ UNCHANGED <<slots, wakers, spc, history>>

PollNextRegister ==
    /\ rpc = "run"
    /\ rpc' = "polling"
    /\ receiver_waker' = TRUE
    /\ UNCHANGED <<slots, sender_waker, sender_woken, receiver_woken, spc, history>>

(* poll_next under the lock: the chunk first, then the error behind it,    *)
(* then the end.  It wakes a sender whose slot it emptied, or that has     *)
(* been waiting for the first poll.                                        *)
TakeItemSilently ==
    /\ item # None
    /\ item' = None
    /\ got' = Append(got, item)
    /\ rpc' = "run"
    /\ UNCHANGED <<pending_error, terminated>>

TakeItem ==
    /\ item # None
    /\ item' = None
    /\ got' = Append(got, item)
    /\ rpc' = IF sender_open THEN "wakeRun" ELSE "run"
    /\ UNCHANGED <<pending_error, terminated>>

TakeErrorFirst ==
    /\ pending_error
    /\ pending_error' = FALSE
    /\ got' = Append(got, Err)
    /\ rpc' = IF wanted THEN "run" ELSE "wakeRun"
    /\ UNCHANGED <<item, terminated>>

TakeError ==
    /\ item = None /\ pending_error
    /\ pending_error' = FALSE
    /\ got' = Append(got, Err)
    /\ rpc' = IF wanted THEN "run" ELSE "wakeRun"
    /\ UNCHANGED <<item, terminated>>

FindEmpty ==
    /\ item = None /\ ~pending_error
    /\ rpc' = CASE sender_open /\ wanted -> "parked"
                [] sender_open /\ ~wanted -> "wakePark"
                [] ~sender_open /\ wanted -> "ended"
                [] OTHER -> "wakeEnd"
    /\ terminated' = (~sender_open /\ wanted)
    /\ UNCHANGED <<item, pending_error, got>>

PollNext ==
    /\ rpc = "polling"
    /\ wanted' = TRUE
    /\ TakeItem \/ TakeError \/ FindEmpty
    /\ UNCHANGED <<trailers, sender_open, receiver_open, wakers, spc, sent,
                   sent_trailers, got_trailers>>

(* The wake of the sender after poll_next or drop has released the lock.   *)
ReceiverWakes ==
    /\ rpc \in {"wakeRun", "wakePark", "wakeEnd", "dropped"}
    /\ rpc' = CASE rpc = "wakeRun" -> "run"
                [] rpc = "wakePark" -> "parked"
                [] rpc = "wakeEnd" -> "ended"
                [] OTHER -> "done"
    /\ terminated' = (terminated \/ rpc = "wakeEnd")
    /\ WakeSender
    /\ UNCHANGED <<slots, spc, sent, got, sent_trailers, got_trailers>>

TakeTrailers ==
    /\ rpc = "ended"
    /\ rpc' = "finished"
    /\ got_trailers' = trailers
    /\ trailers' = FALSE
    /\ UNCHANGED <<item, pending_error, sender_open, receiver_open, wanted, wakers,
                   spc, sent, got, terminated, sent_trailers>>

DropReceiverSilently ==
    /\ rpc \in {"run", "parked", "ended", "finished"}
    /\ receiver_open' = FALSE
    /\ rpc' = "done"
    /\ UNCHANGED <<item, pending_error, trailers, sender_open, wanted, wakers, spc, history>>

DropReceiver ==
    /\ rpc \in {"run", "parked", "ended", "finished"}
    /\ receiver_open' = FALSE
    /\ rpc' = IF sender_open THEN "dropped" ELSE "done"
    /\ UNCHANGED <<item, pending_error, trailers, sender_open, wanted, wakers, spc, history>>

ReceiverRepolled ==
    /\ rpc = "parked"
    /\ rpc' = "run"
    /\ receiver_woken' = FALSE
    /\ UNCHANGED <<slots, sender_waker, receiver_waker, sender_woken, spc, history>>

BodyOver ==
    /\ spc = "done" /\ rpc \in {"finished", "done"}
    /\ UNCHANGED bodyVars

SenderNext ==
    \/ PollReadyRegister \/ PollBodyReady \/ WaitForIo
    \/ SendData \/ SendTrailers \/ SendError \/ SenderWakes \/ DropBodySender
    \/ SenderRepolled

ReceiverNext ==
    \/ PollNextRegister \/ PollNext \/ ReceiverWakes \/ TakeTrailers
    \/ DropReceiver \/ ReceiverRepolled

BodyNext == SenderNext \/ ReceiverNext \/ BodyOver

BodySpec == BodyInit /\ [][BodyNext]_bodyVars

(***************************************************************************)
(* Fairness: an executor polls every task that is not parked, and every    *)
(* parked task that has been woken; a poll that has begun completes.  A    *)
(* parked task that nobody wakes need never run again.  The application    *)
(* goes on reading its body or drops it.                                   *)
(***************************************************************************)
SenderRuns ==
    \/ spc \notin SenderParked /\ SenderNext
    \/ sender_woken /\ SenderRepolled

ReceiverRuns ==
    \/ rpc \notin {"parked", "finished"} /\ ReceiverNext
    \/ receiver_woken /\ ReceiverRepolled

-----------------------------------------------------------------------------
(***************************************************************************)
(* Properties.                                                             *)
(***************************************************************************)
Items == Chunks \cup {Err}

(* Type correctness of the two slots, the flags and the histories.         *)
BodyTypeOK ==
    /\ item \in Items \cup {None}
    /\ pending_error \in BOOLEAN /\ trailers \in BOOLEAN
    /\ sender_open \in BOOLEAN /\ receiver_open \in BOOLEAN /\ wanted \in BOOLEAN
    /\ sender_waker \in BOOLEAN /\ receiver_waker \in BOOLEAN
    /\ sender_woken \in BOOLEAN /\ receiver_woken \in BOOLEAN
    /\ spc \in SenderStates /\ rpc \in ReceiverStates
    /\ sent \in Seq(Items) /\ got \in Seq(Items)
    /\ terminated \in BOOLEAN
    /\ sent_trailers \in BOOLEAN /\ got_trailers \in BOOLEAN

(* The items accepted but not yet delivered, oldest first.                 *)
Buffered ==
    (IF item = None THEN << >> ELSE <<item>>)
        \o (IF pending_error THEN <<Err>> ELSE << >>)

(* An error never displaces accepted data, and nothing is reordered or     *)
(* duplicated: whatever send_data and send_error accepted has been given   *)
(* to the reader or still waits in its slot, in the order it was sent.     *)
NothingDisplaced == sent = got \o Buffered

(* A poll_ready that answered Ok stays true until the sender acts on it,   *)
(* although the lock was released in between: only a dropped receiver can  *)
(* make the following send_data fail.                                      *)
ReadyStaysReady == spc = "ready" /\ receiver_open => HasRoom

(* No wakeup of the sender is lost: a sender that is parked, and has not   *)
(* been woken, is still registered, and either has nothing to act on or    *)
(* the receiver is about to wake it.                                       *)
SenderNotForgotten ==
    spc \in SenderParked /\ ~sender_woken /\ ~(rpc \in {"wakeRun", "wakePark", "wakeEnd", "dropped"}) =>
        /\ sender_waker
        /\ receiver_open
        /\ spc = "parkCapacity" => ~HasRoom

(* No wakeup of the receiver is lost: a receiver that is parked, and has   *)
(* not been woken, is still registered, and either there is nothing for it *)
(* to see or the sender is about to wake it.                               *)
ReceiverNotForgotten ==
    rpc = "parked" /\ ~receiver_woken /\ ~(spc \in {"sentData", "sentError", "dropped"}) =>
        /\ receiver_waker
        /\ item = None /\ ~pending_error /\ sender_open

(* A reader that was told the body is over has received every item the     *)
(* channel accepted, the error included, and the trailers if any were sent *)
(* (poll_next, then take_trailers).                                        *)
EndIsComplete ==
    rpc = "finished" =>
        /\ ~sender_open
        /\ got = sent
        /\ got_trailers = sent_trailers

(* The channel implements the abstract body stream.                        *)
Stream == INSTANCE BodyStream WITH open <- sender_open, ended <- terminated
StreamSpec == Stream!Spec

(* Once the sender is gone the reader learns it, or is itself gone.        *)
EndIsSeen == spc = "done" ~> rpc \in {"finished", "done"}

(* A connection task feeding a body that the application dropped notices   *)
(* it, even while it waits for bytes from the peer.                        *)
DropIsSeen == ~receiver_open ~> spc = "done"
=============================================================================
