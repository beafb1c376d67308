----------------------------- MODULE MCChannels -----------------------------
(* Model-checking instance of the channels between the application and a   *)
(* connection's task: the body channel, or the request channel.  They      *)
(* share a run, and no state: one moves and the other rests.               *)
EXTENDS BodyChannel, Dispatch

NoBody ==
    /\ item = None /\ pending_error = FALSE /\ trailers = FALSE
    /\ sender_open = TRUE /\ receiver_open = TRUE /\ wanted = FALSE
    /\ sender_waker = FALSE /\ receiver_waker = FALSE
    /\ sender_woken = FALSE /\ receiver_woken = FALSE
    /\ spc = "none" /\ rpc = "none" /\ sent = << >> /\ got = << >>
    /\ terminated = FALSE /\ sent_trailers = FALSE /\ got_trailers = FALSE

NoDispatch ==
    /\ want = "Idle" /\ buffered_once = FALSE /\ queue = << >> /\ rx_open = TRUE
    /\ tx = "none" /\ rx = "none" /\ callback = NoRequest
    /\ outcome = [r \in Requests |-> "new"] /\ canceled = {} /\ written = {}

ChannelsInit == (BodyInit /\ NoDispatch) \/ (NoBody /\ Init)

ChannelsNext ==
    \/ spc # "none" /\ BodyNext /\ UNCHANGED vars
    \/ rx # "none" /\ Next /\ UNCHANGED bodyVars

(* The fairness of both; the one that rests is never enabled. *)
ChannelsSpec ==
    /\ ChannelsInit /\ [][ChannelsNext]_<<bodyVars, vars>>
    /\ WF_bodyVars(SenderRuns) /\ WF_bodyVars(ReceiverRuns)
    /\ WF_vars(TaskRuns) /\ WF_vars(ExchangeEnds) /\ WF_vars(Push)

(* No wait on a channel is for ever: of a reader for the end of a body, of *)
(* a writer for a reader that left, of a caller for its answer, of a       *)
(* handle that was told to send for what it sends.                         *)
EveryWaitEnds == EndIsSeen /\ DropIsSeen /\ EveryRequestAnswered /\ ReadyIsAnswered
=============================================================================
