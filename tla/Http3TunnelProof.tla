-------------------------- MODULE Http3TunnelProof --------------------------
(***************************************************************************)
(* Http3Tunnel keeps the promises of Tunnel, for any number of chunks in   *)
(* either direction and of turns of the task's loops.                      *)
(***************************************************************************)
EXTENDS Http3Tunnel, TLAPS

Wakeups == {"invalid", "stop", "room", "rx", "body", "data", "closed"}

Pumps ==
    [pc : {"idle", "send", "recv", "done"}, woken : BOOLEAN, on : SUBSET Wakeups, send : {"open", "over"},
     finish : BOOLEAN, fin : BOOLEAN, recv : {"open", "over"}, data : BOOLEAN, turn : Nat]

HioType ==
    hio \in [live : BOOLEAN, pending : {"none", "flush", "finish"}, ack : {"none", "waiting", "ok", "gone"},
             shutdown : BOOLEAN, told : BOOLEAN, read : {"open", "eof", "error"}]

WritesType == writes \in {<< >>, <<"data">>, <<"flush">>, <<"finish">>}

SlotType == slot \in [data : BOOLEAN, error : BOOLEAN, open : BOOLEAN]

PumpType == pump \in Pumps

QuicType ==
    quic \in [room : BOOLEAN, held : BOOLEAN, stop : BOOLEAN, acked : BOOLEAN, queue : Nat,
              peer : {"open", "fin", "reset", "headers"}, up : BOOLEAN, invalid : BOOLEAN]

DgramsType == dgrams \in [send : BOOLEAN, recv : BOOLEAN]

CountType == count \in [written : Nat, carried : Nat, arrived : Nat, read : Nat]

H3TypeOK ==
    HioType /\ WritesType /\ SlotType /\ PumpType /\ QuicType /\ DgramsType /\ CountType

(* Where a barrier is: in the channel, in the task, or answered.           *)
Barrier ==
    /\ hio.pending = "none" <=> hio.ack = "none"
    /\ writes \in {<<"flush">>, <<"finish">>} => hio.ack = "waiting" /\ writes = <<hio.pending>>
    /\ writes = <<"data">> => hio.ack = "none"
    /\ writes # << >> => Sending
    /\ Sending /\ pump.finish => hio.ack = "waiting" /\ hio.pending = "finish" /\ writes = << >> /\ ~quic.held
    /\ hio.ack = "waiting" => Sending

(* What was written is on its way while the task sends.                    *)
Outgoing ==
    /\ pump.pc = "send" => Sending
    /\ pump.pc = "done" => ~Sending
    /\ Sending => count.written = count.carried + (IF writes = <<"data">> THEN 1 ELSE 0)
                                                + (IF quic.held THEN 1 ELSE 0)
    /\ BarrierIsKept

(* FIN goes out behind everything, and the application is told of it last. *)
Finished ==
    /\ pump.fin <=> (hio.shutdown \/ (hio.pending = "finish" /\ hio.ack = "ok"))
    /\ hio.told => hio.shutdown
    /\ hio.shutdown => hio.pending = "none"
    /\ pump.fin => count.carried = count.written /\ writes = << >> /\ ~pump.finish

(* What has arrived is somewhere between the peer and the reader, and the  *)
(* reader's channel closes without an error only when it is drained.       *)
Incoming ==
    /\ count.arrived = count.read + (IF slot.data THEN 1 ELSE 0) + (IF pump.data THEN 1 ELSE 0) + quic.queue
    /\ pump.pc # "done" => ~slot.error /\ (slot.open <=> pump.recv = "open")
    /\ pump.pc = "done" => ~slot.open
    /\ (hio.live /\ ~slot.open /\ ~slot.error) => quic.peer = "fin" /\ ~pump.data /\ quic.queue = 0
    /\ hio.read = "eof" => ~slot.data /\ ~slot.open /\ ~slot.error

Accounts == Barrier /\ Outgoing /\ Finished /\ Incoming

H3Inv == H3TypeOK /\ Accounts

(* The invariant holds at first.                                          *)
LEMMA Initially == H3TunnelInit => H3Inv
  BY DEF H3TunnelInit, H3Inv, H3TypeOK, HioType, WritesType, SlotType, PumpType, Pumps, QuicType,
      DgramsType, CountType, Accounts, Barrier, Outgoing, Finished, Incoming, BarrierIsKept

-----------------------------------------------------------------------------
(* A variable that is left alone keeps its type.                          *)
LEMMA Stays ==
  ASSUME H3TypeOK
  PROVE  /\ UNCHANGED hio => HioType'
         /\ UNCHANGED writes => WritesType'
         /\ UNCHANGED slot => SlotType'
         /\ UNCHANGED pump => PumpType'
         /\ UNCHANGED quic => QuicType'
         /\ UNCHANGED dgrams => DgramsType'
         /\ UNCHANGED count => CountType'
  BY DEF H3TypeOK, HioType, WritesType, SlotType, PumpType, QuicType, DgramsType, CountType

(* A wakeup keeps the type of the task.                                   *)
LEMMA WokenTyped ==
  ASSUME PumpType, NEW event
  PROVE  Woken(event) \in Pumps
  BY DEF PumpType, Pumps, Woken

(* So does a turn of a loop, the last one included.                       *)
LEMMA TurnTyped ==
  ASSUME PumpType, NEW pc \in {"idle", "recv"}
  PROVE  Turn(pc) \in Pumps
  <1>1. CASE pump.turn + 1 = TURNS
    BY <1>1 DEF PumpType, Pumps, Turn
  <1>2. CASE pump.turn + 1 # TURNS
    BY <1>2 DEF PumpType, Pumps, Turn
  <1> QED
    BY <1>1, <1>2

(* So does the wait of the sending direction.                             *)
LEMMA PendingTyped ==
  ASSUME PumpType, NEW events \in SUBSET Wakeups, SendPending(events)
  PROVE  PumpType'
  BY DEF PumpType, Pumps, SendPending, Wakeups

(* The end of the task keeps the types of what it touches.                *)
LEMMA EndsTyped ==
  ASSUME H3TypeOK, NEW failed \in BOOLEAN, TaskEnds(failed)
  PROVE  HioType' /\ WritesType' /\ SlotType' /\ PumpType' /\ DgramsType'
  <1> USE DEF H3TypeOK, TaskEnds
  <1>1. HioType'
    BY DEF HioType, Unanswered
  <1>2. SlotType'
    BY DEF SlotType
  <1>3. PumpType'
    BY DEF PumpType, Pumps
  <1> QED
    BY <1>1, <1>2, <1>3 DEF WritesType, DgramsType

(* The types, action by action.                                           *)
LEMMA Typed == H3TypeOK /\ H3TunnelNext => H3TypeOK'
  <1> SUFFICES ASSUME H3TypeOK, H3TunnelNext PROVE H3TypeOK'
    OBVIOUS
  <1> USE Stays DEF H3TypeOK
  <1>1. CASE AckLost
    <2>1. HioType'
      BY <1>1 DEF AckLost, HioType
    <2> QED
      BY <1>1, <2>1 DEF AckLost
  <1>2. CASE PollWrite
    <2>1. HioType'
      BY <1>2 DEF PollWrite, Answered, Acked, Reserved, Command, HioType
    <2>2. WritesType'
      BY <1>2 DEF PollWrite, Command, WritesType
    <2>3. PumpType'
      BY <1>2, WokenTyped DEF PollWrite, Command, PumpType
    <2>4. CountType'
      BY <1>2 DEF PollWrite, CountType
    <2> QED
      BY <1>2, <2>1, <2>2, <2>3, <2>4 DEF PollWrite
  <1>3. CASE PollFlush
    <2>1. HioType'
      BY <1>3 DEF PollFlush, BarrierDone, BarrierAsks, Acked, Command, HioType
    <2>2. WritesType'
      BY <1>3 DEF PollFlush, BarrierDone, BarrierAsks, Command, WritesType
    <2>3. PumpType'
      BY <1>3, WokenTyped DEF PollFlush, BarrierDone, BarrierAsks, Command, PumpType
    <2> QED
      BY <1>3, <2>1, <2>2, <2>3 DEF PollFlush, BarrierDone, BarrierAsks
  <1>4. CASE PollShutdown
    <2>1. HioType'
      BY <1>4 DEF PollShutdown, BarrierDone, BarrierAsks, Acked, Command, HioType
    <2>2. WritesType'
      BY <1>4 DEF PollShutdown, BarrierDone, BarrierAsks, Command, WritesType
    <2>3. PumpType'
      BY <1>4, WokenTyped DEF PollShutdown, BarrierDone, BarrierAsks, Command, PumpType
    <2> QED
      BY <1>4, <2>1, <2>2, <2>3 DEF PollShutdown, BarrierDone, BarrierAsks
  <1>5. CASE PollRead
    <2>1. HioType'
      BY <1>5 DEF PollRead, HioType
    <2>2. SlotType'
      BY <1>5 DEF PollRead, SlotType
    <2>3. PumpType'
      BY <1>5, WokenTyped DEF PollRead, PumpType
    <2>4. CountType'
      BY <1>5 DEF PollRead, CountType
    <2> QED
      BY <1>5, <2>1, <2>2, <2>3, <2>4 DEF PollRead
  <1>6. CASE DropIo
    <2>1. HioType'
      BY <1>6 DEF DropIo, HioType
    <2>2. PumpType'
      BY <1>6 DEF DropIo, PumpType, Pumps
    <2>3. DgramsType'
      BY <1>6 DEF DropIo, DgramsType
    <2> QED
      BY <1>6, <2>1, <2>2, <2>3 DEF DropIo
  <1>7. CASE TaskPoll
    <2>1. PumpType'
      BY <1>7 DEF TaskPoll, Sending, Wakeups, PumpType, Pumps
    <2> QED
      BY <1>7, <2>1 DEF TaskPoll
  <1>8. CASE Invalidated
    BY <1>8, EndsTyped DEF Invalidated
  <1>9. CASE SendFails
    BY <1>9, EndsTyped DEF SendFails
  <1>10. CASE SendOver
    <2>1. HioType'
      BY <1>10 DEF SendOver, Unanswered, HioType
    <2>2. WritesType'
      BY <1>10 DEF SendOver, WritesType
    <2>3. PumpType'
      BY <1>10 DEF SendOver, Unanswered, PumpType, Pumps
    <2>4. DgramsType'
      BY <1>10 DEF SendOver, Unanswered, DgramsType
    <2> QED
      BY <1>10, <2>1, <2>2, <2>3, <2>4 DEF SendOver
  <1>11. CASE SendFinish
    <2>1. HioType'
      BY <1>11 DEF SendFinish, HioType
    <2>2. PumpType'
      BY <1>11 DEF SendFinish, PumpType, Pumps
    <2> QED
      BY <1>11, <2>1, <2>2 DEF SendFinish
  <1>12. CASE SendReady
    <2>1. QuicType'
      BY <1>12 DEF SendReady, QuicType
    <2>2. CountType'
      BY <1>12 DEF SendReady, CountType
    <2> QED
      BY <1>12, <2>1, <2>2 DEF SendReady
  <1>13. CASE SendTakes
    <2>1. HioType'
      BY <1>13 DEF SendTakes, HioType
    <2>2. WritesType'
      BY <1>13 DEF SendTakes, WritesType
    <2>3. PumpType'
      BY <1>13, TurnTyped DEF SendTakes, PumpType, Pumps
    <2>4. QuicType'
      BY <1>13 DEF SendTakes, QuicType
    <2>5. DgramsType'
      BY <1>13 DEF SendTakes, DgramsType
    <2> QED
      BY <1>13, <2>1, <2>2, <2>3, <2>4, <2>5 DEF SendTakes
  <1>14. CASE SendWaits
    <2>1. {{"stop"}, {"stop", "room"}, {"stop", "rx"}} \subseteq SUBSET Wakeups
      BY DEF Wakeups
    <2>2. PumpType'
      BY <1>14, <2>1, PendingTyped DEF SendWaits
    <2> QED
      BY <1>14, <2>2 DEF SendWaits, SendPending
  <1>15. CASE RecvFails
    BY <1>15, EndsTyped DEF RecvFails
  <1>16. CASE RecvViolates
    <2>1. QuicType'
      BY <1>16 DEF RecvViolates, QuicType
    <2> QED
      BY <1>16, <2>1, EndsTyped DEF RecvViolates
  <1>17. CASE RecvDelivers
    <2>1. SlotType'
      BY <1>17 DEF RecvDelivers, SlotType
    <2>2. PumpType'
      BY <1>17, TurnTyped DEF RecvDelivers, PumpType, Pumps
    <2> QED
      BY <1>17, <2>1, <2>2 DEF RecvDelivers
  <1>18. CASE RecvTakes
    <2>1. PumpType'
      BY <1>18, TurnTyped DEF RecvTakes, PumpType, Pumps
    <2>2. QuicType'
      BY <1>18 DEF RecvTakes, QuicType
    <2> QED
      BY <1>18, <2>1, <2>2 DEF RecvTakes
  <1>19. CASE RecvEnds
    <2>1. SlotType'
      BY <1>19 DEF RecvEnds, SlotType
    <2>2. PumpType'
      BY <1>19 DEF RecvEnds, PumpType, Pumps
    <2>3. DgramsType'
      BY <1>19 DEF RecvEnds, DgramsType
    <2> QED
      BY <1>19, <2>1, <2>2, <2>3 DEF RecvEnds
  <1>20. CASE RecvWaits
    <2>1. PumpType'
      BY <1>20 DEF RecvWaits, Wakeups, PumpType, Pumps
    <2> QED
      BY <1>20, <2>1 DEF RecvWaits
  <1>21. CASE PollEnds
    <2>1. PumpType'
      BY <1>21, EndsTyped, ZenonT(60) DEF PollEnds, PumpType, Pumps
    <2> QED
      BY <1>21, <2>1, EndsTyped DEF PollEnds
  <1>22. CASE Blocks
    <2>1. PumpType'
      BY <1>22, WokenTyped DEF Blocks, Quic, PumpType
    <2>2. QuicType'
      BY <1>22 DEF Blocks, Quic, QuicType
    <2> QED
      BY <1>22, <2>1, <2>2 DEF Blocks, Quic
  <1>23. CASE Unblocks
    <2>1. PumpType'
      BY <1>23, WokenTyped DEF Unblocks, Quic, PumpType
    <2>2. QuicType'
      BY <1>23 DEF Unblocks, Quic, QuicType
    <2> QED
      BY <1>23, <2>1, <2>2 DEF Unblocks, Quic
  <1>24. CASE Stops
    <2>1. PumpType'
      BY <1>24, WokenTyped DEF Stops, Quic, PumpType
    <2>2. QuicType'
      BY <1>24 DEF Stops, Quic, QuicType
    <2> QED
      BY <1>24, <2>1, <2>2 DEF Stops, Quic
  <1>25. CASE Acks
    <2>1. PumpType'
      BY <1>25, WokenTyped DEF Acks, Quic, PumpType
    <2>2. QuicType'
      BY <1>25 DEF Acks, Quic, QuicType
    <2> QED
      BY <1>25, <2>1, <2>2 DEF Acks, Quic
  <1>26. CASE PeerSends
    <2>1. PumpType'
      BY <1>26, WokenTyped DEF PeerSends, Quic, PumpType
    <2>2. QuicType'
      BY <1>26 DEF PeerSends, Quic, QuicType
    <2>3. CountType'
      BY <1>26 DEF PeerSends, CountType
    <2> QED
      BY <1>26, <2>1, <2>2, <2>3 DEF PeerSends, Quic
  <1>27. CASE PeerEnds
    <2>1. PumpType'
      BY <1>27, WokenTyped DEF PeerEnds, Quic, PumpType
    <2>2. QuicType'
      BY <1>27 DEF PeerEnds, Quic, QuicType
    <2> QED
      BY <1>27, <2>1, <2>2 DEF PeerEnds, Quic
  <1>28. CASE Lost
    <2>1. PumpType'
      BY <1>28 DEF Lost, PumpType, Pumps
    <2>2. QuicType'
      BY <1>28 DEF Lost, QuicType
    <2> QED
      BY <1>28, <2>1, <2>2 DEF Lost
  <1>29. CASE Invalidate
    <2>1. PumpType'
      BY <1>29, WokenTyped DEF Invalidate, Quic, PumpType
    <2>2. QuicType'
      BY <1>29 DEF Invalidate, Quic, QuicType
    <2> QED
      BY <1>29, <2>1, <2>2 DEF Invalidate, Quic
  <1>30. CASE H3Over
    BY <1>30 DEF H3Over, h3Vars
  <1> QED
    BY <1>1, <1>2, <1>3, <1>4, <1>5, <1>6, <1>7, <1>8, <1>9, <1>10, <1>11, <1>12, <1>13, <1>14, <1>15,
       <1>16, <1>17, <1>18, <1>19, <1>20, <1>21, <1>22, <1>23, <1>24, <1>25, <1>26, <1>27, <1>28, <1>29, <1>30
    DEF H3TunnelNext, TaskSteps

-----------------------------------------------------------------------------
(* A barrier that is done (poll_barrier, poll_ack).                       *)
LEMMA DoneKeeps ==
  ASSUME H3Inv, NEW finish \in BOOLEAN, BarrierDone(finish)
  PROVE  Accounts'
  <1> USE DEF H3Inv, H3TypeOK, BarrierDone, Answered, Acked, HioType
  <1>1. Barrier'
    BY DEF Accounts, Barrier, Sending
  <1>2. Outgoing'
    BY DEF Accounts, Outgoing, BarrierIsKept, Sending
  <1>3. Finished'
    BY DEF Accounts, Barrier, Finished
  <1>4. Incoming'
    BY DEF Accounts, Incoming
  <1> QED
    BY <1>1, <1>2, <1>3, <1>4 DEF Accounts

(* A barrier that is asked for.                                           *)
LEMMA AsksKeeps ==
  ASSUME H3Inv, NEW finish \in BOOLEAN, BarrierAsks(finish)
  PROVE  Accounts'
  <1> DEFINE barrier == IF finish THEN "finish" ELSE "flush"
  <1>1. /\ hio' = [Acked EXCEPT !.pending = barrier, !.ack = "waiting"]
        /\ writes' = <<barrier>> /\ barrier \in {"finish", "flush"}
        /\ pump' = Woken("rx") /\ UNCHANGED <<slot, quic, dgrams, count>>
        /\ hio.live /\ hio.ack \in {"none", "ok"} /\ ~Acked.shutdown /\ Sending /\ writes = << >>
    BY DEF BarrierAsks, Command, Answered, Reserved
  <1> HIDE DEF barrier
  <1> USE <1>1 DEF H3Inv, H3TypeOK, Acked, Woken, HioType, PumpType, Pumps
  <1>2. Barrier'
    BY DEF Accounts, Barrier, Sending
  <1>3. Outgoing'
    BY DEF Accounts, Outgoing, BarrierIsKept, Sending
  <1>4. Finished'
    BY DEF Accounts, Finished
  <1>5. Incoming'
    BY DEF Accounts, Incoming
  <1> QED
    BY <1>2, <1>3, <1>4, <1>5 DEF Accounts

(* The end of the task, by a failure or after both directions.            *)
LEMMA EndsKeeps ==
  ASSUME H3Inv, NEW failed \in BOOLEAN, TaskEnds(failed), pump.pc # "done", UNCHANGED <<quic, count>>,
         failed \/ pump.recv = "over"
  PROVE  Accounts'
  BY DEF H3Inv, H3TypeOK, TaskEnds, Unanswered, Accounts, Barrier, Outgoing, Finished, Incoming,
      BarrierIsKept, Sending, PumpType, Pumps

(* The accounts, action by action.                                        *)
LEMMA Kept == H3Inv /\ H3TunnelNext => Accounts'
  <1> SUFFICES ASSUME H3Inv, H3TunnelNext PROVE Accounts'
    OBVIOUS
  <1> USE DEF H3Inv, H3TypeOK, Accounts, Barrier, Outgoing, Finished, Incoming, BarrierIsKept, Sending
  <1>1. CASE AckLost
    BY <1>1 DEF AckLost
  <1>2. CASE PollWrite
    BY <1>2 DEF PollWrite, Acked, Reserved, Command, Woken, PumpType, Pumps, CountType
  <1>3. CASE PollFlush
    BY <1>3, DoneKeeps, AsksKeeps DEF PollFlush
  <1>4. CASE PollShutdown
    BY <1>4, DoneKeeps, AsksKeeps DEF PollShutdown
  <1>5. CASE PollRead
    <2>1. CASE slot.data
      <3>1. Barrier' /\ Outgoing' /\ Finished'
        BY <1>5, <2>1 DEF PollRead, Woken, WritesType, PumpType, Pumps, CountType
      <3>2. /\ count'.read = count.read + 1 /\ count'.arrived = count.arrived /\ ~slot'.data
            /\ slot'.open = slot.open /\ slot'.error = slot.error
            /\ pump'.pc = pump.pc /\ pump'.recv = pump.recv /\ pump'.data = pump.data
        BY <1>5, <2>1 DEF PollRead, Woken, SlotType, PumpType, Pumps, CountType
      <3>3. Incoming'
        BY <1>5, <3>2 DEF PollRead, CountType
      <3> QED
        BY <3>1, <3>3
    <2>2. CASE ~slot.data
      BY <1>5, <2>2 DEF PollRead, HioType
    <2> QED
      BY <2>1, <2>2
  <1>6. CASE DropIo
    BY <1>6 DEF DropIo
  <1>7. CASE TaskPoll
    BY <1>7 DEF TaskPoll
  <1>8. CASE Invalidated
    BY <1>8, EndsKeeps DEF Invalidated
  <1>9. CASE SendFails
    BY <1>9, EndsKeeps DEF SendFails
  <1>10. CASE SendOver
    BY <1>10 DEF SendOver, Unanswered
  <1>11. CASE SendFinish
    BY <1>11 DEF SendFinish, Unstopped, PumpType, Pumps, CountType
  <1>12. CASE SendReady
    BY <1>12 DEF SendReady, Unstopped, CountType
  <1>13. CASE SendTakes
    BY <1>13 DEF SendTakes, Turn, QuicType, CountType
  <1>14. CASE SendWaits
    <2>1. ASSUME NEW events, SendPending(events) PROVE Accounts'
      BY <1>14, <2>1 DEF SendWaits, Unstopped, SendPending
    <2> QED
      BY <1>14, <2>1 DEF SendWaits
  <1>15. CASE RecvFails
    BY <1>15, EndsKeeps DEF RecvFails, Receiving
  <1>16. CASE RecvViolates
    BY <1>16 DEF RecvViolates, Receiving, TaskEnds, Unanswered, QuicType
  <1>17. CASE RecvDelivers
    BY <1>17 DEF RecvDelivers, Receiving, Turn, CountType
  <1>18. CASE RecvTakes
    <2>1. Incoming'
      BY <1>18 DEF RecvTakes, Receiving, Turn, QuicType, CountType
    <2> QED
      BY <1>18, <2>1 DEF RecvTakes, Receiving, Turn
  <1>19. CASE RecvEnds
    BY <1>19 DEF RecvEnds
  <1>20. CASE RecvWaits
    BY <1>20 DEF RecvWaits, Receiving
  <1>21. CASE PollEnds
    <2>1. CASE Sending
      BY <1>21, <2>1 DEF PollEnds, WritesType, PumpType, Pumps
    <2>2. CASE ~Sending
      BY <1>21, <2>2, EndsKeeps DEF PollEnds
    <2> QED
      BY <2>1, <2>2
  <1>22. CASE Blocks
    BY <1>22 DEF Blocks, Quic, Woken
  <1>23. CASE Unblocks
    BY <1>23 DEF Unblocks, Quic, Woken
  <1>24. CASE Stops
    BY <1>24 DEF Stops, Quic, Woken
  <1>25. CASE Acks
    BY <1>25 DEF Acks, Quic, Woken
  <1>26. CASE PeerSends
    <2>1. Barrier' /\ Outgoing' /\ Finished'
      BY <1>26 DEF PeerSends, Quic, Woken
    <2>2. /\ count'.arrived = count.arrived + 1 /\ quic'.queue = quic.queue + 1
          /\ count'.read = count.read /\ quic'.peer = quic.peer /\ quic.peer = "open"
          /\ pump'.pc = pump.pc /\ pump'.recv = pump.recv /\ pump'.data = pump.data
          /\ UNCHANGED <<hio, slot>>
      BY <1>26 DEF PeerSends, Quic, Woken
    <2>3. (count.arrived = count.read + (IF slot.data THEN 1 ELSE 0) + (IF pump.data THEN 1 ELSE 0) + quic.queue)'
      <3> DEFINE n == (IF slot.data THEN 1 ELSE 0)
                 m == (IF pump.data THEN 1 ELSE 0)
      <3>1. n \in Nat /\ m \in Nat /\ n' = n /\ m' = m
        BY <2>2
      <3> HIDE DEF n, m
      <3>2. count.arrived = count.read + n + quic.queue + m
        BY DEF n, m, CountType, QuicType
      <3>3. count'.arrived = count'.read + n' + m' + quic'.queue
        BY <2>2, <3>1, <3>2 DEF CountType, QuicType
      <3> QED
        BY <3>3 DEF n, m
    <2>4. Incoming'
      BY <2>2, <2>3
    <2> QED
      BY <2>1, <2>4
  <1>27. CASE PeerEnds
    BY <1>27 DEF PeerEnds, Quic, Woken
  <1>28. CASE Lost
    BY <1>28 DEF Lost
  <1>29. CASE Invalidate
    BY <1>29 DEF Invalidate, Quic, Woken
  <1>30. CASE H3Over
    BY <1>30 DEF H3Over, h3Vars
  <1> QED
    BY <1>1, <1>2, <1>3, <1>4, <1>5, <1>6, <1>7, <1>8, <1>9, <1>10, <1>11, <1>12, <1>13, <1>14, <1>15,
       <1>16, <1>17, <1>18, <1>19, <1>20, <1>21, <1>22, <1>23, <1>24, <1>25, <1>26, <1>27, <1>28, <1>29, <1>30
    DEF H3TunnelNext, TaskSteps

(* The invariant is inductive.                                            *)
LEMMA Inductive == H3Inv /\ [H3TunnelNext]_h3Vars => H3Inv'
  <1>1. CASE H3TunnelNext
    BY <1>1, Typed, Kept DEF H3Inv
  <1>2. CASE UNCHANGED h3Vars
    BY <1>2
    DEF h3Vars, H3Inv, H3TypeOK, HioType, WritesType, SlotType, PumpType, QuicType, DgramsType,
        CountType, Accounts, Barrier, Outgoing, Finished, Incoming, BarrierIsKept, Sending
  <1> QED
    BY <1>1, <1>2

(* Every variable of the tunnel keeps its type, however its task, its IO   *)
(* and the peer take turns.                                                *)
THEOREM H3TypeCorrect == H3TunnelSpec => []H3TypeOK
  BY Initially, Inductive, PTL DEF H3TunnelSpec, H3Inv

(* A flush or a shutdown that is acknowledged comes after every chunk that *)
(* was written before it (poll_barrier, SendStream::poll), for any number  *)
(* of chunks and any place where the task's loop yields.                   *)
THEOREM BarrierCorrect == H3TunnelSpec => []BarrierIsKept
  <1>1. H3Inv => BarrierIsKept
    BY DEF H3Inv, Accounts, Outgoing
  <1> QED
    BY Initially, Inductive, <1>1, PTL DEF H3TunnelSpec

-----------------------------------------------------------------------------
(* Every step of the tunnel is a step of Tunnel, or leaves it alone.      *)
LEMMA Maps ==
  ASSUME H3Inv, H3TunnelNext
  PROVE  [H3!TunnelNext]_<<H3!sending, H3!receiving>>
  <1> USE DEF H3Inv, H3TypeOK, Accounts, H3!TunnelNext, H3!sending, H3!receiving
  <1>1. CASE AckLost
    BY <1>1 DEF AckLost
  <1>2. CASE PollWrite
    BY <1>2 DEF PollWrite, Answered, Acked, Command, Woken, H3!Accept, Finished, PumpType, Pumps
  <1>3. CASE PollFlush
    <2>1. UNCHANGED <<pump.send, pump.fin, hio.told, hio.live, hio.read, count, quic>>
      <3>1. CASE BarrierDone(FALSE)
        BY <3>1 DEF BarrierDone, Acked, HioType
      <3>2. CASE BarrierAsks(FALSE)
        BY <3>2 DEF BarrierAsks, Acked, Command, Woken
      <3> QED
        BY <1>3, <3>1, <3>2 DEF PollFlush
    <2> QED
      BY <2>1
  <1>4. CASE PollShutdown
    <2>1. CASE BarrierDone(TRUE)
      <3>1. /\ UNCHANGED <<pump, hio.live, hio.read, count, quic>>
            /\ pump.fin /\ hio.live /\ hio'.told
        BY <2>1 DEF BarrierDone, Answered, Acked, Barrier, Finished, HioType
      <3>2. CASE hio.told
        BY <3>1, <3>2
      <3>3. CASE ~hio.told
        BY <3>1, <3>3 DEF H3!Shut
      <3> QED
        BY <3>2, <3>3
    <2>2. CASE BarrierAsks(TRUE)
      <3>1. UNCHANGED <<pump.send, pump.fin, hio.told, hio.live, hio.read, count, quic>>
        BY <2>2 DEF BarrierAsks, Acked, Command, Woken
      <3> QED
        BY <3>1
    <2> QED
      BY <1>4, <2>1, <2>2 DEF PollShutdown
  <1>5. CASE PollRead
    BY <1>5
    DEF PollRead, Woken, H3!Read, H3!Eof, Incoming, HioType, SlotType, PumpType, Pumps, QuicType, CountType
  <1>6. CASE DropIo
    BY <1>6 DEF DropIo, H3!Leave
  <1>7. CASE TaskPoll
    BY <1>7 DEF TaskPoll
  <1>8. CASE Invalidated
    BY <1>8 DEF Invalidated, TaskEnds, Unanswered, H3!Cut
  <1>9. CASE SendFails
    BY <1>9 DEF SendFails, TaskEnds, Unanswered, H3!Cut
  <1>10. CASE SendOver
    BY <1>10 DEF SendOver, Unanswered, H3!Cut
  <1>11. CASE SendFinish
    <2>1. /\ UNCHANGED <<pump.send, hio.told, hio.live, hio.read, count, quic>>
          /\ ~pump.fin /\ pump'.fin /\ pump.send = "open" /\ count.carried = count.written
      BY <1>11 DEF SendFinish, Unstopped, Barrier, Outgoing, Sending, CountType
    <2> QED
      BY <2>1 DEF H3!Finish
  <1>12. CASE SendReady
    BY <1>12 DEF SendReady, Unstopped, H3!Carry, Outgoing, Finished, Sending, CountType
  <1>13. CASE SendTakes
    BY <1>13 DEF SendTakes, Turn
  <1>14. CASE SendWaits
    <2>1. UNCHANGED <<pump.send, pump.fin, hio, count, quic>>
      BY <1>14 DEF SendWaits, SendPending, PumpType, Pumps
    <2> QED
      BY <2>1
  <1>15. CASE RecvFails
    BY <1>15 DEF RecvFails, TaskEnds, Unanswered, H3!Cut
  <1>16. CASE RecvViolates
    BY <1>16 DEF RecvViolates, TaskEnds, Unanswered, H3!Cut
  <1>17. CASE RecvDelivers
    BY <1>17 DEF RecvDelivers, Turn
  <1>18. CASE RecvTakes
    BY <1>18 DEF RecvTakes, Turn
  <1>19. CASE RecvEnds
    BY <1>19 DEF RecvEnds
  <1>20. CASE RecvWaits
    BY <1>20 DEF RecvWaits
  <1>21. CASE PollEnds
    <2>1. CASE Sending
      BY <1>21, <2>1 DEF PollEnds, PumpType, Pumps
    <2>2. CASE ~Sending
      BY <1>21, <2>2, ZenonT(60) DEF PollEnds, TaskEnds, Unanswered, Sending, HioType, PumpType, Pumps
    <2> QED
      BY <2>1, <2>2
  <1>22. CASE Blocks
    BY <1>22 DEF Blocks, Quic, Woken
  <1>23. CASE Unblocks
    BY <1>23 DEF Unblocks, Quic, Woken
  <1>24. CASE Stops
    BY <1>24 DEF Stops, Quic, Woken
  <1>25. CASE Acks
    BY <1>25 DEF Acks, Quic, Woken, PumpType, Pumps, QuicType
  <1>26. CASE PeerSends
    BY <1>26 DEF PeerSends, Quic, Unlost, Woken, H3!Arrive, Barrier, Outgoing, Finished
  <1>27. CASE PeerEnds
    BY <1>27 DEF PeerEnds, Quic, Woken, H3!End
  <1>28. CASE Lost
    BY <1>28 DEF Lost
  <1>29. CASE Invalidate
    BY <1>29 DEF Invalidate, Quic, Woken
  <1>30. CASE H3Over
    BY <1>30 DEF H3Over, h3Vars
  <1> QED
    BY <1>1, <1>2, <1>3, <1>4, <1>5, <1>6, <1>7, <1>8, <1>9, <1>10, <1>11, <1>12, <1>13, <1>14, <1>15,
       <1>16, <1>17, <1>18, <1>19, <1>20, <1>21, <1>22, <1>23, <1>24, <1>25, <1>26, <1>27, <1>28, <1>29, <1>30
    DEF H3TunnelNext, TaskSteps

(* The IO of an HTTP/3 CONNECT and its task (H3Upgraded, UpgradeTask)      *)
(* implement Tunnel: each of their steps is one of its steps, or changes   *)
(* nothing that an application can see.                                    *)
THEOREM TunnelCorrect == H3TunnelSpec => H3IsTunnel
  <1>1. H3TunnelInit => H3!TunnelInit
    BY DEF H3TunnelInit, H3!TunnelInit
  <1>2. H3Inv /\ [H3TunnelNext]_h3Vars => [H3!TunnelNext]_<<H3!sending, H3!receiving>>
    <2>1. CASE H3TunnelNext
      BY <2>1, Maps
    <2>2. CASE UNCHANGED h3Vars
      BY <2>2 DEF h3Vars, H3!sending, H3!receiving
    <2> QED
      BY <2>1, <2>2
  <1> QED
    BY Initially, Inductive, <1>1, <1>2, PTL DEF H3TunnelSpec, H3IsTunnel, H3!TunnelSpec
=============================================================================
