-------------------------- MODULE BodyChannelProof --------------------------
(***************************************************************************)
(* Proofs about the body channel, for every number of chunks.              *)
(*                                                                         *)
(* The inductive invariant says where each end may be while the slots hold *)
(* what they hold, and that a task which may park is registered unless it  *)
(* has already been woken.                                                 *)
(***************************************************************************)
EXTENDS BodyChannel, SequenceTheorems, TLAPS

(* The history in index form: the delivered items are the first accepted   *)
(* ones, and the slots hold the rest.                                      *)
Accounted ==
    /\ Len(sent) = Len(got) + (IF item = None THEN 0 ELSE 1)
                            + (IF pending_error THEN 1 ELSE 0)
    /\ \A i \in 1 .. Len(got) : got[i] = sent[i]
    /\ item # None => sent[Len(got) + 1] = item
    /\ pending_error => sent[Len(sent)] = Err

(* Each end's flag says whether that end has been dropped.                 *)
OpenFlags ==
    /\ sender_open <=> spc \notin {"dropped", "done"}
    /\ receiver_open <=> rpc \notin {"dropped", "done"}

(* Only a sender that is about to be dropped has sent an error.            *)
ErrorEndsSending ==
    item = Err \/ pending_error => spc \in {"sentError", "dropping", "dropped", "done"}

SenderRegistered ==
    /\ spc \in SenderParked \cup {"polling", "ready"} /\ ~sender_woken => sender_waker
    /\ spc \in SenderParked \cup {"ready"} /\ ~sender_woken =>
           receiver_open \/ rpc = "dropped"
    /\ spc = "parkCapacity" /\ ~sender_woken =>
           ~HasRoom \/ rpc \in {"wakeRun", "wakePark", "wakeEnd", "dropped"}

ReceiverRegistered ==
    /\ rpc \in {"polling", "wakePark", "parked"} /\ ~receiver_woken => receiver_waker
    /\ rpc \in {"wakePark", "parked"} /\ ~receiver_woken =>
           \/ item = None /\ ~pending_error /\ sender_open
           \/ spc \in {"sentData", "sentError", "dropped"}

EndReached ==
    /\ terminated => rpc \in {"ended", "finished", "dropped", "done"}
    /\ rpc \in {"wakeEnd", "ended", "finished"} =>
           ~sender_open /\ item = None /\ ~pending_error
    /\ rpc \notin {"finished", "dropped", "done"} => trailers = sent_trailers
    /\ rpc = "finished" => got_trailers = sent_trailers

Control ==
    /\ OpenFlags
    /\ ErrorEndsSending
    /\ ReadyStaysReady
    /\ SenderRegistered
    /\ ReceiverRegistered
    /\ EndReached

IInv == BodyTypeOK /\ Accounted /\ Control

-----------------------------------------------------------------------------
(* What the proofs need to know of the items. *)
LEMMA ItemFacts ==
    /\ Err \in Items
    /\ Err # None
    /\ None \notin Items
    /\ \A n \in Nat : n < MaxChunks => n + 1 \in Items /\ n + 1 # None /\ n + 1 # Err
  BY MaxChunksAssumption DEF Items, Chunks, Err, None

(* Every step keeps the types. *)
LEMMA Typing == BodyTypeOK /\ [BodyNext]_bodyVars => BodyTypeOK'
  <1> SUFFICES ASSUME BodyTypeOK, [BodyNext]_bodyVars PROVE BodyTypeOK'
    OBVIOUS
  <1> USE DEF BodyTypeOK, slots, wakers, history
  <1>1. CASE PollReadyRegister
    BY <1>1 DEF PollReadyRegister, SenderStates
  <1>2. CASE PollBodyReady
    BY <1>2 DEF PollBodyReady, SenderStates, SenderParked
  <1>3. CASE WaitForIo
    BY <1>3 DEF WaitForIo, SenderStates, SenderParked
  <1>4. CASE SendData
    <2>1. (item \in Items \cup {None} /\ sent \in Seq(Items))'
      <3>1. CASE receiver_open /\ HasRoom
        <4>1. /\ item' = Len(sent) + 1
              /\ sent' = Append(sent, Len(sent) + 1)
              /\ sent \in Seq(Items)
              /\ Len(sent) < MaxChunks
          BY <1>4, <3>1 DEF SendData
        <4> HIDE DEF BodyTypeOK
        <4>2. Len(sent) \in Nat
          BY <4>1
        <4> QED BY <4>1, <4>2, ItemFacts
      <3>2. CASE ~(receiver_open /\ HasRoom)
        BY <1>4, <3>2 DEF SendData
      <3> QED BY <3>1, <3>2
    <2>2. (spc \in SenderStates)'
      BY <1>4 DEF SendData, SenderStates
    <2> QED BY <1>4, <2>1, <2>2 DEF SendData
  <1>5. CASE SendTrailers
    <2>1. (spc \in SenderStates)'
      BY <1>5 DEF SendTrailers, SenderStates
    <2> QED BY <1>5, <2>1 DEF SendTrailers
  <1>6. CASE SendError
    <2>1. /\ item' \in {item, Err}
          /\ sent' = sent \/ sent' = Append(sent, Err)
      BY <1>6 DEF SendError
    <2>3. (item \in Items \cup {None} /\ sent \in Seq(Items))'
      <3>1. item \in Items \cup {None} /\ sent \in Seq(Items)
        OBVIOUS
      <3> QED BY ONLY <3>1, <2>1, ItemFacts
    <2>2. (pending_error \in BOOLEAN /\ spc \in SenderStates)'
      BY <1>6 DEF SendError, SenderStates
    <2> QED BY <1>6, <2>2, <2>3 DEF SendError
  <1>7. CASE SenderWakes
    <2>1. (spc \in SenderStates)'
      BY <1>7 DEF SenderWakes, SenderStates
    <2> QED BY <1>7, <2>1, ZenonT(60) DEF SenderWakes, WakeReceiver
  <1>8. CASE DropBodySender
    <2>1. (spc \in SenderStates)'
      BY <1>8 DEF DropBodySender, SenderStates
    <2> QED BY <1>8, <2>1, ZenonT(60) DEF DropBodySender
  <1>9. CASE SenderRepolled
    <2>1. (spc \in SenderStates)'
      BY <1>9 DEF SenderRepolled, SenderStates
    <2> QED BY <1>9, <2>1, ZenonT(60) DEF SenderRepolled
  <1>10. CASE PollNextRegister
    <2>1. (rpc \in ReceiverStates)'
      BY <1>10 DEF PollNextRegister, ReceiverStates
    <2> QED BY <1>10, <2>1 DEF PollNextRegister
  <1>11. CASE PollNext
    <2>1. /\ item' \in {item, None}
          /\ got' = got \/ got' = Append(got, Err) \/ (item # None /\ got' = Append(got, item))
      BY ONLY <1>11 DEF PollNext, TakeItem, TakeError, FindEmpty
    <2>3. (item \in Items \cup {None} /\ got \in Seq(Items))'
      <3>1. item \in Items \cup {None} /\ got \in Seq(Items)
        OBVIOUS
      <3> QED BY ONLY <3>1, <2>1, ItemFacts
    <2>2. (pending_error \in BOOLEAN /\ terminated \in BOOLEAN /\ rpc \in ReceiverStates)'
      BY <1>11 DEF PollNext, TakeItem, TakeError, FindEmpty, ReceiverStates
    <2> QED BY <1>11, <2>2, <2>3 DEF PollNext, TakeItem, TakeError, FindEmpty
  <1>12. CASE ReceiverWakes
    <2>1. (rpc \in ReceiverStates)'
      BY <1>12 DEF ReceiverWakes, ReceiverStates
    <2> QED BY <1>12, <2>1 DEF ReceiverWakes, WakeSender
  <1>13. CASE TakeTrailers
    <2>1. (rpc \in ReceiverStates)'
      BY <1>13 DEF TakeTrailers, ReceiverStates
    <2> QED BY <1>13, <2>1, ZenonT(60) DEF TakeTrailers
  <1>14. CASE DropReceiver
    <2>1. (rpc \in ReceiverStates)'
      BY <1>14 DEF DropReceiver, ReceiverStates
    <2> QED BY <1>14, <2>1, ZenonT(60) DEF DropReceiver
  <1>15. CASE ReceiverRepolled
    <2>1. (rpc \in ReceiverStates)'
      BY <1>15 DEF ReceiverRepolled, ReceiverStates
    <2> QED BY <1>15, <2>1, ZenonT(60) DEF ReceiverRepolled
  <1>16. CASE UNCHANGED bodyVars
    BY <1>16 DEF bodyVars
  <1> QED
    BY <1>1, <1>2, <1>3, <1>4, <1>5, <1>6, <1>7, <1>8, <1>9, <1>10, <1>11, <1>12,
       <1>13, <1>14, <1>15, <1>16 DEF BodyNext, SenderNext, ReceiverNext, BodyOver

(* The items and the two histories change in three actions only. *)
LEMMA Accounting == BodyTypeOK /\ Accounted /\ ErrorEndsSending /\ [BodyNext]_bodyVars => Accounted'
  <1> SUFFICES ASSUME BodyTypeOK, Accounted, ErrorEndsSending, [BodyNext]_bodyVars
               PROVE  Accounted'
    OBVIOUS
  <1>0. /\ sent \in Seq(Items) /\ got \in Seq(Items) /\ item \in Items \cup {None}
        /\ Len(sent) \in Nat /\ Len(got) \in Nat
    BY DEF BodyTypeOK
  <1>1. CASE SendData
    <2>1. CASE receiver_open /\ HasRoom
      <3>1. /\ item = None /\ ~pending_error /\ ~pending_error'
            /\ item' = Len(sent) + 1 /\ sent' = Append(sent, Len(sent) + 1)
            /\ got' = got
            /\ Len(sent) < MaxChunks
        BY <1>1, <2>1 DEF SendData, HasRoom
      <3>2. item' \in Items /\ item' # None
        BY <3>1, <1>0, ItemFacts
      <3>3. Len(sent) = Len(got) /\ \A i \in 1 .. Len(got) : got[i] = sent[i]
        BY <3>1, <1>0 DEF Accounted
      <3> QED BY ONLY <1>0, <3>1, <3>2, <3>3 DEF Accounted
    <2>2. CASE ~(receiver_open /\ HasRoom)
      <3>1. UNCHANGED <<item, pending_error, sent, got>>
        BY <1>1, <2>2 DEF SendData
      <3> QED BY <3>1 DEF Accounted
    <2> QED BY <2>1, <2>2
  <1>2. CASE SendError
    <2>1. CASE ~receiver_open
      <3>1. UNCHANGED <<item, pending_error, sent, got>>
        BY <1>2, <2>1 DEF SendError
      <3> QED BY <3>1 DEF Accounted
    <2>2. CASE receiver_open
      <3>1. ~pending_error /\ item # Err
        BY <1>2 DEF SendError, ErrorEndsSending, SenderParked
      <3>2. sent' = Append(sent, Err) /\ got' = got
        BY <1>2, <2>2, <3>1 DEF SendError
      <3>3. CASE item = None
        <4>1. item' = Err /\ pending_error' = pending_error
          BY <1>2, <2>2, <3>3 DEF SendError
        <4>2. Len(sent) = Len(got) /\ \A i \in 1 .. Len(got) : got[i] = sent[i]
          BY <3>1, <3>3, <1>0 DEF Accounted
        <4> QED BY ONLY <1>0, <3>1, <3>2, <4>1, <4>2, ItemFacts DEF Accounted
      <3>4. CASE item # None
        <4>1. item' = item /\ pending_error' = TRUE
          BY <1>2, <2>2, <3>4 DEF SendError
        <4>2. /\ Len(sent) = Len(got) + 1 /\ sent[Len(got) + 1] = item
              /\ \A i \in 1 .. Len(got) : got[i] = sent[i]
          BY <3>1, <3>4, <1>0 DEF Accounted
        <4> QED BY ONLY <1>0, <3>4, <3>2, <4>1, <4>2, ItemFacts DEF Accounted
      <3> QED BY <3>3, <3>4
    <2> QED BY <2>1, <2>2
  <1>3. CASE PollNext
    <2>1. CASE item # None
      <3>1. /\ item' = None /\ got' = Append(got, item)
            /\ UNCHANGED <<pending_error, sent>>
        BY <1>3, <2>1 DEF PollNext, TakeItem, TakeError, FindEmpty
      <3> QED BY ONLY <1>0, <2>1, <3>1, Accounted DEF Accounted
    <2>2. CASE item = None /\ pending_error
      <3>1. /\ ~pending_error' /\ got' = Append(got, Err)
            /\ UNCHANGED <<item, sent>>
        BY <1>3, <2>2 DEF PollNext, TakeItem, TakeError, FindEmpty
      <3> QED BY ONLY <1>0, <2>2, <3>1, ItemFacts, Accounted DEF Accounted
    <2>3. CASE item = None /\ ~pending_error
      <3>1. UNCHANGED <<item, pending_error, sent, got>>
        BY <1>3, <2>3 DEF PollNext, TakeItem, TakeError, FindEmpty
      <3> QED BY <3>1 DEF Accounted
    <2> QED BY <2>1, <2>2, <2>3
  <1>4. CASE UNCHANGED <<item, pending_error, sent, got>>
    BY <1>4 DEF Accounted
  <1> QED
    BY <1>1, <1>2, <1>3, <1>4
    DEF BodyNext, SenderNext, ReceiverNext, BodyOver, bodyVars, slots, history,
        PollReadyRegister, PollBodyReady, WaitForIo, SendTrailers, SenderWakes, DropBodySender,
        SenderRepolled, PollNextRegister, ReceiverWakes, TakeTrailers, DropReceiver,
        ReceiverRepolled

USE DEF SenderParked, SenderStates, ReceiverStates, HasRoom, slots, wakers, history

(* Every step keeps what the control points say of the slots and wakers. *)
LEMMA Controlling == BodyTypeOK /\ Control /\ [BodyNext]_bodyVars => Control'
  <1> SUFFICES ASSUME BodyTypeOK, Control, [BodyNext]_bodyVars PROVE Control'
    OBVIOUS
  <1> USE DEF Control
  <1>1. CASE PollReadyRegister
    <2>1. (OpenFlags /\ ErrorEndsSending /\ ReadyStaysReady)'
      BY <1>1 DEF BodyTypeOK, OpenFlags, ErrorEndsSending, ReadyStaysReady, PollReadyRegister
    <2>2. SenderRegistered'
      BY <1>1 DEF BodyTypeOK, OpenFlags, ErrorEndsSending, ReadyStaysReady, SenderRegistered, PollReadyRegister
    <2>3. ReceiverRegistered'
      BY <1>1 DEF BodyTypeOK, OpenFlags, ReceiverRegistered, PollReadyRegister
    <2>4. EndReached'
      BY <1>1 DEF BodyTypeOK, OpenFlags, EndReached, PollReadyRegister
    <2> QED BY <2>1, <2>2, <2>3, <2>4 DEF Control
  <1>2. CASE PollBodyReady
    <2>1. (OpenFlags /\ ErrorEndsSending /\ ReadyStaysReady)'
      BY <1>2 DEF BodyTypeOK, OpenFlags, ErrorEndsSending, ReadyStaysReady, PollBodyReady
    <2>2. SenderRegistered'
      BY <1>2 DEF BodyTypeOK, OpenFlags, ErrorEndsSending, ReadyStaysReady, SenderRegistered, PollBodyReady
    <2>3. ReceiverRegistered'
      BY <1>2 DEF BodyTypeOK, OpenFlags, ReceiverRegistered, PollBodyReady
    <2>4. EndReached'
      BY <1>2 DEF BodyTypeOK, OpenFlags, EndReached, PollBodyReady
    <2> QED BY <2>1, <2>2, <2>3, <2>4 DEF Control
  <1>3. CASE WaitForIo
    <2>1. (OpenFlags /\ ErrorEndsSending /\ ReadyStaysReady)'
      BY <1>3 DEF BodyTypeOK, OpenFlags, ErrorEndsSending, ReadyStaysReady, WaitForIo
    <2>2. SenderRegistered'
      BY <1>3 DEF BodyTypeOK, OpenFlags, ErrorEndsSending, ReadyStaysReady, SenderRegistered, WaitForIo
    <2>3. ReceiverRegistered'
      BY <1>3 DEF BodyTypeOK, OpenFlags, ReceiverRegistered, WaitForIo
    <2>4. EndReached'
      BY <1>3 DEF BodyTypeOK, OpenFlags, EndReached, WaitForIo
    <2> QED BY <2>1, <2>2, <2>3, <2>4 DEF Control
  <1>4. CASE SendData
    <2>1. (OpenFlags /\ ErrorEndsSending /\ ReadyStaysReady)'
      BY <1>4, ItemFacts DEF BodyTypeOK, OpenFlags, ErrorEndsSending, ReadyStaysReady, SendData
    <2>2. SenderRegistered'
      BY <1>4 DEF BodyTypeOK, OpenFlags, ErrorEndsSending, ReadyStaysReady, SenderRegistered, SendData
    <2>3. ReceiverRegistered'
      BY <1>4 DEF BodyTypeOK, OpenFlags, ReceiverRegistered, SendData
    <2>4. EndReached'
      BY <1>4 DEF BodyTypeOK, OpenFlags, EndReached, SendData
    <2> QED BY <2>1, <2>2, <2>3, <2>4 DEF Control
  <1>5. CASE SendTrailers
    <2>1. (OpenFlags /\ ErrorEndsSending /\ ReadyStaysReady)'
      BY <1>5 DEF BodyTypeOK, OpenFlags, ErrorEndsSending, ReadyStaysReady, SendTrailers
    <2>2. SenderRegistered'
      BY <1>5 DEF BodyTypeOK, OpenFlags, ErrorEndsSending, ReadyStaysReady, SenderRegistered, SendTrailers
    <2>3. ReceiverRegistered'
      BY <1>5 DEF BodyTypeOK, OpenFlags, ReceiverRegistered, SendTrailers
    <2>4. EndReached'
      BY <1>5 DEF BodyTypeOK, OpenFlags, EndReached, SendTrailers
    <2> QED BY <2>1, <2>2, <2>3, <2>4 DEF Control
  <1>6. CASE SendError
    <2>1. (OpenFlags /\ ErrorEndsSending /\ ReadyStaysReady)'
      BY <1>6 DEF BodyTypeOK, OpenFlags, ErrorEndsSending, ReadyStaysReady, SendError
    <2>2. SenderRegistered'
      BY <1>6 DEF BodyTypeOK, OpenFlags, ErrorEndsSending, ReadyStaysReady, SenderRegistered, SendError
    <2>3. ReceiverRegistered'
      BY <1>6 DEF BodyTypeOK, OpenFlags, ReceiverRegistered, SendError
    <2>4. EndReached'
      BY <1>6 DEF BodyTypeOK, OpenFlags, EndReached, SendError
    <2> QED BY <2>1, <2>2, <2>3, <2>4 DEF Control
  <1>7. CASE SenderWakes
    <2>1. (OpenFlags /\ ErrorEndsSending /\ ReadyStaysReady)'
      BY <1>7 DEF BodyTypeOK, OpenFlags, ErrorEndsSending, ReadyStaysReady, SenderWakes, WakeReceiver
    <2>2. SenderRegistered'
      BY <1>7 DEF BodyTypeOK, OpenFlags, ErrorEndsSending, ReadyStaysReady, SenderRegistered, SenderWakes, WakeReceiver
    <2>3. ReceiverRegistered'
      BY <1>7 DEF BodyTypeOK, OpenFlags, ReceiverRegistered, SenderWakes, WakeReceiver
    <2>4. EndReached'
      BY <1>7 DEF BodyTypeOK, OpenFlags, EndReached, SenderWakes, WakeReceiver
    <2> QED BY <2>1, <2>2, <2>3, <2>4 DEF Control
  <1>8. CASE DropBodySender
    <2>1. (OpenFlags /\ ErrorEndsSending /\ ReadyStaysReady)'
      BY <1>8 DEF BodyTypeOK, OpenFlags, ErrorEndsSending, ReadyStaysReady, DropBodySender
    <2>2. SenderRegistered'
      BY <1>8 DEF BodyTypeOK, OpenFlags, ErrorEndsSending, ReadyStaysReady, SenderRegistered, DropBodySender
    <2>3. ReceiverRegistered'
      BY <1>8 DEF BodyTypeOK, OpenFlags, ReceiverRegistered, DropBodySender
    <2>4. EndReached'
      BY <1>8 DEF BodyTypeOK, OpenFlags, EndReached, DropBodySender
    <2> QED BY <2>1, <2>2, <2>3, <2>4 DEF Control
  <1>9. CASE SenderRepolled
    <2>1. (OpenFlags /\ ErrorEndsSending /\ ReadyStaysReady)'
      BY <1>9 DEF BodyTypeOK, OpenFlags, ErrorEndsSending, ReadyStaysReady, SenderRepolled
    <2>2. SenderRegistered'
      BY <1>9 DEF BodyTypeOK, OpenFlags, ErrorEndsSending, ReadyStaysReady, SenderRegistered, SenderRepolled
    <2>3. ReceiverRegistered'
      BY <1>9 DEF BodyTypeOK, OpenFlags, ReceiverRegistered, SenderRepolled
    <2>4. EndReached'
      BY <1>9 DEF BodyTypeOK, OpenFlags, EndReached, SenderRepolled
    <2> QED BY <2>1, <2>2, <2>3, <2>4 DEF Control
  <1>10. CASE PollNextRegister
    <2>1. (OpenFlags /\ ErrorEndsSending /\ ReadyStaysReady)'
      BY <1>10 DEF BodyTypeOK, OpenFlags, ErrorEndsSending, ReadyStaysReady, PollNextRegister
    <2>2. SenderRegistered'
      BY <1>10 DEF BodyTypeOK, OpenFlags, ErrorEndsSending, ReadyStaysReady, SenderRegistered, PollNextRegister
    <2>3. ReceiverRegistered'
      BY <1>10 DEF BodyTypeOK, OpenFlags, ReceiverRegistered, PollNextRegister
    <2>4. EndReached'
      BY <1>10 DEF BodyTypeOK, OpenFlags, EndReached, PollNextRegister
    <2> QED BY <2>1, <2>2, <2>3, <2>4 DEF Control
  <1>11. CASE PollNext
    <2>1. (OpenFlags /\ ErrorEndsSending /\ ReadyStaysReady)'
      BY <1>11, ItemFacts DEF BodyTypeOK, OpenFlags, ErrorEndsSending, ReadyStaysReady, PollNext, TakeItem, TakeError, FindEmpty
    <2>2. SenderRegistered'
      BY <1>11 DEF BodyTypeOK, OpenFlags, ErrorEndsSending, ReadyStaysReady, SenderRegistered, PollNext, TakeItem, TakeError, FindEmpty
    <2>3. ReceiverRegistered'
      BY <1>11 DEF BodyTypeOK, OpenFlags, ReceiverRegistered, PollNext, TakeItem, TakeError, FindEmpty
    <2>4. EndReached'
      BY <1>11 DEF BodyTypeOK, OpenFlags, EndReached, PollNext, TakeItem, TakeError, FindEmpty
    <2> QED BY <2>1, <2>2, <2>3, <2>4 DEF Control
  <1>12. CASE ReceiverWakes
    <2>1. (OpenFlags /\ ErrorEndsSending /\ ReadyStaysReady)'
      BY <1>12 DEF BodyTypeOK, OpenFlags, ErrorEndsSending, ReadyStaysReady, ReceiverWakes, WakeSender
    <2>2. SenderRegistered'
      BY <1>12 DEF BodyTypeOK, OpenFlags, ErrorEndsSending, ReadyStaysReady, SenderRegistered, ReceiverWakes, WakeSender
    <2>3. ReceiverRegistered'
      BY <1>12 DEF BodyTypeOK, OpenFlags, ReceiverRegistered, ReceiverWakes, WakeSender
    <2>4. EndReached'
      BY <1>12 DEF BodyTypeOK, OpenFlags, EndReached, ReceiverWakes, WakeSender
    <2> QED BY <2>1, <2>2, <2>3, <2>4 DEF Control
  <1>13. CASE TakeTrailers
    <2>1. (OpenFlags /\ ErrorEndsSending /\ ReadyStaysReady)'
      BY <1>13 DEF BodyTypeOK, OpenFlags, ErrorEndsSending, ReadyStaysReady, TakeTrailers
    <2>2. SenderRegistered'
      BY <1>13 DEF BodyTypeOK, OpenFlags, ErrorEndsSending, ReadyStaysReady, SenderRegistered, TakeTrailers
    <2>3. ReceiverRegistered'
      BY <1>13 DEF BodyTypeOK, OpenFlags, ReceiverRegistered, TakeTrailers
    <2>4. EndReached'
      BY <1>13 DEF BodyTypeOK, OpenFlags, EndReached, TakeTrailers
    <2> QED BY <2>1, <2>2, <2>3, <2>4 DEF Control
  <1>14. CASE DropReceiver
    <2>1. (OpenFlags /\ ErrorEndsSending /\ ReadyStaysReady)'
      BY <1>14 DEF BodyTypeOK, OpenFlags, ErrorEndsSending, ReadyStaysReady, DropReceiver
    <2>2. SenderRegistered'
      BY <1>14 DEF BodyTypeOK, OpenFlags, ErrorEndsSending, ReadyStaysReady, SenderRegistered, DropReceiver
    <2>3. ReceiverRegistered'
      BY <1>14 DEF BodyTypeOK, OpenFlags, ReceiverRegistered, DropReceiver
    <2>4. EndReached'
      BY <1>14 DEF BodyTypeOK, OpenFlags, EndReached, DropReceiver
    <2> QED BY <2>1, <2>2, <2>3, <2>4 DEF Control
  <1>15. CASE ReceiverRepolled
    <2>1. (OpenFlags /\ ErrorEndsSending /\ ReadyStaysReady)'
      BY <1>15 DEF BodyTypeOK, OpenFlags, ErrorEndsSending, ReadyStaysReady, ReceiverRepolled
    <2>2. SenderRegistered'
      BY <1>15 DEF BodyTypeOK, OpenFlags, ErrorEndsSending, ReadyStaysReady, SenderRegistered, ReceiverRepolled
    <2>3. ReceiverRegistered'
      BY <1>15 DEF BodyTypeOK, OpenFlags, ReceiverRegistered, ReceiverRepolled
    <2>4. EndReached'
      BY <1>15 DEF BodyTypeOK, OpenFlags, EndReached, ReceiverRepolled
    <2> QED BY <2>1, <2>2, <2>3, <2>4 DEF Control
  <1>16. CASE UNCHANGED bodyVars
    BY <1>16 DEF bodyVars, OpenFlags, ErrorEndsSending, ReadyStaysReady,
                 SenderRegistered, ReceiverRegistered, EndReached
  <1> QED
    BY <1>1, <1>2, <1>3, <1>4, <1>5, <1>6, <1>7, <1>8, <1>9, <1>10, <1>11, <1>12, <1>13, <1>14, <1>15, <1>16 DEF BodyNext, SenderNext, ReceiverNext, BodyOver

LEMMA InitIInv == BodyInit => IInv
  <1> SUFFICES ASSUME BodyInit PROVE IInv
    OBVIOUS
  <1>1. BodyTypeOK
    <2>1. sent \in Seq(Items) /\ got \in Seq(Items)
      BY DEF BodyInit
    <2>2. spc \in SenderStates /\ rpc \in ReceiverStates
      BY DEF BodyInit
    <2> QED BY <2>1, <2>2 DEF BodyInit, BodyTypeOK
  <1>2. Accounted
    BY DEF BodyInit, Accounted
  <1>3. Control
    BY ItemFacts DEF BodyInit, Control, OpenFlags, ErrorEndsSending, ReadyStaysReady,
                     SenderRegistered, ReceiverRegistered, EndReached
  <1> QED BY <1>1, <1>2, <1>3 DEF IInv

LEMMA NextIInv == IInv /\ [BodyNext]_bodyVars => IInv'
  BY Typing, Accounting, Controlling DEF IInv, Control

(* The inductive invariant holds in every reachable state. *)
THEOREM Invariance == BodySpec => []IInv
  BY InitIInv, NextIInv, PTL DEF BodySpec

-----------------------------------------------------------------------------
(* The slots, flags and histories keep their types.                        *)
THEOREM TypeCorrect == BodySpec => []BodyTypeOK
  BY Invariance, PTL DEF IInv

(* A poll_ready that answered Ok stays true until send_data uses it, unless *)
(* the receiver is dropped.                                                 *)
THEOREM ReadyCorrect == BodySpec => []ReadyStaysReady
  BY Invariance, PTL DEF IInv, Control

(* The sender's wakeups are never lost: poll_ready registers before it      *)
(* looks, and poll_next and the receiver's drop wake after they change.     *)
THEOREM SenderWakeCorrect == BodySpec => []SenderNotForgotten
  <1>1. IInv => SenderNotForgotten
    BY DEF IInv, Control, BodyTypeOK, OpenFlags, SenderRegistered, SenderNotForgotten
  <1> QED BY <1>1, Invariance, PTL

(* The receiver's wakeups are never lost: poll_next registers before it     *)
(* looks, and every send and the sender's drop wake after they change.      *)
THEOREM ReceiverWakeCorrect == BodySpec => []ReceiverNotForgotten
  <1>1. IInv => ReceiverNotForgotten
    BY DEF IInv, Control, BodyTypeOK, ReceiverRegistered, ReceiverNotForgotten
  <1> QED BY <1>1, Invariance, PTL

(* Whatever was accepted is delivered or waits in its slot, in order.       *)
LEMMA AccountedInOrder == BodyTypeOK /\ Accounted => NothingDisplaced
  <1> SUFFICES ASSUME BodyTypeOK, Accounted PROVE sent = got \o Buffered
    BY DEF NothingDisplaced
  <1>0. /\ sent \in Seq(Items) /\ got \in Seq(Items) /\ item \in Items \cup {None}
        /\ Len(sent) \in Nat /\ Len(got) \in Nat
    BY DEF BodyTypeOK
  <1> DEFINE b == Buffered
  <1>1. /\ b \in Seq(Items)
        /\ Len(sent) = Len(got) + Len(b)
        /\ \A i \in 1 .. Len(b) : b[i] = sent[Len(got) + i]
    <2>1. CASE item = None /\ ~pending_error
      <3>1. b = << >>
        BY <2>1 DEF Buffered
      <3> QED BY <1>0, <2>1, <3>1 DEF Accounted
    <2>2. CASE item # None /\ ~pending_error
      <3>1. b = <<item>>
        BY <2>2 DEF Buffered
      <3> QED BY <1>0, <2>2, <3>1 DEF Accounted
    <2>3. CASE item = None /\ pending_error
      <3>1. b = <<Err>>
        BY <2>3 DEF Buffered
      <3> QED BY <1>0, <2>3, <3>1, ItemFacts DEF Accounted
    <2>4. CASE item # None /\ pending_error
      <3>1. b = <<item>> \o <<Err>>
        BY <2>4 DEF Buffered
      <3>2. b \in Seq(Items) /\ Len(b) = 2 /\ b[1] = item /\ b[2] = Err
        BY ONLY <1>0, <2>4, <3>1, ItemFacts
      <3> HIDE DEF b
      <3> QED BY <1>0, <2>4, <3>2 DEF Accounted
    <2> QED BY <2>1, <2>2, <2>3, <2>4
  <1> HIDE DEF b
  <1>2. /\ got \o b \in Seq(Items)
        /\ Len(got \o b) = Len(got) + Len(b)
        /\ \A i \in 1 .. Len(got) + Len(b) :
              (got \o b)[i] = IF i <= Len(got) THEN got[i] ELSE b[i - Len(got)]
    BY <1>0, <1>1
  <1>3. \A i \in 1 .. Len(sent) : sent[i] = (got \o b)[i]
    <2>1. \A i \in 1 .. Len(got) : got[i] = sent[i]
      BY DEF Accounted
    <2> SUFFICES ASSUME NEW i \in 1 .. Len(sent) PROVE sent[i] = (got \o b)[i]
      OBVIOUS
    <2>2. CASE i <= Len(got)
      BY ONLY <1>0, <1>1, <1>2, <2>1, <2>2, i \in 1 .. Len(sent)
    <2>3. CASE ~(i <= Len(got))
      <3>1. i - Len(got) \in 1 .. Len(b) /\ Len(got) + (i - Len(got)) = i
        BY ONLY <1>0, <1>1, <2>3, i \in 1 .. Len(sent)
      <3> QED BY ONLY <1>0, <1>1, <1>2, <2>3, <3>1, i \in 1 .. Len(sent)
    <2> QED BY <2>2, <2>3
  <1>4. sent = got \o b
    BY <1>0, <1>1, <1>2, <1>3, SeqEqual
  <1> QED BY <1>4 DEF b

(* An error never displaces accepted data, and nothing is reordered or      *)
(* duplicated on its way through the slot.                                  *)
THEOREM OrderCorrect == BodySpec => []NothingDisplaced
  <1>1. IInv => NothingDisplaced
    BY AccountedInOrder DEF IInv
  <1> QED BY <1>1, Invariance, PTL

(* A reader told that the body is over has everything that was accepted.    *)
THEOREM EndCorrect == BodySpec => []EndIsComplete
  <1>1. IInv => EndIsComplete
    <2> SUFFICES ASSUME IInv, rpc = "finished"
                 PROVE  ~sender_open /\ got = sent /\ got_trailers = sent_trailers
      BY DEF EndIsComplete
    <2>1. ~sender_open /\ item = None /\ ~pending_error /\ got_trailers = sent_trailers
      BY DEF IInv, Control, EndReached
    <2>2. sent = got \o (<< >> \o << >>)
      BY <2>1, AccountedInOrder DEF IInv, NothingDisplaced, Buffered
    <2>3. got \in Seq(Items)
      BY DEF IInv, BodyTypeOK
    <2> QED BY <2>1, <2>2, <2>3
  <1> QED BY <1>1, Invariance, PTL

(* The channel implements the abstract body stream.                         *)
THEOREM Refinement == BodySpec => StreamSpec
  <1>1. BodyInit => Stream!Init
    BY DEF BodyInit, Stream!Init
  <1>2. IInv /\ IInv' /\ [BodyNext]_bodyVars => [Stream!Next]_(Stream!vars)
    <2> SUFFICES ASSUME IInv, IInv', [BodyNext]_bodyVars
                 PROVE  [Stream!Next]_(Stream!vars)
      OBVIOUS
    <2>0. /\ sent \in Seq(Items) /\ got \in Seq(Items) /\ item \in Items \cup {None}
          /\ Len(sent) \in Nat /\ Len(got) \in Nat
      BY DEF IInv, BodyTypeOK
    <2>1. CASE SendData
      <3>1. CASE receiver_open /\ HasRoom
        <4>1. sender_open
          BY <2>1 DEF IInv, Control, OpenFlags, SendData
        <4>2. Len(sent) + 1 \in Items
          BY <2>1, <2>0, ItemFacts DEF SendData
        <4> QED BY <2>1, <3>1, <4>1, <4>2 DEF SendData, Stream!Next, Stream!Put
      <3>2. CASE ~(receiver_open /\ HasRoom)
        BY <2>1, <3>2 DEF SendData, Stream!vars
      <3> QED BY <3>1, <3>2
    <2>2. CASE SendError
      <3>1. CASE sent' = sent
        BY <2>2, <3>1 DEF SendError, Stream!vars
      <3>2. CASE sent' = Append(sent, Err)
        <4>1. sender_open
          BY <2>2 DEF IInv, Control, OpenFlags, SendError
        <4> QED BY <2>2, <3>2, <4>1, ItemFacts DEF SendError, Stream!Next, Stream!Put
      <3> QED BY <2>2, <3>1, <3>2 DEF SendError
    <2>3. CASE PollNext
      <3>1. CASE item # None
        <4>1. Len(got) < Len(sent) /\ sent[Len(got) + 1] = item
          BY <2>0, <3>1 DEF IInv, Accounted
        <4>2. /\ got' = Append(got, item)
              /\ UNCHANGED <<sent, sender_open, terminated>>
          BY <2>3, <3>1 DEF PollNext, TakeItem, TakeError, FindEmpty
        <4> QED BY <4>1, <4>2 DEF Stream!Next, Stream!Take
      <3>2. CASE item = None /\ pending_error
        <4>1. Len(sent) = Len(got) + 1 /\ sent[Len(got) + 1] = Err
          BY <2>0, <3>2 DEF IInv, Accounted
        <4>2. /\ got' = Append(got, Err)
              /\ UNCHANGED <<sent, sender_open, terminated>>
          BY <2>3, <3>2 DEF PollNext, TakeItem, TakeError, FindEmpty
        <4> QED BY <2>0, <4>1, <4>2 DEF Stream!Next, Stream!Take
      <3>3. CASE item = None /\ ~pending_error
        <4>1. /\ terminated' = (~sender_open /\ wanted)
              /\ UNCHANGED <<sent, got, sender_open>>
          BY <2>3, <3>3 DEF PollNext, TakeItem, TakeError, FindEmpty
        <4>2. ~terminated
          BY <2>3 DEF IInv, Control, EndReached, PollNext, TakeItem, TakeError, FindEmpty
        <4>3. sent = got \o (<< >> \o << >>)
          BY <3>3, AccountedInOrder DEF IInv, NothingDisplaced, Buffered
        <4>4. sent = got
          BY <2>0, <4>3
        <4>5. CASE ~sender_open /\ wanted
          BY <4>1, <4>4, <4>5 DEF Stream!Next, Stream!End
        <4>6. CASE ~(~sender_open /\ wanted)
          <5>1. terminated \in BOOLEAN
            BY DEF IInv, BodyTypeOK
          <5> QED BY <4>1, <4>2, <4>6, <5>1 DEF Stream!vars
        <4> QED BY <4>5, <4>6
      <3> QED BY <3>1, <3>2, <3>3
    <2>4. CASE DropBodySender
      <3>1. sender_open
        BY <2>4 DEF IInv, Control, OpenFlags, DropBodySender
      <3> QED BY <2>4, <3>1 DEF DropBodySender, history, Stream!Next, Stream!Close
    <2>5. CASE ReceiverWakes
      <3>1. /\ terminated' = (terminated \/ rpc = "wakeEnd")
            /\ UNCHANGED <<sent, got, sender_open>>
        BY <2>5 DEF ReceiverWakes, slots
      <3>2. CASE rpc = "wakeEnd"
        <4>1. ~sender_open /\ item = None /\ ~pending_error
          BY <3>2 DEF IInv, Control, EndReached
        <4>2. sent = got \o (<< >> \o << >>)
          BY <4>1, AccountedInOrder DEF IInv, NothingDisplaced, Buffered
        <4>3. sent = got
          BY <2>0, <4>2
        <4> QED BY <3>1, <3>2, <4>1, <4>3 DEF Stream!Next, Stream!End
      <3>3. CASE rpc # "wakeEnd"
        <4>1. terminated \in BOOLEAN
          BY DEF IInv, BodyTypeOK
        <4> QED BY <3>1, <3>3, <4>1 DEF Stream!vars
      <3> QED BY <3>2, <3>3
    <2>6. CASE UNCHANGED <<sent, got, sender_open, terminated>>
      BY <2>6 DEF Stream!vars
    <2> QED
      BY <2>1, <2>2, <2>3, <2>4, <2>5, <2>6
      DEF BodyNext, SenderNext, ReceiverNext, BodyOver, bodyVars, slots, history,
          PollReadyRegister, PollBodyReady, WaitForIo, SendTrailers, SenderWakes,
          SenderRepolled, PollNextRegister, TakeTrailers, DropReceiver, ReceiverRepolled
  <1> QED BY <1>1, <1>2, Invariance, PTL DEF BodySpec, StreamSpec, Stream!Spec
=============================================================================
