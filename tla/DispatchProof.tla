--------------------------- MODULE DispatchProof ---------------------------
(***************************************************************************)
(* Proofs about the request channel, for any set of requests.              *)
(*                                                                         *)
(* The bound on the queue rests on credits: a sender may queue a request   *)
(* only for the signal or for the one free pass, and the task signals only *)
(* after it has seen the queue empty.                                      *)
(***************************************************************************)
EXTENDS Dispatch, SequenceTheorems, TLAPS

(* How many requests try_send may still accept before the next signal, and *)
(* how many it has accepted that the task has not taken.                   *)
Credit == IF want = "Want" \/ ~buffered_once THEN 1 ELSE 0
Accepted == Len(queue) + (IF tx \in Requests THEN 1 ELSE 0)

Credits ==
    /\ Accepted + Credit <= 3
    /\ rx = "sawEmpty" => Accepted + Credit <= 2

(* A request on its way into the queue has no outcome yet. *)
PushIsNew == tx \in Requests => outcome[tx] = "new"

(* What was handed to the encoder is in flight or settled. *)
WrittenIsTaken == \A r \in written : outcome[r] \in {"taken", "response", "error", "gone"}

(* Where the task is says what it has closed. *)
Phases ==
    /\ rx \in {"idle", "sawEmpty"} => rx_open /\ want # "Closed"
    /\ rx \in {"canceled", "closed", "dropping", "gone"} => want = "Closed"
    /\ ~rx_open => want = "Closed"
    /\ callback # NoRequest => rx \in {"idle", "ending"}
    /\ rx = "gone" => queue = << >> /\ ~rx_open

Answers == PendingIsHeld /\ PushIsNew /\ WrittenIsTaken

IInv == TypeOK /\ Credits /\ Answers /\ Phases

-----------------------------------------------------------------------------
(* Adding a new request at the end of the queue. *)
LEMMA AppendQueue ==
    ASSUME NEW q \in Seq(Requests), NEW x \in Requests,
           \A i, j \in 1 .. Len(q) : q[i] = q[j] => i = j,
           x \notin {q[i] : i \in 1 .. Len(q)}
    PROVE  LET a == Append(q, x) IN
           /\ a \in Seq(Requests) /\ Len(a) = Len(q) + 1
           /\ \A i, j \in 1 .. Len(a) : a[i] = a[j] => i = j
           /\ {a[i] : i \in 1 .. Len(a)} = {q[i] : i \in 1 .. Len(q)} \cup {x}
  <1> DEFINE a == Append(q, x)
  <1>1. /\ a \in Seq(Requests) /\ Len(a) = Len(q) + 1 /\ Len(q) \in Nat
        /\ \A i \in 1 .. Len(q) : a[i] = q[i]
        /\ a[Len(q) + 1] = x
    OBVIOUS
  <1> HIDE DEF a
  <1>2. \A i, j \in 1 .. Len(a) : a[i] = a[j] => i = j
    <2> SUFFICES ASSUME NEW i \in 1 .. Len(a), NEW j \in 1 .. Len(a), a[i] = a[j]
                 PROVE  i = j
      OBVIOUS
    <2>1. \A k \in 1 .. Len(q) : q[k] # x
      OBVIOUS
    <2>2. i \in 1 .. Len(q) \/ i = Len(q) + 1
      BY <1>1
    <2>3. j \in 1 .. Len(q) \/ j = Len(q) + 1
      BY <1>1
    <2> QED BY <1>1, <2>1, <2>2, <2>3
  <1>3. {a[i] : i \in 1 .. Len(a)} = {q[i] : i \in 1 .. Len(q)} \cup {x}
    <2>1. 1 .. Len(a) = (1 .. Len(q)) \cup {Len(q) + 1}
      BY <1>1
    <2> QED BY <1>1, <2>1
  <1> QED BY <1>1, <1>2, <1>3 DEF a

(* Taking the request at the front of the queue. *)
LEMMA TailQueue ==
    ASSUME NEW q \in Seq(Requests), q # << >>,
           \A i, j \in 1 .. Len(q) : q[i] = q[j] => i = j
    PROVE  /\ Tail(q) \in Seq(Requests) /\ Len(Tail(q)) = Len(q) - 1
           /\ Head(q) \in Requests
           /\ \A i, j \in 1 .. Len(Tail(q)) : Tail(q)[i] = Tail(q)[j] => i = j
           /\ {Tail(q)[i] : i \in 1 .. Len(Tail(q))} = {q[i] : i \in 1 .. Len(q)} \ {Head(q)}
           /\ Head(q) \in {q[i] : i \in 1 .. Len(q)}
  <1> DEFINE t == Tail(q)
  <1>1. /\ t \in Seq(Requests) /\ Len(t) = Len(q) - 1 /\ Len(q) \in Nat /\ Len(q) > 0
        /\ \A i \in 1 .. Len(t) : t[i] = q[i + 1]
        /\ Head(q) = q[1] /\ Head(q) \in Requests
    OBVIOUS
  <1> HIDE DEF t
  <1>2. \A i, j \in 1 .. Len(t) : t[i] = t[j] => i = j
    <2> SUFFICES ASSUME NEW i \in 1 .. Len(t), NEW j \in 1 .. Len(t), t[i] = t[j]
                 PROVE  i = j
      OBVIOUS
    <2>1. i + 1 \in 1 .. Len(q) /\ j + 1 \in 1 .. Len(q) /\ q[i + 1] = q[j + 1]
      BY <1>1
    <2>2. i + 1 = j + 1
      BY <2>1
    <2> QED BY <2>2
  <1>3. {t[i] : i \in 1 .. Len(t)} = {q[i] : i \in 1 .. Len(q)} \ {Head(q)}
    <2>1. ASSUME NEW i \in 1 .. Len(t)
          PROVE  t[i] \in {q[k] : k \in 1 .. Len(q)} \ {Head(q)}
      <3>1. i + 1 \in 1 .. Len(q) /\ 1 \in 1 .. Len(q) /\ i + 1 # 1
        BY <1>1
      <3>2. q[i + 1] # q[1]
        BY <3>1
      <3> QED BY <1>1, <3>1, <3>2
    <2>2. ASSUME NEW k \in 1 .. Len(q), q[k] # Head(q)
          PROVE  q[k] \in {t[i] : i \in 1 .. Len(t)}
      <3>1. k # 1
        BY <1>1, <2>2
      <3>2. k - 1 \in 1 .. Len(t) /\ t[k - 1] = q[k]
        BY <1>1, <3>1
      <3> QED BY <3>2
    <2> QED BY <2>1, <2>2
  <1>4. Head(q) \in {q[i] : i \in 1 .. Len(q)}
    BY <1>1
  <1> QED BY <1>1, <1>2, <1>3, <1>4 DEF t

(* Every step keeps the types. *)
LEMMA Typing == TypeOK /\ Answers /\ [Next]_vars => TypeOK'
  <1> SUFFICES ASSUME TypeOK, Answers, [Next]_vars PROVE TypeOK'
    OBVIOUS
  <1> USE DEF TypeOK
  <1>1. CASE PollReady
    BY <1>1 DEF RxStates, Settled, GivenBack, Pending, PollReady
  <1>2. CASE Push
    <2>1. queue' = Append(queue, tx) \/ queue' = queue
      BY <1>2 DEF Push
    <2>2. tx \in Requests /\ tx \notin Queued
      BY <1>2, RequestsAssumption DEF Push, Answers, PushIsNew, PendingIsHeld, Pending
    <2>3. (queue \in Seq(Requests) /\ \A i, j \in 1 .. Len(queue) : queue[i] = queue[j] => i = j)'
      BY <2>1, <2>2, AppendQueue, SMTT(30) DEF Queued
    <2> QED BY <1>2, <2>3 DEF Push, Settled, GivenBack, Pending
  <1>3. CASE DropSender
    BY <1>3 DEF RxStates, Settled, GivenBack, Pending, DropSender
  <1>4. ASSUME NEW r \in Requests, TrySend(r) PROVE TypeOK'
    BY <1>4 DEF RxStates, Settled, GivenBack, Pending, TrySend
  <1>5. ASSUME NEW r \in Requests, CancelFuture(r) PROVE TypeOK'
    BY <1>5 DEF RxStates, Settled, GivenBack, Pending, CancelFuture
  <1>6. CASE PollMsg
    <2>1. (queue \in Seq(Requests) /\ \A i, j \in 1 .. Len(queue) : queue[i] = queue[j] => i = j)'
      BY <1>6, TailQueue DEF PollMsg
    <2>2. Head(queue) \in Requests \/ queue = << >>
      BY TailQueue
    <2> QED BY <1>6, <2>1, <2>2 DEF PollMsg, RxStates, Settled, GivenBack, Pending
  <1>7. CASE PollMsgEmpty
    BY <1>7 DEF RxStates, Settled, GivenBack, Pending, PollMsgEmpty
  <1>8. CASE Want
    BY <1>8 DEF RxStates, Settled, GivenBack, Pending, Want
  <1>9. CASE PollMsgNone
    BY <1>9 DEF RxStates, Settled, GivenBack, Pending, PollMsgNone
  <1>10. CASE RecvResponse
    BY <1>10 DEF RxStates, Settled, GivenBack, Pending, RecvResponse
  <1>11. CASE NoticeCanceled
    BY <1>11 DEF RxStates, Settled, GivenBack, Pending, NoticeCanceled
  <1>12. CASE RecvError
    BY <1>12 DEF RxStates, Settled, GivenBack, Pending, RecvError
  <1>13. CASE CancelTaker
    BY <1>13 DEF RxStates, Settled, GivenBack, Pending, CancelTaker
  <1>14. CASE Close
    BY <1>14 DEF RxStates, Settled, GivenBack, Pending, Close
  <1>15. CASE ReturnQueued
    <2>1. (queue \in Seq(Requests) /\ \A i, j \in 1 .. Len(queue) : queue[i] = queue[j] => i = j)'
      BY <1>15, TailQueue DEF ReturnQueued
    <2>2. Head(queue) \in Requests \/ queue = << >>
      BY TailQueue
    <2> QED BY <1>15, <2>1, <2>2 DEF ReturnQueued, RxStates, Settled, GivenBack, Pending
  <1>16. CASE DropTask
    BY <1>16 DEF RxStates, Settled, GivenBack, Pending, DropTask
  <1>17. CASE DropQueue
    <2>1. (queue \in Seq(Requests) /\ \A i, j \in 1 .. Len(queue) : queue[i] = queue[j] => i = j)'
      BY <1>17 DEF DropQueue
    <2>2. (outcome \in [Requests -> Pending \cup Settled \cup {"new"}])'
      BY <1>17 DEF DropQueue, Settled, GivenBack
    <2> QED BY <1>17, <2>1, <2>2 DEF DropQueue, RxStates
  <1>18. CASE UNCHANGED vars
    BY <1>18 DEF vars, Queued
  <1> QED
    BY <1>1, <1>2, <1>3, <1>4, <1>5, <1>6, <1>7, <1>8, <1>9, <1>10, <1>11, <1>12, <1>13, <1>14, <1>15, <1>16, <1>17, <1>18
    DEF Next, CallerNext, TaskNext, Terminated

LEMMA CreditSums ==
    \A a, b, c, d \in Nat :
        /\ a <= b /\ c <= d /\ b + d <= 3 => a + c <= 3
        /\ a <= b /\ c <= d /\ b + d <= 2 => a + c <= 2
        /\ a <= 1 /\ c <= 1 => a + c <= 2 /\ a + c <= 3
        /\ b + d <= 2 /\ c <= 1 => b + c <= 3
  OBVIOUS

(* A signal costs an empty queue, a queued request costs a signal or the    *)
(* free pass.                                                               *)
LEMMA Crediting == TypeOK /\ TypeOK' /\ Credits /\ [Next]_vars => Credits'
  <1> SUFFICES ASSUME TypeOK, TypeOK', Credits, [Next]_vars PROVE Credits'
    OBVIOUS
  <1>0. /\ Credit \in {0, 1} /\ Credit' \in {0, 1}
        /\ Len(queue) \in Nat /\ Len(queue') \in Nat
        /\ {"idle", "dropped"} \cap Requests = {}
    BY RequestsAssumption DEF TypeOK, Credit
  <1>a. /\ Accepted \in Nat /\ Accepted' \in Nat
        /\ Credit \in Nat /\ Credit' \in Nat /\ Credit <= 1 /\ Credit' <= 1
    BY <1>0 DEF Accepted, Credit
  <1>b. Accepted + Credit <= 3 /\ (rx = "sawEmpty" => Accepted + Credit <= 2)
    BY DEF Credits
  <1>1. /\ tx \in Requests => Accepted = Len(queue) + 1
        /\ tx \notin Requests => Accepted = Len(queue)
        /\ tx' \in Requests => Accepted' = Len(queue') + 1
        /\ tx' \notin Requests => Accepted' = Len(queue')
    BY <1>0 DEF Accepted
  <1>2. CASE Accepted' <= Accepted /\ Credit' <= Credit /\ (rx' # "sawEmpty" \/ rx' = rx)
    BY <1>a, <1>b, <1>2, CreditSums DEF Credits
  <1>3. CASE Push
    <2>1. Len(queue') \in {Len(queue), Len(queue) + 1} /\ tx \in Requests /\ tx' \notin Requests
      BY <1>0, <1>3 DEF Push, TypeOK
    <2>2. Credit' = Credit /\ rx' = rx
      BY <1>3 DEF Push, Credit
    <2> QED BY <1>0, <1>1, <1>2, <2>1, <2>2
  <1>4. ASSUME NEW r \in Requests, TrySend(r) PROVE Credits'
    <2>1. queue' = queue /\ rx' = rx /\ tx \notin Requests
      BY <1>0, <1>4 DEF TrySend
    <2>2. CASE want = "Want" \/ ~buffered_once
      <3>1. Credit = 1 /\ Credit' = 0 /\ tx' = r
        BY <1>4, <2>2 DEF TrySend, Credit
      <3> QED BY <1>0, <1>1, <2>1, <3>1 DEF Credits
    <2>3. CASE ~(want = "Want" \/ ~buffered_once)
      <3>1. Credit' = Credit /\ tx' = tx
        BY <1>4, <2>3 DEF TrySend, Credit
      <3> QED BY <1>0, <1>1, <1>2, <2>1, <3>1
    <2> QED BY <2>2, <2>3
  <1>5. CASE PollMsgEmpty
    <2>1. Len(queue) = 0 /\ queue' = queue /\ tx' = tx
      BY <1>5 DEF PollMsgEmpty
    <2>2. Accepted' <= 1
      BY <1>0, <1>1, <2>1
    <2> QED BY <1>a, <2>2, CreditSums DEF Credits
  <1>6. CASE Want
    <2>1. rx = "sawEmpty" /\ rx' = "idle" /\ queue' = queue /\ tx' = tx
      BY <1>6 DEF Want
    <2>2. Accepted' = Accepted
      BY <1>0, <1>1, <2>1
    <2> QED BY <1>a, <1>b, <2>1, <2>2, CreditSums DEF Credits
  <1>7. CASE /\ want' = want \/ want' # "Want"
             /\ buffered_once' = buffered_once
             /\ Len(queue') <= Len(queue)
             /\ tx' = tx \/ tx' = "dropped"
             /\ rx' # "sawEmpty" \/ rx' = rx
    <2>1. Credit' <= Credit
      BY <1>0, <1>7 DEF Credit
    <2> QED BY <1>0, <1>1, <1>2, <1>7, <2>1
  <1>8. CASE PollMsg \/ ReturnQueued
    <2>1. queue' = queue \/ (queue # << >> /\ queue' = Tail(queue))
      BY <1>8 DEF PollMsg, ReturnQueued
    <2>2. Len(queue') <= Len(queue)
      BY <2>1 DEF TypeOK
    <2> QED BY <1>7, <1>8, <2>2 DEF PollMsg, ReturnQueued
  <1>9. CASE DropQueue
    <2>1. Len(queue') = 0
      BY <1>9 DEF DropQueue
    <2> QED BY <1>0, <1>7, <1>9, <2>1 DEF DropQueue
  <1>10. CASE UNCHANGED queue /\ (DropTask \/ CancelTaker \/ Close \/ PollReady \/ DropSender)
    BY <1>0, <1>7, <1>10 DEF DropTask, CancelTaker, Close, PollReady, DropSender
  <1>11. CASE UNCHANGED queue /\ (PollMsgNone \/ RecvResponse \/ NoticeCanceled \/ RecvError \/ UNCHANGED vars)
    BY <1>0, <1>7, <1>11 DEF PollMsgNone, RecvResponse, NoticeCanceled, RecvError, vars
  <1>12. ASSUME NEW r \in Requests, CancelFuture(r) PROVE Credits'
    BY <1>0, <1>7, <1>12 DEF CancelFuture
  <1> QED
    BY <1>3, <1>4, <1>5, <1>6, <1>8, <1>9, <1>10, <1>11, <1>12
    DEF Next, CallerNext, TaskNext, Terminated, DropTask, CancelTaker, Close, PollReady,
        DropSender, PollMsgNone, RecvResponse, NoticeCanceled, RecvError, vars

(* The task's phases say what it has closed.                                *)
LEMMA Phasing == TypeOK /\ Phases /\ [Next]_vars => Phases'
  <1> SUFFICES ASSUME TypeOK, Phases, [Next]_vars PROVE Phases'
    OBVIOUS
  <1> USE DEF Phases
  <1>1. CASE PollReady
    BY <1>1 DEF TypeOK, PollReady
  <1>2. CASE Push
    BY <1>2 DEF TypeOK, Push
  <1>3. CASE DropSender
    BY <1>3 DEF TypeOK, DropSender
  <1>4. ASSUME NEW r \in Requests, TrySend(r) PROVE Phases'
    BY <1>4 DEF TypeOK, TrySend
  <1>5. ASSUME NEW r \in Requests, CancelFuture(r) PROVE Phases'
    BY <1>5 DEF TypeOK, CancelFuture
  <1>6. CASE PollMsg
    BY <1>6 DEF TypeOK, PollMsg
  <1>7. CASE PollMsgEmpty
    BY <1>7 DEF TypeOK, PollMsgEmpty
  <1>8. CASE Want
    BY <1>8 DEF TypeOK, Want
  <1>9. CASE PollMsgNone
    BY <1>9 DEF TypeOK, PollMsgNone
  <1>10. CASE RecvResponse
    BY <1>10 DEF TypeOK, RecvResponse
  <1>11. CASE NoticeCanceled
    BY <1>11 DEF TypeOK, NoticeCanceled
  <1>12. CASE RecvError
    BY <1>12 DEF TypeOK, RecvError
  <1>13. CASE CancelTaker
    BY <1>13 DEF TypeOK, CancelTaker
  <1>14. CASE Close
    BY <1>14 DEF TypeOK, Close
  <1>15. CASE ReturnQueued
    BY <1>15 DEF TypeOK, ReturnQueued
  <1>16. CASE DropTask
    BY <1>16 DEF TypeOK, DropTask
  <1>17. CASE DropQueue
    BY <1>17 DEF TypeOK, DropQueue
  <1>18. CASE UNCHANGED vars
    BY <1>18 DEF vars
  <1> QED
    BY <1>1, <1>2, <1>3, <1>4, <1>5, <1>6, <1>7, <1>8, <1>9, <1>10, <1>11, <1>12,
       <1>13, <1>14, <1>15, <1>16, <1>17, <1>18
    DEF Next, CallerNext, TaskNext, Terminated

(* Every step keeps the promises accounted for.                             *)
LEMMA Answering == TypeOK /\ Phases /\ Answers /\ [Next]_vars => Answers'
  <1> SUFFICES ASSUME TypeOK, Phases, Answers, [Next]_vars PROVE Answers'
    OBVIOUS
  <1>0. /\ queue \in Seq(Requests)
        /\ \A i, j \in 1 .. Len(queue) : queue[i] = queue[j] => i = j
        /\ outcome \in [Requests -> Pending \cup Settled \cup {"new"}]
        /\ callback \in Requests \cup {NoRequest} /\ NoRequest \notin Requests
        /\ written \in SUBSET Requests
        /\ {"idle", "dropped"} \cap Requests = {}
    BY RequestsAssumption DEF TypeOK
  <1> USE <1>0 DEF Answers, PendingIsHeld, PushIsNew, WrittenIsTaken, Pending
  <1>1. CASE PollReady
    <2>1. Queued' = Queued
      BY <1>1 DEF PollReady, Queued
    <2> QED BY <1>1, <2>1 DEF PollReady
  <1>2. CASE Push
    <2>1. tx \in Requests /\ tx \notin Queued
      BY <1>2 DEF Push
    <2>2. Queued' = IF rx_open THEN Queued \cup {tx} ELSE Queued
      BY <1>2, <2>1, AppendQueue DEF Push, Queued
    <2>3. ~rx_open => want = "Closed"
      BY DEF Phases
    <2>4. rx_open => rx # "gone"
      BY DEF Phases
    <2> QED BY <1>2, <2>1, <2>2, <2>4 DEF Push
  <1>3. CASE DropSender
    <2>1. Queued' = Queued
      BY <1>3 DEF DropSender, Queued
    <2> QED BY <1>3, <2>1 DEF DropSender
  <1>4. ASSUME NEW r \in Requests, TrySend(r) PROVE Answers'
    <2>1. Queued' = Queued
      BY <1>4 DEF TrySend, Queued
    <2> QED BY <1>4, <2>1 DEF TrySend
  <1>5. ASSUME NEW r \in Requests, CancelFuture(r) PROVE Answers'
    <2>1. Queued' = Queued
      BY <1>5 DEF CancelFuture, Queued
    <2> QED BY <1>5, <2>1 DEF CancelFuture
  <1>6. CASE PollMsg
    <2>1. /\ Head(queue) \in Requests /\ Head(queue) \in Queued
          /\ Queued' = Queued \ {Head(queue)}
      <3>1. queue # << >> /\ queue' = Tail(queue)
        BY <1>6 DEF PollMsg
      <3>2. /\ Head(queue) \in Requests
            /\ {Tail(queue)[i] : i \in 1 .. Len(Tail(queue))} =
                 {queue[i] : i \in 1 .. Len(queue)} \ {Head(queue)}
            /\ Head(queue) \in {queue[i] : i \in 1 .. Len(queue)}
        BY <3>1, TailQueue
      <3> QED BY ONLY <3>1, <3>2 DEF Queued
    <2> QED BY <1>6, <2>1 DEF PollMsg
  <1>7. CASE PollMsgEmpty
    <2>1. Queued' = Queued
      BY <1>7 DEF PollMsgEmpty, Queued
    <2> QED BY <1>7, <2>1 DEF PollMsgEmpty
  <1>8. CASE Want
    <2>1. Queued' = Queued
      BY <1>8 DEF Want, Queued
    <2> QED BY <1>8, <2>1 DEF Want
  <1>9. CASE PollMsgNone
    <2>1. Queued' = Queued
      BY <1>9 DEF PollMsgNone, Queued
    <2> QED BY <1>9, <2>1 DEF PollMsgNone
  <1>10. CASE RecvResponse
    <2>1. Queued' = Queued
      BY <1>10 DEF RecvResponse, Queued
    <2> QED BY <1>10, <2>1 DEF RecvResponse
  <1>11. CASE NoticeCanceled
    <2>1. Queued' = Queued
      BY <1>11 DEF NoticeCanceled, Queued
    <2> QED BY <1>11, <2>1 DEF NoticeCanceled
  <1>12. CASE RecvError
    <2>1. Queued' = Queued
      BY <1>12 DEF RecvError, Queued
    <2> QED BY <1>12, <2>1 DEF RecvError
  <1>13. CASE CancelTaker
    <2>1. Queued' = Queued
      BY <1>13 DEF CancelTaker, Queued
    <2> QED BY <1>13, <2>1 DEF CancelTaker
  <1>14. CASE Close
    <2>1. Queued' = Queued
      BY <1>14 DEF Close, Queued
    <2> QED BY <1>14, <2>1 DEF Close
  <1>15. CASE ReturnQueued
    <2>1. CASE queue = << >>
      <3>1. Queued' = Queued
        BY <1>15, <2>1 DEF ReturnQueued, Queued
      <3> QED BY <1>15, <2>1, <3>1 DEF ReturnQueued
    <2>2. CASE queue # << >>
      <3>1. /\ Head(queue) \in Requests /\ Head(queue) \in Queued
            /\ Queued' = Queued \ {Head(queue)}
        <4>1. queue' = Tail(queue)
          BY <1>15, <2>2 DEF ReturnQueued
        <4>2. /\ Head(queue) \in Requests
              /\ {Tail(queue)[i] : i \in 1 .. Len(Tail(queue))} =
                   {queue[i] : i \in 1 .. Len(queue)} \ {Head(queue)}
              /\ Head(queue) \in {queue[i] : i \in 1 .. Len(queue)}
          BY <2>2, TailQueue
        <4> QED BY ONLY <4>1, <4>2 DEF Queued
      <3> QED BY <1>15, <2>2, <3>1 DEF ReturnQueued
    <2> QED BY <2>1, <2>2
  <1>16. CASE DropTask
    <2>1. Queued' = Queued
      BY <1>16 DEF DropTask, Queued
    <2> QED BY <1>16, <2>1 DEF DropTask
  <1>17. CASE DropQueue
    <2>1. Queued' = {}
      BY <1>17 DEF DropQueue, Queued
    <2>2. callback = NoRequest
      BY <1>17 DEF DropQueue, Phases
    <2> QED BY <1>17, <2>1, <2>2 DEF DropQueue
  <1>18. CASE UNCHANGED vars
    <2>1. Queued' = Queued
      BY <1>18 DEF vars, Queued
    <2> QED BY <1>18, <2>1 DEF vars
  <1> QED
    BY <1>1, <1>2, <1>3, <1>4, <1>5, <1>6, <1>7, <1>8, <1>9, <1>10, <1>11, <1>12,
       <1>13, <1>14, <1>15, <1>16, <1>17, <1>18
    DEF Next, CallerNext, TaskNext, Terminated

LEMMA InitIInv == Init => IInv
  <1> SUFFICES ASSUME Init PROVE IInv
    OBVIOUS
  <1>1. TypeOK
    <2>1. outcome \in [Requests -> Pending \cup Settled \cup {"new"}]
      BY DEF Init
    <2>2. queue \in Seq(Requests) /\ \A i, j \in 1 .. Len(queue) : queue[i] = queue[j] => i = j
      BY DEF Init
    <2> QED BY <2>1, <2>2 DEF Init, TypeOK, RxStates
  <1>2. Credits
    BY RequestsAssumption DEF Init, Credits, Credit, Accepted
  <1>3. Answers
    <2>1. Queued = {}
      BY DEF Init, Queued
    <2> QED
      BY <2>1, RequestsAssumption
      DEF Init, Answers, PendingIsHeld, PushIsNew, WrittenIsTaken, Pending
  <1>4. Phases
    BY DEF Init, Phases
  <1> QED BY <1>1, <1>2, <1>3, <1>4 DEF IInv

(* The inductive invariant holds in every reachable state. *)
THEOREM Invariance == Spec => []IInv
  <1>1. IInv /\ [Next]_vars => IInv'
    BY Typing, Crediting, Answering, Phasing DEF IInv
  <1> QED BY InitIInv, <1>1, PTL DEF Spec

-----------------------------------------------------------------------------
(* The channel's state keeps its types.                                     *)
THEOREM TypeCorrect == Spec => []TypeOK
  BY Invariance, PTL DEF IInv

(* A request that is given back was never handed to the encoder.            *)
THEOREM ReturnedUnsentCorrect == Spec => []ReturnedUnsent
  <1>1. IInv => ReturnedUnsent
    BY DEF IInv, Answers, WrittenIsTaken, ReturnedUnsent, GivenBack
  <1> QED BY <1>1, Invariance, PTL

(* Every caller that waits has somebody who will answer it.                 *)
THEOREM PendingCorrect == Spec => []PendingIsHeld
  BY Invariance, PTL DEF IInv, Answers

(* At most three requests are ever in the queue.                            *)
THEOREM BoundCorrect == Spec => []QueueBound
  <1>1. IInv => QueueBound
    <2> SUFFICES ASSUME IInv PROVE Len(queue) <= 3
      BY DEF QueueBound
    <2>1. Len(queue) \in Nat
      BY DEF IInv, TypeOK
    <2>2. Accepted >= Len(queue) /\ Accepted \in Nat /\ Credit \in {0, 1}
      BY <2>1 DEF Accepted, Credit
    <2> QED BY <2>1, <2>2 DEF IInv, Credits
  <1> QED BY <1>1, Invariance, PTL

(* A handle is never ready for a closed queue.                              *)
THEOREM ClosedCorrect == Spec => []NeverReadyWhenClosed
  <1>1. IInv => NeverReadyWhenClosed
    BY DEF IInv, TypeOK, Phases, NeverReadyWhenClosed
  <1> QED BY <1>1, Invariance, PTL

(* Together: a request that is accepted is kept.                            *)
THEOREM KeptCorrect == Spec => []RequestsAreKept
  BY ReturnedUnsentCorrect, PendingCorrect, BoundCorrect, PTL DEF RequestsAreKept
=============================================================================
