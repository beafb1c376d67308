-------------------------- MODULE Http3SharedProof --------------------------
(***************************************************************************)
(* Proofs about the accounting of an HTTP/3 connection, for any number of  *)
(* requests, permits and handles.                                          *)
(*                                                                         *)
(* Counting rests on what each step of a request does to the sets of       *)
(* holders (Move).  That a graceful close cuts nothing rests on who may    *)
(* start a drain: a shutdown, which closes admission first, or the drop of *)
(* the last handle, after which nobody can make a request.                 *)
(***************************************************************************)
EXTENDS Http3Shared, FiniteSetTheorems, TLAPS

Holders(f, states) == {q \in Requests : f[q] \in states}

(* The counters, before their ranges. *)
Counting == CountsExact /\ permits \in Nat

(* The rest of the state has its types. *)
PCs == Calls \cup Closes \cup TaskSteps \cup {"idle", "publish", "lastWake", "over"}
Thens == {"idle", "lastWake", "closeReason", "closeLoud", "draining?", "finished"}
Typed ==
    /\ rq \in [Requests -> RequestStates] /\ pc \in [Actors -> PCs] /\ then \in [Actors -> Thens]
    /\ opened \in [Actors -> BOOLEAN] /\ late \subseteq Requests
    /\ senders \in 0 .. MaxSenders /\ seen \in 0 .. Cardinality(Requests)
Flags ==
    /\ draining \in BOOLEAN /\ permits_closed \in BOOLEAN /\ settings_ready \in BOOLEAN
    /\ violation \in BOOLEAN /\ waker \in BOOLEAN /\ woken \in BOOLEAN
    /\ settings \in BOOLEAN /\ goaway \in BOOLEAN
    /\ error \in {"none", "violation", "closed", "failed", "dropped"}
    /\ quic \in {"open", "quiet", "loud", "peer"}

-----------------------------------------------------------------------------
(* What moving one request from one state to another does to the number of holders. *)
Delta(S, u, v) == (IF v \in S THEN 1 ELSE 0) - (IF u \in S THEN 1 ELSE 0)

LEMMA Move ==
    \A f \in [Requests -> RequestStates], r \in Requests : \A v, S :
        /\ Cardinality(Holders(f, S)) \in Nat
        /\ Cardinality(Holders([f EXCEPT ![r] = v], S)) = Cardinality(Holders(f, S)) + Delta(S, f[r], v)
  <1> USE DEF Delta
  <1> TAKE f \in [Requests -> RequestStates], r \in Requests
  <1> TAKE v, S
  <1> DEFINE F == Holders(f, S)
             G == Holders([f EXCEPT ![r] = v], S)
  <1>1. IsFiniteSet(F) /\ IsFiniteSet(G)
    <2>1. F \in SUBSET Requests /\ G \in SUBSET Requests
      BY DEF Holders
    <2> QED BY <2>1, FS_Subset, SharedAssumption
  <1>2. Cardinality(F) \in Nat /\ Cardinality(G) \in Nat
    BY <1>1, FS_CardinalityType
  <1>3. CASE v \in S /\ f[r] \in S
    <2>1. G = F
      BY <1>3 DEF Holders
    <2> QED BY <1>2, <1>3, <2>1
  <1>4. CASE v \notin S /\ f[r] \notin S
    <2>1. G = F
      BY <1>4 DEF Holders
    <2> QED BY <1>2, <1>4, <2>1
  <1>5. CASE v \in S /\ f[r] \notin S
    <2>1. G = F \cup {r} /\ r \notin F
      BY <1>5 DEF Holders
    <2>2. Cardinality(G) = Cardinality(F) + 1
      BY <1>1, <2>1, FS_AddElement
    <2> QED BY <1>2, <1>5, <2>2
  <1>6. CASE v \notin S /\ f[r] \in S
    <2>1. G = F \ {r} /\ r \in F
      BY <1>6 DEF Holders
    <2>2. Cardinality(G) = Cardinality(F) - 1
      BY <1>1, <2>1, FS_RemoveElement
    <2> QED BY <1>2, <1>6, <2>2
  <1> QED BY <1>2, <1>3, <1>4, <1>5, <1>6

LEMMA Holding == In(HoldsReservation) = Holders(rq, HoldsReservation)
              /\ In(HoldsActive) = Holders(rq, HoldsActive)
              /\ In(HoldsPermit) = Holders(rq, HoldsPermit)
  BY DEF In, Holders

(* The counters in terms of the holders, as the steps below use them. *)
Exact(f, res, act, per) ==
    /\ res = Cardinality(Holders(f, HoldsReservation))
    /\ act = Cardinality(Holders(f, HoldsActive))
    /\ per = Limit - Cardinality(Holders(f, HoldsPermit))

LEMMA CountsAreExact == CountsExact <=> Exact(rq, reserved, active, permits)
  BY Holding DEF CountsExact, Exact

(* The counters stay exact when a request moves and they move with it. *)
LEMMA ExactMove ==
    \A f \in [Requests -> RequestStates], r \in Requests : \A v, res, act, per :
        Exact(f, res, act, per)
        => Exact([f EXCEPT ![r] = v], res + Delta(HoldsReservation, f[r], v),
                 act + Delta(HoldsActive, f[r], v), per - Delta(HoldsPermit, f[r], v))
  <1> TAKE f \in [Requests -> RequestStates], r \in Requests
  <1> TAKE v, res, act, per
  <1> HAVE Exact(f, res, act, per)
  <1>1. \A S : /\ Cardinality(Holders(f, S)) \in Nat
              /\ Cardinality(Holders([f EXCEPT ![r] = v], S)) = Cardinality(Holders(f, S)) + Delta(S, f[r], v)
    BY Move
  <1>2. \A S : Delta(S, f[r], v) \in Int
    BY DEF Delta
  <1>3. /\ res + Delta(HoldsReservation, f[r], v) = Cardinality(Holders([f EXCEPT ![r] = v], HoldsReservation))
        /\ act + Delta(HoldsActive, f[r], v) = Cardinality(Holders([f EXCEPT ![r] = v], HoldsActive))
    BY <1>1 DEF Exact
  <1>4. per - Delta(HoldsPermit, f[r], v) = Limit - Cardinality(Holders([f EXCEPT ![r] = v], HoldsPermit))
    <2> DEFINE c == Cardinality(Holders(f, HoldsPermit))
               d == Delta(HoldsPermit, f[r], v)
    <2>1. c \in Nat /\ d \in Int /\ Limit \in Nat /\ per = Limit - c
      BY <1>1, <1>2, SharedAssumption DEF Exact
    <2>2. Cardinality(Holders([f EXCEPT ![r] = v], HoldsPermit)) = c + d
      BY <1>1
    <2> HIDE DEF c, d
    <2>3. per - d = Limit - (c + d)
      BY <2>1
    <2> QED BY <2>2, <2>3 DEF d
  <1> QED BY <1>3, <1>4 DEF Exact

LEMMA ExactIsNat ==
    ASSUME Typed, Exact(rq, reserved, active, permits)
    PROVE  reserved \in Nat /\ active \in Nat /\ permits \in Int
  <1>1. /\ Cardinality(Holders(rq, HoldsReservation)) \in Nat
        /\ Cardinality(Holders(rq, HoldsActive)) \in Nat
        /\ Cardinality(Holders(rq, HoldsPermit)) \in Nat
    <2>1. \A S : Holders(rq, S) \in SUBSET Requests
      BY DEF Holders
    <2> QED BY <2>1, FS_Subset, FS_CardinalityType, SharedAssumption
  <1> QED BY <1>1, SharedAssumption DEF Exact

(* One step of one request keeps the counters exact. *)
LEMMA RequestCounts ==
    ASSUME Typed, Counting, NEW r \in Requests, RequestNext(r)
    PROVE  Counting'
  <1>1. /\ Exact(rq, reserved, active, permits)
        /\ reserved \in Nat /\ active \in Nat /\ permits \in Nat
        /\ rq \in [Requests -> RequestStates]
    BY CountsAreExact, ExactIsNat DEF Counting, Typed
  <1>2. SUFFICES Exact(rq', reserved', active', permits') /\ permits' \in Nat
    <2>1. CountsExact' <=> Exact(rq', reserved', active', permits')
      BY DEF CountsExact, Exact, In, Holders
    <2> QED BY <2>1 DEF Counting
  <1>a. ASSUME NEW v, rq' = [rq EXCEPT ![r] = v],
               reserved' = reserved + Delta(HoldsReservation, rq[r], v),
               active' = active + Delta(HoldsActive, rq[r], v),
               permits' = permits - Delta(HoldsPermit, rq[r], v)
        PROVE  Exact(rq', reserved', active', permits')
    BY <1>1, <1>a, ExactMove
  <1>3. CASE Check(r)
    <2>1. PICK v \in {"gone", "checked"} : rq' = [rq EXCEPT ![r] = v]
      BY <1>3 DEF Check, counts
    <2>2. rq[r] \in {"new"} /\ reserved' = reserved /\ active' = active /\ permits' = permits
      BY <1>3 DEF Check, counts
    <2>3. /\ Delta(HoldsReservation, rq[r], v) = 0
          /\ Delta(HoldsActive, rq[r], v) = 0
          /\ Delta(HoldsPermit, rq[r], v) = 0
      BY <2>1, <2>2 DEF Delta, HoldsReservation, HoldsActive, HoldsPermit, Waiting
    <2>4. /\ reserved' = reserved + Delta(HoldsReservation, rq[r], v)
          /\ active' = active + Delta(HoldsActive, rq[r], v)
          /\ permits' = permits - Delta(HoldsPermit, rq[r], v)
          /\ permits' \in Nat
      BY ONLY <1>1, <2>2, <2>3
    <2> QED BY ONLY <2>1, <2>4, <1>a
  <1>4. CASE Reserve(r)
    <2>1. PICK v \in {"settling", "reserved"} : rq' = [rq EXCEPT ![r] = v]
      BY <1>4 DEF Reserve, Waiting
    <2>2. rq[r] \in {"checked"} /\ reserved' = reserved + 1 /\ active' = active /\ permits' = permits
      BY <1>4 DEF Reserve, Waiting
    <2>3. /\ Delta(HoldsReservation, rq[r], v) = 1
          /\ Delta(HoldsActive, rq[r], v) = 0
          /\ Delta(HoldsPermit, rq[r], v) = 0
      BY <2>1, <2>2 DEF Delta, HoldsReservation, HoldsActive, HoldsPermit, Waiting
    <2>4. /\ reserved' = reserved + Delta(HoldsReservation, rq[r], v)
          /\ active' = active + Delta(HoldsActive, rq[r], v)
          /\ permits' = permits - Delta(HoldsPermit, rq[r], v)
          /\ permits' \in Nat
      BY ONLY <1>1, <2>2, <2>3
    <2> QED BY ONLY <2>1, <2>4, <1>a
  <1>5. CASE Settle(r)
    <2>1. PICK v \in {"reserved", "leaving"} : rq' = [rq EXCEPT ![r] = v]
      BY <1>5 DEF Settle, counts
    <2>2. rq[r] \in {"settling"} /\ reserved' = reserved /\ active' = active /\ permits' = permits
      BY <1>5 DEF Settle, counts
    <2>3. /\ Delta(HoldsReservation, rq[r], v) = 0
          /\ Delta(HoldsActive, rq[r], v) = 0
          /\ Delta(HoldsPermit, rq[r], v) = 0
      BY <2>1, <2>2 DEF Delta, HoldsReservation, HoldsActive, HoldsPermit, Waiting
    <2>4. /\ reserved' = reserved + Delta(HoldsReservation, rq[r], v)
          /\ active' = active + Delta(HoldsActive, rq[r], v)
          /\ permits' = permits - Delta(HoldsPermit, rq[r], v)
          /\ permits' \in Nat
      BY ONLY <1>1, <2>2, <2>3
    <2> QED BY ONLY <2>1, <2>4, <1>a
  <1>6. CASE Acquire(r)
    <2>1. PICK v \in {"acquired"} : rq' = [rq EXCEPT ![r] = v]
      BY <1>6 DEF Acquire
    <2>2. permits > 0 /\ rq[r] \in {"reserved"} /\ reserved' = reserved /\ active' = active /\ permits' = permits - 1
      BY <1>6 DEF Acquire
    <2>3. /\ Delta(HoldsReservation, rq[r], v) = 0
          /\ Delta(HoldsActive, rq[r], v) = 0
          /\ Delta(HoldsPermit, rq[r], v) = 1
      BY <2>1, <2>2 DEF Delta, HoldsReservation, HoldsActive, HoldsPermit, Waiting
    <2>4. /\ reserved' = reserved + Delta(HoldsReservation, rq[r], v)
          /\ active' = active + Delta(HoldsActive, rq[r], v)
          /\ permits' = permits - Delta(HoldsPermit, rq[r], v)
          /\ permits' \in Nat
      BY ONLY <1>1, <2>2, <2>3
    <2> QED BY ONLY <2>1, <2>4, <1>a
  <1>7. CASE Refuse(r)
    <2>1. PICK v \in {"leaving"} : rq' = [rq EXCEPT ![r] = v]
      BY <1>7 DEF Refuse, counts
    <2>2. rq[r] \in {"reserved"} /\ reserved' = reserved /\ active' = active /\ permits' = permits
      BY <1>7 DEF Refuse, counts
    <2>3. /\ Delta(HoldsReservation, rq[r], v) = 0
          /\ Delta(HoldsActive, rq[r], v) = 0
          /\ Delta(HoldsPermit, rq[r], v) = 0
      BY <2>1, <2>2 DEF Delta, HoldsReservation, HoldsActive, HoldsPermit, Waiting
    <2>4. /\ reserved' = reserved + Delta(HoldsReservation, rq[r], v)
          /\ active' = active + Delta(HoldsActive, rq[r], v)
          /\ permits' = permits - Delta(HoldsPermit, rq[r], v)
          /\ permits' \in Nat
      BY ONLY <1>1, <2>2, <2>3
    <2> QED BY ONLY <2>1, <2>4, <1>a
  <1>8. CASE Cancel(r)
    <2>1. PICK v \in {"leaving"} : rq' = [rq EXCEPT ![r] = v]
      BY <1>8 DEF Cancel, Waiting, counts
    <2>2. rq[r] \in {"settling", "reserved"} /\ reserved' = reserved /\ active' = active /\ permits' = permits
      BY <1>8 DEF Cancel, Waiting, counts
    <2>3. /\ Delta(HoldsReservation, rq[r], v) = 0
          /\ Delta(HoldsActive, rq[r], v) = 0
          /\ Delta(HoldsPermit, rq[r], v) = 0
      BY <2>1, <2>2 DEF Delta, HoldsReservation, HoldsActive, HoldsPermit, Waiting
    <2>4. /\ reserved' = reserved + Delta(HoldsReservation, rq[r], v)
          /\ active' = active + Delta(HoldsActive, rq[r], v)
          /\ permits' = permits - Delta(HoldsPermit, rq[r], v)
          /\ permits' \in Nat
      BY ONLY <1>1, <2>2, <2>3
    <2> QED BY ONLY <2>1, <2>4, <1>a
  <1>9. CASE Count(r)
    <2>1. PICK v \in {"counted"} : rq' = [rq EXCEPT ![r] = v]
      BY <1>9 DEF Count
    <2>2. rq[r] \in {"acquired"} /\ reserved' = reserved /\ active' = active + 1 /\ permits' = permits
      BY <1>9 DEF Count
    <2>3. /\ Delta(HoldsReservation, rq[r], v) = 0
          /\ Delta(HoldsActive, rq[r], v) = 1
          /\ Delta(HoldsPermit, rq[r], v) = 0
      BY <2>1, <2>2 DEF Delta, HoldsReservation, HoldsActive, HoldsPermit, Waiting
    <2>4. /\ reserved' = reserved + Delta(HoldsReservation, rq[r], v)
          /\ active' = active + Delta(HoldsActive, rq[r], v)
          /\ permits' = permits - Delta(HoldsPermit, rq[r], v)
          /\ permits' \in Nat
      BY ONLY <1>1, <2>2, <2>3
    <2> QED BY ONLY <2>1, <2>4, <1>a
  <1>10. CASE Unreserve(r)
    <2>1. PICK v \in {"active"} : rq' = [rq EXCEPT ![r] = v]
      BY <1>10 DEF Unreserve
    <2>2. rq[r] \in {"counted"} /\ reserved' = reserved - 1 /\ active' = active /\ permits' = permits
      BY <1>10 DEF Unreserve
    <2>3. /\ Delta(HoldsReservation, rq[r], v) = -1
          /\ Delta(HoldsActive, rq[r], v) = 0
          /\ Delta(HoldsPermit, rq[r], v) = 0
      BY <2>1, <2>2 DEF Delta, HoldsReservation, HoldsActive, HoldsPermit, Waiting
    <2>4. /\ reserved' = reserved + Delta(HoldsReservation, rq[r], v)
          /\ active' = active + Delta(HoldsActive, rq[r], v)
          /\ permits' = permits - Delta(HoldsPermit, rq[r], v)
          /\ permits' \in Nat
      BY ONLY <1>1, <2>2, <2>3
    <2> QED BY ONLY <2>1, <2>4, <1>a
  <1>11. CASE ReleasePermit(r)
    <2>1. PICK v \in {"reading", "released"} : rq' = [rq EXCEPT ![r] = v]
      BY <1>11 DEF ReleasePermit
    <2>2. rq[r] \in {"active"} /\ reserved' = reserved /\ active' = active /\ permits' = permits + 1
      BY <1>11 DEF ReleasePermit
    <2>3. /\ Delta(HoldsReservation, rq[r], v) = 0
          /\ Delta(HoldsActive, rq[r], v) = 0
          /\ Delta(HoldsPermit, rq[r], v) = -1
      BY <2>1, <2>2 DEF Delta, HoldsReservation, HoldsActive, HoldsPermit, Waiting
    <2>4. /\ reserved' = reserved + Delta(HoldsReservation, rq[r], v)
          /\ active' = active + Delta(HoldsActive, rq[r], v)
          /\ permits' = permits - Delta(HoldsPermit, rq[r], v)
          /\ permits' \in Nat
      BY ONLY <1>1, <2>2, <2>3
    <2> QED BY ONLY <2>1, <2>4, <1>a
  <1>12. CASE DropCheck(r)
    <2>1. PICK v \in {"waking", "gone"} : rq' = [rq EXCEPT ![r] = v]
      BY <1>12 DEF DropCheck, counts
    <2>2. rq[r] \in {"left"} /\ reserved' = reserved /\ active' = active /\ permits' = permits
      BY <1>12 DEF DropCheck, counts
    <2>3. /\ Delta(HoldsReservation, rq[r], v) = 0
          /\ Delta(HoldsActive, rq[r], v) = 0
          /\ Delta(HoldsPermit, rq[r], v) = 0
      BY <2>1, <2>2 DEF Delta, HoldsReservation, HoldsActive, HoldsPermit, Waiting
    <2>4. /\ reserved' = reserved + Delta(HoldsReservation, rq[r], v)
          /\ active' = active + Delta(HoldsActive, rq[r], v)
          /\ permits' = permits - Delta(HoldsPermit, rq[r], v)
          /\ permits' \in Nat
      BY ONLY <1>1, <2>2, <2>3
    <2> QED BY ONLY <2>1, <2>4, <1>a
  <1>13. CASE DropWake(r)
    <2>1. PICK v \in {"gone"} : rq' = [rq EXCEPT ![r] = v]
      BY <1>13 DEF DropWake, counts
    <2>2. rq[r] \in {"waking"} /\ reserved' = reserved /\ active' = active /\ permits' = permits
      BY <1>13 DEF DropWake, counts
    <2>3. /\ Delta(HoldsReservation, rq[r], v) = 0
          /\ Delta(HoldsActive, rq[r], v) = 0
          /\ Delta(HoldsPermit, rq[r], v) = 0
      BY <2>1, <2>2 DEF Delta, HoldsReservation, HoldsActive, HoldsPermit, Waiting
    <2>4. /\ reserved' = reserved + Delta(HoldsReservation, rq[r], v)
          /\ active' = active + Delta(HoldsActive, rq[r], v)
          /\ permits' = permits - Delta(HoldsPermit, rq[r], v)
          /\ permits' \in Nat
      BY ONLY <1>1, <2>2, <2>3
    <2> QED BY ONLY <2>1, <2>4, <1>a
  <1>14. CASE Drop(r)
    <2>1. CASE rq[r] = "leaving"
      <3>1. PICK v \in {"left"} : rq' = [rq EXCEPT ![r] = v]
        BY <1>14, <2>1 DEF Drop
      <3>2. rq[r] \in {"leaving"} /\ reserved' = reserved - 1 /\ active' = active /\ permits' = permits
        BY <1>14, <2>1 DEF Drop
      <3>3. /\ Delta(HoldsReservation, rq[r], v) = -1
            /\ Delta(HoldsActive, rq[r], v) = 0
            /\ Delta(HoldsPermit, rq[r], v) = 0
        BY <3>1, <3>2 DEF Delta, HoldsReservation, HoldsActive, HoldsPermit, Waiting
      <3>4. /\ reserved' = reserved + Delta(HoldsReservation, rq[r], v)
            /\ active' = active + Delta(HoldsActive, rq[r], v)
            /\ permits' = permits - Delta(HoldsPermit, rq[r], v)
            /\ permits' \in Nat
        BY ONLY <1>1, <3>2, <3>3
      <3> QED BY ONLY <3>1, <3>4, <1>a
    <2>2. CASE rq[r] # "leaving"
      <3>1. PICK v \in {"left"} : rq' = [rq EXCEPT ![r] = v]
        BY <1>14, <2>2 DEF Drop
      <3>2. rq[r] \in {"reading", "released"} /\ reserved' = reserved /\ active' = active - 1 /\ permits' = permits
        BY <1>14, <2>2 DEF Drop
      <3>3. /\ Delta(HoldsReservation, rq[r], v) = 0
            /\ Delta(HoldsActive, rq[r], v) = -1
            /\ Delta(HoldsPermit, rq[r], v) = 0
        BY <3>1, <3>2 DEF Delta, HoldsReservation, HoldsActive, HoldsPermit, Waiting
      <3>4. /\ reserved' = reserved + Delta(HoldsReservation, rq[r], v)
            /\ active' = active + Delta(HoldsActive, rq[r], v)
            /\ permits' = permits - Delta(HoldsPermit, rq[r], v)
            /\ permits' \in Nat
        BY ONLY <1>1, <3>2, <3>3
      <3> QED BY ONLY <3>1, <3>4, <1>a
    <2> QED BY <2>1, <2>2
  <1> QED
    BY <1>3, <1>4, <1>5, <1>6, <1>7, <1>8, <1>9, <1>10, <1>11, <1>12, <1>13, <1>14 DEF RequestNext

-----------------------------------------------------------------------------
LEMMA InFacts ==
    /\ \A S : IsFiniteSet(In(S)) /\ Cardinality(In(S)) \in Nat /\ Cardinality(In(S)) <= Cardinality(Requests)
    /\ Cardinality(Requests) \in Nat
  <1>1. \A S : In(S) \in SUBSET Requests
    BY DEF In
  <1> QED BY <1>1, FS_Subset, FS_CardinalityType, SharedAssumption

(* Everybody else leaves the requests and their counters alone. *)
CountState == <<rq, reserved, active, permits>>
LEMMA CountsAlone == Counting /\ UNCHANGED CountState => Counting'
  BY DEF Counting, CountsExact, In, CountState

LEMMA Counts == Typed /\ Counting /\ [Next]_vars => Counting'
  <1> SUFFICES ASSUME Typed, Counting, [Next]_vars PROVE Counting'
    OBVIOUS
  <1>1. ASSUME NEW r \in Requests, RequestNext(r) PROVE Counting'
    BY <1>1, RequestCounts
  <1> USE DEF CountState, counts
  <1>2. ASSUME NEW a \in Actors, CallNext(a) PROVE Counting'
    BY <1>2, CountsAlone DEF CallNext, Drain, DrainWake, Drained, ShutWake, ShutdownCheck,
       ShutdownClose, CloseReason, CloseStep
  <1>3. CASE TaskNext
    BY <1>3, CountsAlone DEF TaskNext, Register, TaskViolation, TaskDriver, TaskSettings, TaskFails,
       TaskDraining, TaskReserved, TaskAdmission, TaskActive, TaskClose, TaskCloseGraceful,
       TaskGraceful
  <1>4. CASE CloneSender \/ DropSender \/ GracefulShutdown \/ DropHandle \/ HandleCompletes
    BY <1>4, CountsAlone DEF CloneSender, DropSender, GracefulShutdown, DropHandle, HandleCompletes
  <1>5. CASE Violate \/ ViolatePublish \/ ViolateWake \/ DropTask \/ PeerSettings \/ PeerGoaway \/ PeerCloses
    BY <1>5, CountsAlone DEF Violate, ViolatePublish, ViolateWake, DropTask, PeerSettings,
       PeerGoaway, PeerCloses
  <1>6. CASE UNCHANGED vars
    BY <1>6, CountsAlone DEF vars
  <1> QED BY <1>1, <1>2, <1>3, <1>4, <1>5, <1>6 DEF Next, Terminated

-----------------------------------------------------------------------------
LEMMA TypedStep == Typed /\ Counting /\ [Next]_vars => Typed'
  <1> SUFFICES ASSUME Typed, Counting, [Next]_vars PROVE Typed'
    OBVIOUS
  <1>0. /\ reserved \in 0 .. Cardinality(Requests)
        /\ \A S : Cardinality(In(S)) \in Nat
    BY InFacts DEF Counting, CountsExact
  <1> USE DEF Typed, counts, wakers, actors, RequestStates, HoldsReservation, HoldsActive, Waiting, Over
  <1>1. ASSUME NEW r \in Requests, Check(r) PROVE Typed'
    BY <1>1 DEF Check
  <1>2. ASSUME NEW r \in Requests, Reserve(r) PROVE Typed'
    BY <1>2 DEF Reserve
  <1>3. ASSUME NEW r \in Requests, Settle(r) PROVE Typed'
    BY <1>3 DEF Settle
  <1>4. ASSUME NEW r \in Requests, Acquire(r) PROVE Typed'
    BY <1>4 DEF Acquire
  <1>5. ASSUME NEW r \in Requests, Refuse(r) PROVE Typed'
    BY <1>5 DEF Refuse
  <1>6. ASSUME NEW r \in Requests, Cancel(r) PROVE Typed'
    BY <1>6 DEF Cancel
  <1>7. ASSUME NEW r \in Requests, Count(r) PROVE Typed'
    BY <1>7 DEF Count
  <1>8. ASSUME NEW r \in Requests, Unreserve(r) PROVE Typed'
    BY <1>8 DEF Unreserve
  <1>9. ASSUME NEW r \in Requests, ReleasePermit(r) PROVE Typed'
    BY <1>9 DEF ReleasePermit
  <1>10. ASSUME NEW r \in Requests, Drop(r) PROVE Typed'
    BY <1>10 DEF Drop
  <1>11. ASSUME NEW r \in Requests, DropCheck(r) PROVE Typed'
    BY <1>11 DEF DropCheck
  <1>12. ASSUME NEW r \in Requests, DropWake(r) PROVE Typed'
    BY <1>12 DEF DropWake
  <1> USE DEF Actors, PCs, Thens, Calls, Closes, TaskSteps, Goto, Task, Shutdown
  <1>13. ASSUME NEW a \in Actors, Drain(a) PROVE Typed'
    BY <1>13 DEF Drain
  <1>14. ASSUME NEW a \in Actors, DrainWake(a) PROVE Typed'
    BY <1>14 DEF DrainWake
  <1>15. ASSUME NEW a \in Actors, Drained(a) PROVE Typed'
    BY <1>15 DEF Drained
  <1>16. ASSUME NEW a \in Actors, ShutWake(a) PROVE Typed'
    BY <1>16 DEF ShutWake
  <1>17. ASSUME NEW a \in Actors, ShutdownCheck(a) PROVE Typed'
    BY <1>17 DEF ShutdownCheck
  <1>18. ASSUME NEW a \in Actors, ShutdownClose(a) PROVE Typed'
    BY <1>18 DEF ShutdownClose
  <1>19. ASSUME NEW a \in Actors, CloseReason(a) PROVE Typed'
    BY <1>19 DEF CloseReason
  <1>20. ASSUME NEW a \in Actors, CloseStep(a) PROVE Typed'
    BY <1>20 DEF CloseStep
  <1>21. CASE Register
    BY <1>21 DEF Register
  <1>22. CASE TaskViolation
    BY <1>22 DEF TaskViolation
  <1>23. CASE TaskDriver
    BY <1>23 DEF TaskDriver
  <1>24. CASE TaskSettings
    BY <1>24 DEF TaskSettings
  <1>25. CASE TaskFails
    BY <1>25 DEF TaskFails
  <1>26. CASE TaskDraining
    BY <1>26 DEF TaskDraining
  <1>27. CASE TaskReserved
    BY <1>27, <1>0, SharedAssumption DEF TaskReserved
  <1>28. CASE TaskAdmission
    BY <1>28 DEF TaskAdmission
  <1>29. CASE TaskActive
    BY <1>29 DEF TaskActive
  <1>30. CASE TaskClose
    BY <1>30 DEF TaskClose
  <1>31. CASE TaskCloseGraceful
    BY <1>31 DEF TaskCloseGraceful
  <1>32. CASE TaskGraceful
    BY <1>32 DEF TaskGraceful
  <1>33. CASE CloneSender
    BY <1>33, <1>0, SharedAssumption DEF CloneSender
  <1>34. CASE DropSender
    BY <1>34, <1>0, SharedAssumption DEF DropSender
  <1>35. CASE GracefulShutdown
    BY <1>35 DEF GracefulShutdown
  <1>36. CASE DropHandle
    BY <1>36 DEF DropHandle
  <1>37. CASE HandleCompletes
    BY <1>37 DEF HandleCompletes
  <1>38. CASE Violate
    BY <1>38 DEF Violate
  <1>39. CASE ViolatePublish
    BY <1>39 DEF ViolatePublish
  <1>40. CASE ViolateWake
    BY <1>40 DEF ViolateWake
  <1>41. CASE DropTask
    BY <1>41 DEF DropTask
  <1>42. CASE PeerSettings
    BY <1>42 DEF PeerSettings
  <1>43. CASE PeerGoaway
    BY <1>43 DEF PeerGoaway
  <1>44. CASE PeerCloses
    BY <1>44 DEF PeerCloses
  <1>45. CASE UNCHANGED vars
    BY <1>45 DEF vars
  <1> QED
    BY <1>1, <1>2, <1>3, <1>4, <1>5, <1>6, <1>7, <1>8, <1>9, <1>10, <1>11, <1>12, <1>13, <1>14,
       <1>15, <1>16, <1>17, <1>18, <1>19, <1>20, <1>21, <1>22, <1>23, <1>24, <1>25, <1>26, <1>27,
       <1>28, <1>29, <1>30, <1>31, <1>32, <1>33, <1>34, <1>35, <1>36, <1>37, <1>38, <1>39, <1>40,
       <1>41, <1>42, <1>43, <1>44, <1>45
    DEF Next, RequestNext, CallNext, TaskNext, Terminated

LEMMA FlagsStep == Flags /\ [Next]_vars => Flags'
  <1> SUFFICES ASSUME Flags, [Next]_vars PROVE Flags'
    OBVIOUS
  <1> USE DEF Flags, flags, wakers, peer, Wake, Publish, CloseQuic
  <1>1. ASSUME NEW r \in Requests, Check(r) PROVE Flags'
    BY <1>1 DEF Check
  <1>2. ASSUME NEW r \in Requests, Reserve(r) PROVE Flags'
    BY <1>2 DEF Reserve
  <1>3. ASSUME NEW r \in Requests, Settle(r) PROVE Flags'
    BY <1>3 DEF Settle
  <1>4. ASSUME NEW r \in Requests, Acquire(r) PROVE Flags'
    BY <1>4 DEF Acquire
  <1>5. ASSUME NEW r \in Requests, Refuse(r) PROVE Flags'
    BY <1>5 DEF Refuse
  <1>6. ASSUME NEW r \in Requests, Cancel(r) PROVE Flags'
    BY <1>6 DEF Cancel
  <1>7. ASSUME NEW r \in Requests, Count(r) PROVE Flags'
    BY <1>7 DEF Count
  <1>8. ASSUME NEW r \in Requests, Unreserve(r) PROVE Flags'
    BY <1>8 DEF Unreserve
  <1>9. ASSUME NEW r \in Requests, ReleasePermit(r) PROVE Flags'
    BY <1>9 DEF ReleasePermit
  <1>10. ASSUME NEW r \in Requests, Drop(r) PROVE Flags'
    BY <1>10 DEF Drop
  <1>11. ASSUME NEW r \in Requests, DropCheck(r) PROVE Flags'
    BY <1>11 DEF DropCheck
  <1>12. ASSUME NEW r \in Requests, DropWake(r) PROVE Flags'
    BY <1>12 DEF DropWake
  <1>13. ASSUME NEW a \in Actors, Drain(a) PROVE Flags'
    BY <1>13 DEF Drain
  <1>14. ASSUME NEW a \in Actors, DrainWake(a) PROVE Flags'
    BY <1>14 DEF DrainWake
  <1>15. ASSUME NEW a \in Actors, Drained(a) PROVE Flags'
    BY <1>15 DEF Drained
  <1>16. ASSUME NEW a \in Actors, ShutWake(a) PROVE Flags'
    BY <1>16 DEF ShutWake
  <1>17. ASSUME NEW a \in Actors, ShutdownCheck(a) PROVE Flags'
    BY <1>17 DEF ShutdownCheck
  <1>18. ASSUME NEW a \in Actors, ShutdownClose(a) PROVE Flags'
    BY <1>18 DEF ShutdownClose
  <1>19. ASSUME NEW a \in Actors, CloseReason(a) PROVE Flags'
    BY <1>19 DEF CloseReason
  <1>20. ASSUME NEW a \in Actors, CloseStep(a) PROVE Flags'
    BY <1>20 DEF CloseStep
  <1>21. CASE Register
    BY <1>21 DEF Register
  <1>22. CASE TaskViolation
    BY <1>22 DEF TaskViolation
  <1>23. CASE TaskDriver
    BY <1>23 DEF TaskDriver
  <1>24. CASE TaskSettings
    BY <1>24 DEF TaskSettings
  <1>25. CASE TaskFails
    BY <1>25 DEF TaskFails
  <1>26. CASE TaskDraining
    BY <1>26 DEF TaskDraining
  <1>27. CASE TaskReserved
    BY <1>27 DEF TaskReserved
  <1>28. CASE TaskAdmission
    BY <1>28 DEF TaskAdmission
  <1>29. CASE TaskActive
    BY <1>29 DEF TaskActive
  <1>30. CASE TaskClose
    BY <1>30 DEF TaskClose
  <1>31. CASE TaskCloseGraceful
    BY <1>31 DEF TaskCloseGraceful
  <1>32. CASE TaskGraceful
    BY <1>32 DEF TaskGraceful
  <1>33. CASE CloneSender
    BY <1>33 DEF CloneSender
  <1>34. CASE DropSender
    BY <1>34 DEF DropSender
  <1>35. CASE GracefulShutdown
    BY <1>35 DEF GracefulShutdown
  <1>36. CASE DropHandle
    BY <1>36 DEF DropHandle
  <1>37. CASE HandleCompletes
    BY <1>37 DEF HandleCompletes
  <1>38. CASE Violate
    BY <1>38 DEF Violate
  <1>39. CASE ViolatePublish
    BY <1>39 DEF ViolatePublish
  <1>40. CASE ViolateWake
    BY <1>40 DEF ViolateWake
  <1>41. CASE DropTask
    BY <1>41 DEF DropTask
  <1>42. CASE PeerSettings
    BY <1>42 DEF PeerSettings
  <1>43. CASE PeerGoaway
    BY <1>43 DEF PeerGoaway
  <1>44. CASE PeerCloses
    BY <1>44 DEF PeerCloses
  <1>45. CASE UNCHANGED vars
    BY <1>45 DEF vars
  <1> QED
    BY <1>1, <1>2, <1>3, <1>4, <1>5, <1>6, <1>7, <1>8, <1>9, <1>10, <1>11, <1>12, <1>13, <1>14,
       <1>15, <1>16, <1>17, <1>18, <1>19, <1>20, <1>21, <1>22, <1>23, <1>24, <1>25, <1>26, <1>27,
       <1>28, <1>29, <1>30, <1>31, <1>32, <1>33, <1>34, <1>35, <1>36, <1>37, <1>38, <1>39, <1>40,
       <1>41, <1>42, <1>43, <1>44, <1>45
    DEF Next, RequestNext, CallNext, TaskNext, Terminated

-----------------------------------------------------------------------------
(* Who may start a drain: a shutdown, which has closed admission, or the   *)
(* drop of the last handle.  A request being created borrows a handle.     *)
Admission ==
    /\ draining /\ ~permits_closed => senders = 0
    /\ \A a \in Actors : pc[a] = "drain" => permits_closed \/ senders = 0
    /\ Cardinality(In({"checked"})) <= senders

LEMMA NoneChecked == Typed /\ Admission /\ senders = 0 => In({"checked"}) = {}
  <1> SUFFICES ASSUME Typed, Admission, senders = 0 PROVE In({"checked"}) = {}
    OBVIOUS
  <1>1. Cardinality(In({"checked"})) = 0
    BY InFacts DEF Admission
  <1> QED BY <1>1, InFacts, FS_EmptySet

LEMMA CheckedMove ==
    Typed => \A r \in Requests : \A v :
        rq' = [rq EXCEPT ![r] = v]
            => Cardinality(In({"checked"}))' = Cardinality(In({"checked"})) + Delta({"checked"}, rq[r], v)
  <1> SUFFICES ASSUME Typed, NEW r \in Requests, NEW v, rq' = [rq EXCEPT ![r] = v]
               PROVE  Cardinality(In({"checked"}))' = Cardinality(In({"checked"})) + Delta({"checked"}, rq[r], v)
    OBVIOUS
  <1>1. In({"checked"}) = Holders(rq, {"checked"}) /\ In({"checked"})' = Holders([rq EXCEPT ![r] = v], {"checked"})
    BY DEF In, Holders
  <1>2. rq \in [Requests -> RequestStates]
    BY DEF Typed
  <1>3. Cardinality(Holders([rq EXCEPT ![r] = v], {"checked"}))
            = Cardinality(Holders(rq, {"checked"})) + Delta({"checked"}, rq[r], v)
    BY <1>2, Move
  <1>4. Cardinality(In({"checked"}))' = Cardinality(In({"checked"})')
    OBVIOUS
  <1> QED BY ONLY <1>1, <1>3, <1>4

LEMMA AdmissionStep == Typed /\ Admission /\ [Next]_vars => Admission'
  <1> SUFFICES ASSUME Typed, Admission, [Next]_vars PROVE Admission'
    OBVIOUS
  <1>0. Cardinality(In({"checked"})) \in Nat /\ senders \in Nat
    BY InFacts, SharedAssumption DEF Typed
  <1>1. ASSUME NEW r \in Requests, Check(r) PROVE Admission'
    <2>1. PICK v : rq' = [rq EXCEPT ![r] = v]
      BY <1>1 DEF Check
    <2>a. Cardinality(In({"checked"}))' = Cardinality(In({"checked"})) + Delta({"checked"}, rq[r], v)
      BY <2>1, CheckedMove
    <2>b. Delta({"checked"}, rq[r], v) \in {0, 1, -1}
      BY DEF Delta
    <2>2. Cardinality(In({"checked"}))' <= Cardinality(In({"checked"})) + 1
      BY <1>0, <2>a, <2>b
    <2>3. Cardinality(In({"checked"}))' \in Int
      BY <1>0, <2>a, <2>b
    <2>4. senders' = senders /\ senders > Cardinality(In({"checked"}))
      BY <1>1 DEF Check, counts
    <2>5. (Cardinality(In({"checked"})) <= senders)'
      BY <1>0, <2>2, <2>3, <2>4
    <2> QED BY <1>1, <2>5 DEF Admission, Check, flags, counts, actors
  <1>2. ASSUME NEW r \in Requests, Reserve(r) PROVE Admission'
    <2>1. PICK v : v \in Waiting /\ rq' = [rq EXCEPT ![r] = v]
      BY <1>2 DEF Reserve
    <2>2. Delta({"checked"}, rq[r], v) = -1
      BY <1>2, <2>1 DEF Delta, Reserve, Waiting
    <2>3. (Cardinality(In({"checked"})))' = Cardinality(In({"checked"})) - 1 /\ senders' = senders
      BY <1>0, <1>2, <2>1, <2>2, CheckedMove DEF Reserve
    <2>4. (Cardinality(In({"checked"})) <= senders)'
      BY <1>0, <2>3 DEF Admission
    <2> QED BY <1>2, <2>4 DEF Admission, Reserve, flags, actors
  <1>3. ASSUME NEW r \in Requests, Settle(r) PROVE Admission'
    <2>1. In({"checked"})' = In({"checked"})
      BY <1>3 DEF Settle, In, Typed, Waiting
    <2> QED BY <1>3, <2>1 DEF Admission, Settle, flags, counts, actors
  <1>4. ASSUME NEW r \in Requests, Acquire(r) PROVE Admission'
    <2>1. In({"checked"})' = In({"checked"})
      BY <1>4 DEF Acquire, In, Typed, Waiting
    <2> QED BY <1>4, <2>1 DEF Admission, Acquire, flags, counts, actors
  <1>5. ASSUME NEW r \in Requests, Refuse(r) PROVE Admission'
    <2>1. In({"checked"})' = In({"checked"})
      BY <1>5 DEF Refuse, In, Typed, Waiting
    <2> QED BY <1>5, <2>1 DEF Admission, Refuse, flags, counts, actors
  <1>6. ASSUME NEW r \in Requests, Cancel(r) PROVE Admission'
    <2>1. In({"checked"})' = In({"checked"})
      BY <1>6 DEF Cancel, In, Typed, Waiting
    <2> QED BY <1>6, <2>1 DEF Admission, Cancel, flags, counts, actors
  <1>7. ASSUME NEW r \in Requests, Count(r) PROVE Admission'
    <2>1. In({"checked"})' = In({"checked"})
      BY <1>7 DEF Count, In, Typed, Waiting
    <2> QED BY <1>7, <2>1 DEF Admission, Count, flags, counts, actors
  <1>8. ASSUME NEW r \in Requests, Unreserve(r) PROVE Admission'
    <2>1. In({"checked"})' = In({"checked"})
      BY <1>8 DEF Unreserve, In, Typed, Waiting
    <2> QED BY <1>8, <2>1 DEF Admission, Unreserve, flags, counts, actors
  <1>9. ASSUME NEW r \in Requests, ReleasePermit(r) PROVE Admission'
    <2>1. In({"checked"})' = In({"checked"})
      BY <1>9 DEF ReleasePermit, In, Typed, Waiting
    <2> QED BY <1>9, <2>1 DEF Admission, ReleasePermit, flags, counts, actors
  <1>10. ASSUME NEW r \in Requests, Drop(r) PROVE Admission'
    <2>1. In({"checked"})' = In({"checked"})
      BY <1>10 DEF Drop, In, Typed, Waiting
    <2> QED BY <1>10, <2>1 DEF Admission, Drop, flags, counts, actors
  <1>11. ASSUME NEW r \in Requests, DropCheck(r) PROVE Admission'
    <2>1. In({"checked"})' = In({"checked"})
      BY <1>11 DEF DropCheck, In, Typed, Waiting
    <2> QED BY <1>11, <2>1 DEF Admission, DropCheck, flags, counts, actors
  <1>12. ASSUME NEW r \in Requests, DropWake(r) PROVE Admission'
    <2>1. In({"checked"})' = In({"checked"})
      BY <1>12 DEF DropWake, In, Typed, Waiting
    <2> QED BY <1>12, <2>1 DEF Admission, DropWake, flags, counts, actors
  <1> USE DEF Admission, In, Goto, Task, Shutdown, flags, counts, actors, Typed
  <1>13. ASSUME NEW a \in Actors, Drain(a) PROVE Admission'
    BY <1>13 DEF Drain
  <1>14. ASSUME NEW a \in Actors, DrainWake(a) PROVE Admission'
    BY <1>14 DEF DrainWake
  <1>15. ASSUME NEW a \in Actors, Drained(a) PROVE Admission'
    BY <1>15 DEF Drained, PCs, Thens
  <1>16. ASSUME NEW a \in Actors, ShutWake(a) PROVE Admission'
    BY <1>16 DEF ShutWake, PCs, Thens
  <1>17. ASSUME NEW a \in Actors, ShutdownCheck(a) PROVE Admission'
    BY <1>17 DEF ShutdownCheck
  <1>18. ASSUME NEW a \in Actors, ShutdownClose(a) PROVE Admission'
    BY <1>18 DEF ShutdownClose
  <1>19. ASSUME NEW a \in Actors, CloseReason(a) PROVE Admission'
    BY <1>19 DEF CloseReason
  <1>20. ASSUME NEW a \in Actors, CloseStep(a) PROVE Admission'
    BY <1>20 DEF CloseStep
  <1>21. CASE Register
    BY <1>21 DEF Register
  <1>22. CASE TaskViolation
    BY <1>22 DEF TaskViolation
  <1>23. CASE TaskDriver
    BY <1>23 DEF TaskDriver
  <1>24. CASE TaskSettings
    BY <1>24 DEF TaskSettings
  <1>25. CASE TaskFails
    BY <1>25 DEF TaskFails
  <1>26. CASE TaskDraining
    BY <1>26 DEF TaskDraining
  <1>27. CASE TaskReserved
    BY <1>27 DEF TaskReserved
  <1>28. CASE TaskAdmission
    BY <1>28 DEF TaskAdmission
  <1>29. CASE TaskActive
    BY <1>29 DEF TaskActive
  <1>30. CASE TaskClose
    BY <1>30 DEF TaskClose
  <1>31. CASE TaskCloseGraceful
    BY <1>31 DEF TaskCloseGraceful
  <1>32. CASE TaskGraceful
    BY <1>32 DEF TaskGraceful
  <1>33. CASE CloneSender
    BY <1>33, <1>0 DEF CloneSender
  <1>34. CASE DropSender
    BY <1>34, <1>0 DEF DropSender, Actors
  <1>35. CASE GracefulShutdown
    BY <1>35 DEF GracefulShutdown
  <1>36. CASE DropHandle
    BY <1>36 DEF DropHandle
  <1>37. CASE HandleCompletes
    BY <1>37 DEF HandleCompletes
  <1>38. CASE Violate
    BY <1>38 DEF Violate
  <1>39. CASE ViolatePublish
    BY <1>39 DEF ViolatePublish
  <1>40. CASE ViolateWake
    BY <1>40 DEF ViolateWake
  <1>41. CASE DropTask
    BY <1>41 DEF DropTask
  <1>42. CASE PeerSettings
    BY <1>42 DEF PeerSettings
  <1>43. CASE PeerGoaway
    BY <1>43 DEF PeerGoaway
  <1>44. CASE PeerCloses
    BY <1>44 DEF PeerCloses
  <1>45. CASE UNCHANGED vars
    BY <1>45 DEF vars
  <1> QED
    BY <1>1, <1>2, <1>3, <1>4, <1>5, <1>6, <1>7, <1>8, <1>9, <1>10, <1>11, <1>12, <1>13, <1>14,
       <1>15, <1>16, <1>17, <1>18, <1>19, <1>20, <1>21, <1>22, <1>23, <1>24, <1>25, <1>26, <1>27,
       <1>28, <1>29, <1>30, <1>31, <1>32, <1>33, <1>34, <1>35, <1>36, <1>37, <1>38, <1>39, <1>40,
       <1>41, <1>42, <1>43, <1>44, <1>45
    DEF Next, RequestNext, CallNext, TaskNext, Terminated

-----------------------------------------------------------------------------
(* What the loads of is_idle still say when the task acts on them: once it *)
(* has found the connection draining, a reservation can only be there      *)
(* behind a closed admission, and an exchange only if a shutdown overtook  *)
(* its admission.                                                          *)
Unreserved == permits_closed \/ In(HoldsReservation) = {}
Idle ==
    /\ pc["task"] \in {"reserved?", "admission?", "active?", "closeGraceful"} => draining
    /\ Task("close") /\ ~violation => draining
    /\ Task("admission?") /\ seen = 0 => Unreserved
    /\ Task("active?") \/ Task("closeGraceful") => Unreserved
    /\ Task("close") /\ ~violation => Unreserved
    /\ (Task("close") /\ ~violation) \/ Task("closeGraceful") => In(HoldsActive) \subseteq late

LEMMA NoHolder == Counting => (reserved = 0 => In(HoldsReservation) = {}) /\ (active = 0 => In(HoldsActive) = {})
  BY InFacts, FS_EmptySet DEF Counting, CountsExact

LEMMA IdleStep == Typed /\ Counting /\ Admission /\ Idle /\ [Next]_vars => Idle'
  <1> SUFFICES ASSUME Typed, Counting, Admission, Idle, [Next]_vars PROVE Idle'
    OBVIOUS
  <1>0. draining => permits_closed \/ In({"checked"}) = {}
    BY NoneChecked DEF Admission
  <1> USE DEF Task, Goto, Shutdown, flags, counts, actors, HoldsReservation, HoldsActive, Waiting, Over
  <1>1. ASSUME NEW r \in Requests, Check(r) PROVE Idle'
    <2>1. In(HoldsReservation)' \subseteq In(HoldsReservation) /\ In(HoldsActive)' \subseteq In(HoldsActive)
      BY <1>1 DEF Check, In, Typed
    <2>2. UNCHANGED <<pc, seen, violation, draining, permits_closed, late>>
      BY <1>1 DEF Check
    <2> HIDE DEF HoldsReservation, HoldsActive
    <2> QED BY <2>1, <2>2 DEF Idle, Unreserved
  <1>2. ASSUME NEW r \in Requests, Reserve(r) PROVE Idle'
    <2>1. r \in In({"checked"}) /\ In(HoldsActive)' = In(HoldsActive)
      BY <1>2 DEF Reserve, In, Typed
    <2>2. UNCHANGED <<pc, seen, violation, draining, permits_closed, late>>
      BY <1>2 DEF Reserve
    <2>3. draining => permits_closed
      BY <1>0, <2>1
    <2> HIDE DEF HoldsReservation, HoldsActive
    <2> QED BY <2>1, <2>2, <2>3 DEF Idle, Unreserved
  <1>3. ASSUME NEW r \in Requests, Settle(r) PROVE Idle'
    <2>1. In(HoldsReservation)' \subseteq In(HoldsReservation) /\ In(HoldsActive)' \subseteq In(HoldsActive)
      BY <1>3 DEF Settle, In, Typed
    <2>2. UNCHANGED <<pc, seen, violation, draining, permits_closed, late>>
      BY <1>3 DEF Settle
    <2> HIDE DEF HoldsReservation, HoldsActive
    <2> QED BY <2>1, <2>2 DEF Idle, Unreserved
  <1>4. ASSUME NEW r \in Requests, Acquire(r) PROVE Idle'
    <2>1. In(HoldsReservation)' \subseteq In(HoldsReservation) /\ In(HoldsActive)' \subseteq In(HoldsActive)
      BY <1>4 DEF Acquire, In, Typed
    <2>2. UNCHANGED <<pc, seen, violation, draining, permits_closed, late>>
      BY <1>4 DEF Acquire
    <2> HIDE DEF HoldsReservation, HoldsActive
    <2> QED BY <2>1, <2>2 DEF Idle, Unreserved
  <1>5. ASSUME NEW r \in Requests, Refuse(r) PROVE Idle'
    <2>1. In(HoldsReservation)' \subseteq In(HoldsReservation) /\ In(HoldsActive)' \subseteq In(HoldsActive)
      BY <1>5 DEF Refuse, In, Typed
    <2>2. UNCHANGED <<pc, seen, violation, draining, permits_closed, late>>
      BY <1>5 DEF Refuse
    <2> HIDE DEF HoldsReservation, HoldsActive
    <2> QED BY <2>1, <2>2 DEF Idle, Unreserved
  <1>6. ASSUME NEW r \in Requests, Cancel(r) PROVE Idle'
    <2>1. In(HoldsReservation)' \subseteq In(HoldsReservation) /\ In(HoldsActive)' \subseteq In(HoldsActive)
      BY <1>6 DEF Cancel, In, Typed
    <2>2. UNCHANGED <<pc, seen, violation, draining, permits_closed, late>>
      BY <1>6 DEF Cancel
    <2> HIDE DEF HoldsReservation, HoldsActive
    <2> QED BY <2>1, <2>2 DEF Idle, Unreserved
  <1>7. ASSUME NEW r \in Requests, Count(r) PROVE Idle'
    <2>1. In(HoldsReservation)' = In(HoldsReservation)
      BY <1>7 DEF Count, In, Typed
    <2>2. In(HoldsActive)' = In(HoldsActive) \cup {r} /\ r \in In(HoldsReservation)
      BY <1>7 DEF Count, In, Typed
    <2>3. late \subseteq late' /\ (permits_closed => r \in late')
      BY <1>7 DEF Count
    <2>4. UNCHANGED <<pc, seen, violation, draining, permits_closed>>
      BY <1>7 DEF Count
    <2> HIDE DEF HoldsReservation, HoldsActive
    <2> QED BY <2>1, <2>2, <2>3, <2>4 DEF Idle, Unreserved
  <1>8. ASSUME NEW r \in Requests, Unreserve(r) PROVE Idle'
    <2>1. In(HoldsReservation)' \subseteq In(HoldsReservation) /\ In(HoldsActive)' \subseteq In(HoldsActive)
      BY <1>8 DEF Unreserve, In, Typed
    <2>2. UNCHANGED <<pc, seen, violation, draining, permits_closed, late>>
      BY <1>8 DEF Unreserve
    <2> HIDE DEF HoldsReservation, HoldsActive
    <2> QED BY <2>1, <2>2 DEF Idle, Unreserved
  <1>9. ASSUME NEW r \in Requests, ReleasePermit(r) PROVE Idle'
    <2>1. In(HoldsReservation)' \subseteq In(HoldsReservation) /\ In(HoldsActive)' \subseteq In(HoldsActive)
      BY <1>9 DEF ReleasePermit, In, Typed
    <2>2. UNCHANGED <<pc, seen, violation, draining, permits_closed, late>>
      BY <1>9 DEF ReleasePermit
    <2> HIDE DEF HoldsReservation, HoldsActive
    <2> QED BY <2>1, <2>2 DEF Idle, Unreserved
  <1>10. ASSUME NEW r \in Requests, Drop(r) PROVE Idle'
    <2>1. In(HoldsReservation)' \subseteq In(HoldsReservation) /\ In(HoldsActive)' \subseteq In(HoldsActive)
      BY <1>10 DEF Drop, In, Typed
    <2>2. UNCHANGED <<pc, seen, violation, draining, permits_closed, late>>
      BY <1>10 DEF Drop
    <2> HIDE DEF HoldsReservation, HoldsActive
    <2> QED BY <2>1, <2>2 DEF Idle, Unreserved
  <1>11. ASSUME NEW r \in Requests, DropCheck(r) PROVE Idle'
    <2>1. In(HoldsReservation)' \subseteq In(HoldsReservation) /\ In(HoldsActive)' \subseteq In(HoldsActive)
      BY <1>11 DEF DropCheck, In, Typed
    <2>2. UNCHANGED <<pc, seen, violation, draining, permits_closed, late>>
      BY <1>11 DEF DropCheck
    <2> HIDE DEF HoldsReservation, HoldsActive
    <2> QED BY <2>1, <2>2 DEF Idle, Unreserved
  <1>12. ASSUME NEW r \in Requests, DropWake(r) PROVE Idle'
    <2>1. In(HoldsReservation)' \subseteq In(HoldsReservation) /\ In(HoldsActive)' \subseteq In(HoldsActive)
      BY <1>12 DEF DropWake, In, Typed
    <2>2. UNCHANGED <<pc, seen, violation, draining, permits_closed, late>>
      BY <1>12 DEF DropWake
    <2> HIDE DEF HoldsReservation, HoldsActive
    <2> QED BY <2>1, <2>2 DEF Idle, Unreserved
  <1>s. rq' = rq => In(HoldsReservation)' = In(HoldsReservation) /\ In(HoldsActive)' = In(HoldsActive)
    BY DEF In
  <1> HIDE DEF HoldsReservation, HoldsActive
  <1> USE <1>s DEF Idle, Unreserved, Typed, PCs, Thens
  <1>13. ASSUME NEW a \in Actors, Drain(a) PROVE Idle'
    BY <1>13 DEF Drain, Actors
  <1>14. ASSUME NEW a \in Actors, DrainWake(a) PROVE Idle'
    BY <1>14 DEF DrainWake, Actors
  <1>15. ASSUME NEW a \in Actors, Drained(a) PROVE Idle'
    BY <1>15 DEF Drained, Actors
  <1>16. ASSUME NEW a \in Actors, ShutWake(a) PROVE Idle'
    BY <1>16 DEF ShutWake, Actors
  <1>17. ASSUME NEW a \in Actors, ShutdownCheck(a) PROVE Idle'
    BY <1>17 DEF ShutdownCheck, Actors
  <1>18. ASSUME NEW a \in Actors, ShutdownClose(a) PROVE Idle'
    BY <1>18 DEF ShutdownClose, Actors
  <1>19. ASSUME NEW a \in Actors, CloseReason(a) PROVE Idle'
    BY <1>19 DEF CloseReason, Actors
  <1>20. ASSUME NEW a \in Actors, CloseStep(a) PROVE Idle'
    BY <1>20 DEF CloseStep, Actors
  <1>21. CASE Register
    BY <1>21 DEF Register, Actors
  <1>22. CASE TaskViolation
    BY <1>22 DEF TaskViolation, Actors
  <1>23. CASE TaskDriver
    BY <1>23 DEF TaskDriver, Actors
  <1>24. CASE TaskSettings
    BY <1>24 DEF TaskSettings, Actors
  <1>25. CASE TaskFails
    BY <1>25 DEF TaskFails, Actors
  <1>26. CASE TaskDraining
    BY <1>26 DEF TaskDraining, Actors
  <1>27. CASE TaskReserved
    BY <1>27, NoHolder DEF TaskReserved, Actors
  <1>28. CASE TaskAdmission
    BY <1>28 DEF TaskAdmission, Actors
  <1>29. CASE TaskActive
    BY <1>29, NoHolder DEF TaskActive, Actors
  <1>30. CASE TaskClose
    BY <1>30 DEF TaskClose, Actors
  <1>31. CASE TaskCloseGraceful
    BY <1>31 DEF TaskCloseGraceful, Actors
  <1>32. CASE TaskGraceful
    BY <1>32 DEF TaskGraceful, Actors
  <1>33. CASE CloneSender
    BY <1>33 DEF CloneSender, Actors
  <1>34. CASE DropSender
    BY <1>34 DEF DropSender, Actors
  <1>35. CASE GracefulShutdown
    BY <1>35 DEF GracefulShutdown, Actors
  <1>36. CASE DropHandle
    BY <1>36 DEF DropHandle, Actors
  <1>37. CASE HandleCompletes
    BY <1>37 DEF HandleCompletes, Actors
  <1>38. CASE Violate
    BY <1>38 DEF Violate, Actors
  <1>39. CASE ViolatePublish
    BY <1>39 DEF ViolatePublish, Actors
  <1>40. CASE ViolateWake
    BY <1>40 DEF ViolateWake, Actors
  <1>41. CASE DropTask
    BY <1>41 DEF DropTask, Actors
  <1>42. CASE PeerSettings
    BY <1>42 DEF PeerSettings, Actors
  <1>43. CASE PeerGoaway
    BY <1>43 DEF PeerGoaway, Actors
  <1>44. CASE PeerCloses
    BY <1>44 DEF PeerCloses, Actors
  <1>45. CASE UNCHANGED vars
    BY <1>45 DEF vars
  <1> QED
    BY <1>1, <1>2, <1>3, <1>4, <1>5, <1>6, <1>7, <1>8, <1>9, <1>10, <1>11, <1>12, <1>13, <1>14,
       <1>15, <1>16, <1>17, <1>18, <1>19, <1>20, <1>21, <1>22, <1>23, <1>24, <1>25, <1>26, <1>27,
       <1>28, <1>29, <1>30, <1>31, <1>32, <1>33, <1>34, <1>35, <1>36, <1>37, <1>38, <1>39, <1>40,
       <1>41, <1>42, <1>43, <1>44, <1>45
    DEF Next, RequestNext, CallNext, TaskNext, Terminated

-----------------------------------------------------------------------------
IInv == Typed /\ Flags /\ Counting /\ Admission /\ Idle

LEMMA Initially == Init => IInv
  <1> SUFFICES ASSUME Init PROVE IInv
    OBVIOUS
  <1>1. \A S : "new" \notin S => In(S) = {}
    BY DEF Init, In
  <1>2. Cardinality({}) = 0
    BY FS_EmptySet
  <1>3. Typed
    BY SharedAssumption, InFacts DEF Init, Typed, RequestStates, Actors, PCs, Thens, TaskSteps
  <1>4. Flags
    BY DEF Init, Flags
  <1>5. Counting
    <2>1. In(HoldsReservation) = {} /\ In(HoldsActive) = {} /\ In(HoldsPermit) = {}
      BY <1>1 DEF HoldsReservation, HoldsActive, HoldsPermit, Waiting
    <2> QED BY <1>2, <2>1, SharedAssumption DEF Init, Counting, CountsExact
  <1>6. Admission
    <2>1. In({"checked"}) = {}
      BY <1>1
    <2> QED BY <1>2, <2>1 DEF Init, Admission, Actors
  <1>7. Idle
    BY DEF Init, Idle, Task, Actors
  <1> QED BY <1>3, <1>4, <1>5, <1>6, <1>7 DEF IInv

(* IInv holds in every reachable state, for every set of requests, every   *)
(* limit and every number of handles of a connection.                      *)
THEOREM Invariance == Spec => []IInv
  <1>1. IInv /\ [Next]_vars => IInv'
    BY TypedStep, FlagsStep, Counts, AdmissionStep, IdleStep DEF IInv
  <1> QED BY Initially, <1>1, PTL DEF Spec

(* The counters of Shared stay in their ranges, and its flags and the      *)
(* states of the tasks in their types.                                     *)
THEOREM TypeCorrect == Spec => []TypeOK
  <1>1. IInv => TypeOK
    <2> SUFFICES ASSUME IInv PROVE TypeOK
      OBVIOUS
    <2>1. reserved \in 0 .. Cardinality(Requests) /\ active \in 0 .. Cardinality(Requests)
      BY InFacts DEF IInv, Counting, CountsExact
    <2>2. permits \in 0 .. Limit
      BY InFacts, SharedAssumption DEF IInv, Counting, CountsExact
    <2> QED BY <2>1, <2>2 DEF IInv, Typed, Flags, TypeOK, PCs, Thens
  <1> QED BY <1>1, Invariance, PTL

(* reserved, active and the permits of the semaphore always count their    *)
(* holders (Reserved, Active and their drops in shared.rs).                *)
THEOREM CountsCorrect == Spec => []CountsExact
  <1>1. IInv => CountsExact
    BY DEF IInv, Counting
  <1> QED BY <1>1, Invariance, PTL

(* A drain that closes the connection (Shared::is_idle, ConnTask::close)   *)
(* leaves behind no exchange but those a shutdown overtook, and no request *)
(* that could still be admitted.                                           *)
THEOREM GracefulCorrect == Spec => []GracefulCloseCutsNothing
  <1>1. IInv => GracefulCloseCutsNothing
    BY DEF IInv, Idle, Unreserved, GracefulCloseCutsNothing, Task
  <1> QED BY <1>1, Invariance, PTL
=============================================================================
