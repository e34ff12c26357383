-------------------------- MODULE SchedulerProofs --------------------------
(***************************************************************************)
(* Scheduler, for every set of requests and every configuration: types,    *)
(* conservation of both semaphores, no idle lane, the queue is the set of  *)
(* waiting requests, no connected client is cut off, and the scheduler     *)
(* implements Admission.  All of it rests on one inductive invariant.      *)
(***************************************************************************)
EXTENDS Scheduler, SequenceTheorems, FiniteSetTheorems, TLAPS

-----------------------------------------------------------------------------
(* Facts about sequences and cardinalities.                                *)

(* RemoveAt deletes one position and shifts the rest (a cancelled waiter   *)
(* leaves the lane queue).                                                 *)
LEMMA RemoveAtProperties ==
  ASSUME NEW S, NEW q \in Seq(S), NEW i \in 1 .. Len(q)
  PROVE  /\ RemoveAt(q, i) \in Seq(S)
         /\ Len(RemoveAt(q, i)) = Len(q) - 1
         /\ \A j \in 1 .. Len(q) - 1 :
              RemoveAt(q, i)[j] = IF j < i THEN q[j] ELSE q[j + 1]
<1> DEFINE a == SubSeq(q, 1, i - 1)
           b == SubSeq(q, i + 1, Len(q))
<1>1. /\ a \in Seq(S) /\ Len(a) = i - 1
      /\ \A j \in 1 .. i - 1 : a[j] = q[j]
  BY SubSeqProperties, Z3
<1>2. /\ b \in Seq(S) /\ Len(b) = Len(q) - i
      /\ \A j \in 1 .. Len(q) - i : b[j] = q[i + j]
  BY SubSeqProperties, Z3
<1> HIDE DEF a, b
<1>3. /\ a \o b \in Seq(S)
      /\ Len(a \o b) = Len(a) + Len(b)
      /\ \A j \in 1 .. Len(a) + Len(b) :
           (a \o b)[j] = IF j <= Len(a) THEN a[j] ELSE b[j - Len(a)]
  BY <1>1, <1>2, ConcatProperties
<1>4. RemoveAt(q, i) = a \o b
  BY DEF RemoveAt, a, b
<1> SUFFICES
      /\ Len(a \o b) = Len(q) - 1
      /\ \A j \in 1 .. Len(q) - 1 :
           (a \o b)[j] = IF j < i THEN q[j] ELSE q[j + 1]
  BY <1>3, <1>4
<1>5. i \in Nat /\ Len(q) \in Nat
  BY LenProperties
<1>6. Len(a \o b) = Len(q) - 1
  BY <1>1, <1>2, <1>3, <1>5
<1>7. ASSUME NEW j \in 1 .. Len(q) - 1
      PROVE  (a \o b)[j] = IF j < i THEN q[j] ELSE q[j + 1]
  <2>1. CASE j < i
    BY <1>1, <1>2, <1>3, <1>5, <2>1
  <2>2. CASE ~(j < i)
    <3>1. j - Len(a) \in 1 .. Len(q) - i /\ i + (j - Len(a)) = j + 1
      BY <1>1, <1>5, <2>2
    <3>2. b[j - Len(a)] = q[j + 1]
      BY <1>2, <3>1
    <3>3. (a \o b)[j] = b[j - Len(a)]
      BY <1>1, <1>2, <1>3, <1>5, <2>2
    <3> QED
      BY <2>2, <3>2, <3>3
  <2> QED
    BY <2>1, <2>2
<1> QED
  BY <1>6, <1>7

(* The requests in a set of phases form a finite set.                      *)
LEMMA InIsFinite ==
  ASSUME NEW P
  PROVE  IsFiniteSet(In(P)) /\ Cardinality(In(P)) \in Nat
BY SchedulerAssumption, FS_Subset, FS_CardinalityType DEF In

(* A request that joins a set makes it larger by one.                      *)
LEMMA OneMore ==
  ASSUME NEW A, NEW B, NEW r, IsFiniteSet(A), r \notin A, B = A \cup {r}
  PROVE  Cardinality(B) = Cardinality(A) + 1
BY FS_AddElement

(* A request that leaves a set makes it smaller by one.                    *)
LEMMA OneLess ==
  ASSUME NEW A, NEW B, NEW r, IsFiniteSet(A), r \in A, B = A \ {r}
  PROVE  Cardinality(B) = Cardinality(A) - 1
BY FS_RemoveElement

-----------------------------------------------------------------------------
(* Configuration.                                                          *)

(* router() never starts with an empty semaphore.                          *)
LEMMA PositiveBounds == Lanes \in Nat \ {0} /\ Slots \in Nat \ {0} /\ Lanes <= Slots
BY SchedulerAssumption DEF Lanes, Slots, AtLeast

-----------------------------------------------------------------------------
(* The inductive invariant.  Conservation and the absence of idle lanes    *)
(* need the queue to be exactly the waiting requests, so that the request  *)
(* a lane is handed to is one that waits and is counted once.              *)

QueueInv ==
  /\ \A i \in 1 .. Len(lane_queue) : phase[lane_queue[i]] = "waiting"
  /\ \A i, j \in 1 .. Len(lane_queue) : lane_queue[i] = lane_queue[j] => i = j
  /\ \A r \in Requests :
       phase[r] = "waiting" => \E i \in 1 .. Len(lane_queue) : lane_queue[i] = r

LastOf(s) == s[Len(s)]

(* Whatever ends a stream sits at the end of its channel until the         *)
(* connected client takes it.  A worker that failed has not emitted        *)
(* Finished, so that the error its task reports is the last event.         *)
StreamOK(r) ==
  /\ phase[r] = "returned" => outcome[r] # "none" \/ client[r] = "gone"
  /\ phase[r] \notin {"returned", "over"} => outcome[r] = "none"
  /\ r \in Streams /\ phase[r] = "returned" /\ outcome[r] = "ok" => progress[r] = Done
  /\ r \in Streams /\ outcome[r] = "error" => progress[r] # Done
  /\ r \in Streams /\ client[r] = "connected" /\ progress[r] = Done =>
       Len(channel[r]) > 0 /\ LastOf(channel[r]) = "Finished"
  /\ r \in Streams /\ client[r] = "connected" /\ phase[r] = "over" =>
       Len(channel[r]) > 0 /\ LastOf(channel[r]) \in {"Finished", "Err"}
  /\ client[r] # "cut off"

StreamInv == \A r \in Requests : StreamOK(r)

IInv == TypeOK /\ PermitsConserved /\ NoIdleLane /\ QueueInv /\ StreamInv

(* A server that has just started satisfies the inductive invariant.       *)
LEMMA InitIInv == Init => IInv
<1> SUFFICES ASSUME Init PROVE IInv
  OBVIOUS
<1>1. TypeOK
  BY PositiveBounds, SchedulerAssumption
  DEF Init, TypeOK, Phases, Clients, Progress, Done, HoldsSlot, HoldsLane
<1>2. PermitsConserved
  <2>1. In(HoldsSlot) = {} /\ In(HoldsLane) = {}
    BY DEF Init, In, HoldsSlot, HoldsLane
  <2> QED
    BY <2>1, FS_EmptySet, PositiveBounds DEF Init, PermitsConserved
<1>3. NoIdleLane /\ QueueInv
  BY DEF Init, NoIdleLane, QueueInv
<1>4. StreamInv
  BY SchedulerAssumption DEF Init, StreamInv, StreamOK, Done
<1> QED
  BY <1>1, <1>2, <1>3, <1>4 DEF IInv

-----------------------------------------------------------------------------
(* Steps.                                                                  *)

Actions(r) ==
  \/ Admit(r) \/ Refuse(r) \/ SeekLane(r) \/ StartWorker(r)
  \/ Emit(r) \/ WorkerReturns(r) \/ Retire(r) \/ ReportFailure(r)
  \/ AnswerUnary(r) \/ Receive(r) \/ Disconnect(r) \/ CancelWait(r)

(* Handing a lane on: either it becomes free, or the head of the queue,    *)
(* a waiting request other than r, takes it.                               *)
LEMMA LaneHandedOn ==
  ASSUME TypeOK, QueueInv, NEW r \in Requests, phase[r] \in HoldsLane,
         ReturnLane(r, "returned")
  PROVE  \/ /\ lane_queue = <<>> /\ lane_queue' = <<>>
            /\ free_lanes' = free_lanes + 1
            /\ phase' = [phase EXCEPT ![r] = "returned"]
         \/ /\ Len(lane_queue) > 0
            /\ lane_queue' \in Seq(Requests)
            /\ Len(lane_queue') = Len(lane_queue) - 1
            /\ \A i \in 1 .. Len(lane_queue) - 1 : lane_queue'[i] = lane_queue[i + 1]
            /\ free_lanes' = free_lanes
            /\ lane_queue[1] \in Requests
            /\ lane_queue[1] # r
            /\ phase[lane_queue[1]] = "waiting"
            /\ phase' = [phase EXCEPT ![r] = "returned", ![lane_queue[1]] = "granted"]
<1>1. CASE lane_queue = <<>>
  BY <1>1 DEF ReturnLane
<1>2. CASE lane_queue # <<>>
  <2>1. lane_queue \in Seq(Requests) /\ Len(lane_queue) > 0
    BY <1>2, EmptySeq DEF TypeOK
  <2>2. /\ Head(lane_queue) = lane_queue[1]
        /\ Tail(lane_queue) \in Seq(Requests)
        /\ Len(Tail(lane_queue)) = Len(lane_queue) - 1
        /\ \A i \in 1 .. Len(lane_queue) - 1 : Tail(lane_queue)[i] = lane_queue[i + 1]
    BY <1>2, <2>1, HeadTailProperties
  <2>3. lane_queue[1] \in Requests /\ phase[lane_queue[1]] = "waiting"
    BY <2>1, ElementOfSeq DEF QueueInv
  <2> QED
    BY <1>2, <2>1, <2>2, <2>3 DEF ReturnLane, HoldsLane
<1> QED
  BY <1>1, <1>2

(* No action takes a variable out of its type; a semaphore is only         *)
(* decremented when it has a permit.                                       *)
LEMMA StepTypeOK ==
  ASSUME TypeOK, QueueInv, NEW r \in Requests, Actions(r)
  PROVE  TypeOK'
<1>1. /\ {"admitted", "refused", "granted", "waiting", "running",
          "returned", "over"} \subseteq Phases
      /\ {"busy", "complete", "failed", "cut off", "connected", "gone"} \subseteq Clients
      /\ "running" \in HoldsLane /\ "granted" \in HoldsLane
  BY DEF Phases, HoldsSlot, HoldsLane, Clients
<1>2. CASE Admit(r)
  <2>1. free_slots - 1 \in Nat
    BY <1>2 DEF Admit, TypeOK
  <2> QED
    BY <1>1, <1>2, <2>1 DEF Admit, TypeOK
<1>3. CASE Refuse(r)
  BY <1>1, <1>3 DEF Refuse, TypeOK
<1>4. CASE SeekLane(r)
  <2>1. free_lanes' \in Nat /\ lane_queue' \in Seq(Requests)
    <3>1. Append(lane_queue, r) \in Seq(Requests)
      BY AppendProperties DEF TypeOK
    <3>2. free_lanes \in Nat /\ lane_queue \in Seq(Requests)
      BY DEF TypeOK
    <3>3. free_lanes > 0 => free_lanes - 1 \in Nat
      BY <3>2
    <3> QED
      BY <1>4, <3>1, <3>2, <3>3 DEF SeekLane
  <2>2. phase' \in [Requests -> Phases]
    BY <1>1, <1>4 DEF SeekLane, TypeOK
  <2> QED
    BY <1>4, <2>1, <2>2 DEF SeekLane, TypeOK
<1>5. CASE StartWorker(r)
  BY <1>1, <1>5 DEF StartWorker, TypeOK
<1>6. CASE Emit(r)
  <2>1. PICK e \in Emission(r) :
          /\ channel' = [channel EXCEPT ![r] = Append(@, e[1])]
          /\ progress' = [progress EXCEPT ![r] = e[2]]
    BY <1>6 DEF Emit
  <2>2. e[1] \in Events /\ e[2] \in Progress
    BY SchedulerAssumption DEF Emission, Events, Progress, Done
  <2>3. Append(channel[r], e[1]) \in Seq(Events)
    BY <2>2, AppendProperties DEF TypeOK
  <2>4. channel' \in [Requests -> Seq(Events)] /\ progress' \in [Requests -> Progress]
    BY <2>1, <2>2, <2>3 DEF TypeOK
  <2> QED
    BY <1>6, <2>4 DEF Emit, TypeOK
<1>7. ASSUME phase[r] \in HoldsLane, ReturnLane(r, "returned")
      PROVE  /\ lane_queue' \in Seq(Requests) /\ free_lanes' \in Nat
             /\ phase' \in [Requests -> Phases]
  <2>1. lane_queue' \in Seq(Requests) /\ free_lanes' \in Nat
    BY <1>7, LaneHandedOn, EmptySeq DEF TypeOK
  <2>2. phase \in [Requests -> Phases]
    BY DEF TypeOK
  <2>3. phase' \in [Requests -> Phases]
    BY <1>1, <1>7, <2>2, LaneHandedOn
  <2> QED
    BY <2>1, <2>3
<1>8. CASE WorkerReturns(r)
  <2>1. phase[r] \in HoldsLane /\ ReturnLane(r, "returned")
    BY <1>1, <1>8 DEF WorkerReturns
  <2>2. outcome' \in [Requests -> {"none", "ok", "error"}]
    BY <1>8 DEF WorkerReturns, Returns, TypeOK
  <2> QED
    BY <1>7, <1>8, <2>1, <2>2 DEF WorkerReturns, TypeOK
<1>9. CASE Retire(r)
  <2>1. free_slots + 1 \in Nat
    BY DEF TypeOK
  <2> QED
    BY <1>1, <1>9, <2>1 DEF Retire, ReturnSlot, TypeOK
<1>10. CASE ReportFailure(r)
  <2>1. Append(channel[r], "Err") \in Seq(Events)
    BY AppendProperties DEF TypeOK, Events
  <2>2. free_slots + 1 \in Nat
    BY DEF TypeOK
  <2> QED
    BY <1>1, <1>10, <2>1, <2>2 DEF ReportFailure, ReturnSlot, TypeOK
<1>11. CASE AnswerUnary(r)
  BY <1>1, <1>11 DEF AnswerUnary, TypeOK
<1>12. CASE Receive(r)
  <2>1. channel[r] # <<>> => Tail(channel[r]) \in Seq(Events)
    BY HeadTailProperties DEF TypeOK
  <2>2. channel' \in [Requests -> Seq(Events)]
    BY <1>12, <2>1 DEF Receive, TypeOK
  <2>3. client' \in [Requests -> Clients]
    <3> DEFINE c == CASE NextItem(r) = "Finished" -> "complete"
                      [] NextItem(r) = "Err"      -> "failed"
                      [] NextItem(r) = "None"     -> "cut off"
                      [] OTHER                    -> "connected"
    <3>1. client' = [client EXCEPT ![r] = c]
      BY <1>12 DEF Receive
    <3>2. c \in {"complete", "failed", "cut off", "connected"}
      OBVIOUS
    <3> HIDE DEF c
    <3> QED
      BY <1>1, <3>1, <3>2 DEF TypeOK
  <2> QED
    BY <1>12, <2>2, <2>3 DEF Receive, TypeOK
<1>13. CASE Disconnect(r)
  BY <1>1, <1>13, EmptySeq DEF Disconnect, TypeOK
<1>14. CASE CancelWait(r)
  <2>1. client' \in [Requests -> Clients]
    BY <1>1, <1>14 DEF CancelWait, TypeOK
  <2>2. CASE phase[r] = "granted" /\ ReturnLane(r, "returned")
    BY <1>1, <1>7, <1>14, <2>1, <2>2 DEF CancelWait, TypeOK
  <2>3. CASE phase[r] = "waiting"
    <3>1. PICK i \in 1 .. Len(lane_queue) : lane_queue' = RemoveAt(lane_queue, i)
      BY <1>14, <2>3, LenProperties DEF CancelWait, TypeOK
    <3>2. lane_queue' \in Seq(Requests)
      BY <3>1, RemoveAtProperties DEF TypeOK
    <3> QED
      BY <1>1, <1>14, <2>1, <2>3, <3>2 DEF CancelWait, TypeOK
  <2> QED
    BY <1>14, <2>2, <2>3 DEF CancelWait
<1> QED
  BY <1>2, <1>3, <1>4, <1>5, <1>6, <1>8, <1>9, <1>10, <1>11, <1>12, <1>13, <1>14
  DEF Actions

-----------------------------------------------------------------------------
(* Conservation.                                                           *)

(* How one request's change of phase changes the number of slots held.     *)
LEMMA SlotCount ==
  ASSUME phase \in [Requests -> Phases], NEW r \in Requests, NEW p,
         phase' = [phase EXCEPT ![r] = p]
  PROVE  /\ p \in HoldsSlot /\ phase[r] \notin HoldsSlot =>
              Cardinality(In(HoldsSlot)') = Cardinality(In(HoldsSlot)) + 1
         /\ p \notin HoldsSlot /\ phase[r] \in HoldsSlot =>
              Cardinality(In(HoldsSlot)') = Cardinality(In(HoldsSlot)) - 1
         /\ (p \in HoldsSlot <=> phase[r] \in HoldsSlot) =>
              Cardinality(In(HoldsSlot)') = Cardinality(In(HoldsSlot))
<1>1. IsFiniteSet(In(HoldsSlot))
  BY InIsFinite
<1>2. CASE p \in HoldsSlot /\ phase[r] \notin HoldsSlot
  <2>1. In(HoldsSlot)' = In(HoldsSlot) \cup {r} /\ r \notin In(HoldsSlot)
    BY <1>2 DEF In, HoldsSlot, HoldsLane
  <2> QED
    BY <1>1, <1>2, <2>1, OneMore
<1>3. CASE p \notin HoldsSlot /\ phase[r] \in HoldsSlot
  <2>1. In(HoldsSlot)' = In(HoldsSlot) \ {r} /\ r \in In(HoldsSlot)
    BY <1>3 DEF In, HoldsSlot, HoldsLane
  <2> QED
    BY <1>1, <1>3, <2>1, OneLess
<1>4. CASE p \in HoldsSlot <=> phase[r] \in HoldsSlot
  <2>1. In(HoldsSlot)' = In(HoldsSlot)
    BY <1>4 DEF In, HoldsSlot, HoldsLane
  <2> QED
    BY <1>4, <2>1
<1> QED
  BY <1>2, <1>3, <1>4

(* How one request's change of phase changes the number of lanes held.     *)
LEMMA LaneCount ==
  ASSUME phase \in [Requests -> Phases], NEW r \in Requests, NEW p,
         phase' = [phase EXCEPT ![r] = p]
  PROVE  /\ p \in HoldsLane /\ phase[r] \notin HoldsLane =>
              Cardinality(In(HoldsLane)') = Cardinality(In(HoldsLane)) + 1
         /\ p \notin HoldsLane /\ phase[r] \in HoldsLane =>
              Cardinality(In(HoldsLane)') = Cardinality(In(HoldsLane)) - 1
         /\ (p \in HoldsLane <=> phase[r] \in HoldsLane) =>
              Cardinality(In(HoldsLane)') = Cardinality(In(HoldsLane))
<1>1. IsFiniteSet(In(HoldsLane))
  BY InIsFinite
<1>2. CASE p \in HoldsLane /\ phase[r] \notin HoldsLane
  <2>1. In(HoldsLane)' = In(HoldsLane) \cup {r} /\ r \notin In(HoldsLane)
    BY <1>2 DEF In, HoldsLane
  <2> QED
    BY <1>1, <1>2, <2>1, OneMore
<1>3. CASE p \notin HoldsLane /\ phase[r] \in HoldsLane
  <2>1. In(HoldsLane)' = In(HoldsLane) \ {r} /\ r \in In(HoldsLane)
    BY <1>3 DEF In, HoldsLane
  <2> QED
    BY <1>1, <1>3, <2>1, OneLess
<1>4. CASE p \in HoldsLane <=> phase[r] \in HoldsLane
  <2>1. In(HoldsLane)' = In(HoldsLane)
    BY <1>4 DEF In, HoldsLane
  <2> QED
    BY <1>4, <2>1
<1> QED
  BY <1>2, <1>3, <1>4

(* A returned lane leaves its holder's slot alone and is either free again *)
(* or held by exactly one other request.                                   *)
LEMMA LaneReturnConserves ==
  ASSUME TypeOK, QueueInv, PermitsConserved, NEW r \in Requests,
         phase[r] \in HoldsLane, ReturnLane(r, "returned")
  PROVE  /\ Cardinality(In(HoldsSlot)') = Cardinality(In(HoldsSlot))
         /\ free_lanes' + Cardinality(In(HoldsLane)') = Lanes
<1>0. /\ "returned" \notin HoldsLane /\ "returned" \in HoldsSlot
      /\ phase[r] \in HoldsSlot
  BY DEF HoldsSlot, HoldsLane
<1>1. phase \in [Requests -> Phases] /\ free_lanes \in Nat
  BY DEF TypeOK
<1>2. IsFiniteSet(In(HoldsLane)) /\ Cardinality(In(HoldsLane)) \in Nat
  BY InIsFinite
<1>3. CASE /\ free_lanes' = free_lanes + 1
           /\ phase' = [phase EXCEPT ![r] = "returned"]
  <2>1. Cardinality(In(HoldsLane)') = Cardinality(In(HoldsLane)) - 1
    BY <1>0, <1>1, <1>3, LaneCount
  <2>2. Cardinality(In(HoldsSlot)') = Cardinality(In(HoldsSlot))
    BY <1>0, <1>1, <1>3, SlotCount
  <2> QED
    BY <1>1, <1>2, <1>3, <2>1, <2>2, PositiveBounds DEF PermitsConserved
<1>4. CASE /\ free_lanes' = free_lanes
           /\ lane_queue[1] \in Requests
           /\ lane_queue[1] # r
           /\ phase[lane_queue[1]] = "waiting"
           /\ phase' = [phase EXCEPT ![r] = "returned", ![lane_queue[1]] = "granted"]
  <2> DEFINE h == lane_queue[1]
  <2>1. In(HoldsSlot)' = In(HoldsSlot)
    BY <1>1, <1>4 DEF In, HoldsSlot, HoldsLane
  <2>2. /\ In(HoldsLane)' = (In(HoldsLane) \ {r}) \cup {h}
        /\ r \in In(HoldsLane)
        /\ h \notin In(HoldsLane) \ {r}
    BY <1>1, <1>4 DEF In, HoldsSlot, HoldsLane
  <2>3. IsFiniteSet(In(HoldsLane) \ {r})
    BY <1>2, FS_RemoveElement
  <2>4. Cardinality(In(HoldsLane) \ {r}) = Cardinality(In(HoldsLane)) - 1
    BY <1>2, <2>2, OneLess
  <2>5. Cardinality(In(HoldsLane)') = Cardinality(In(HoldsLane) \ {r}) + 1
    BY <2>2, <2>3, OneMore
  <2>6. free_lanes + Cardinality(In(HoldsLane)') = Lanes
    BY <1>1, <1>2, <2>4, <2>5, PositiveBounds DEF PermitsConserved
  <2> QED
    BY <1>4, <2>1, <2>6
<1> QED
  BY <1>3, <1>4, LaneHandedOn

(* Every action moves permits between the semaphores and the requests that *)
(* hold them, and loses none.                                              *)
LEMMA StepPermits ==
  ASSUME TypeOK, QueueInv, PermitsConserved, NEW r \in Requests, Actions(r)
  PROVE  PermitsConserved'
<1> DEFINE hs == Cardinality(In(HoldsSlot))
           hl == Cardinality(In(HoldsLane))
<1>1. /\ phase \in [Requests -> Phases]
      /\ free_slots \in Nat /\ free_lanes \in Nat
      /\ hs \in Nat /\ hl \in Nat
      /\ free_slots + hs = Slots /\ free_lanes + hl = Lanes
  BY InIsFinite DEF TypeOK, PermitsConserved
<1>2. /\ "admitted" \in HoldsSlot /\ "waiting" \in HoldsSlot
      /\ "granted" \in HoldsSlot /\ "running" \in HoldsSlot /\ "returned" \in HoldsSlot
      /\ "idle" \notin HoldsSlot /\ "refused" \notin HoldsSlot /\ "over" \notin HoldsSlot
      /\ "granted" \in HoldsLane /\ "running" \in HoldsLane
      /\ "admitted" \notin HoldsLane /\ "waiting" \notin HoldsLane
      /\ "idle" \notin HoldsLane /\ "refused" \notin HoldsLane
      /\ "returned" \notin HoldsLane /\ "over" \notin HoldsLane
  BY DEF HoldsSlot, HoldsLane
<1> SUFFICES free_slots' + hs' = Slots /\ free_lanes' + hl' = Lanes
  BY DEF PermitsConserved
<1>3. CASE Admit(r)
  <2>1. hs' = hs + 1 /\ hl' = hl
    BY <1>1, <1>2, <1>3, SlotCount, LaneCount DEF Admit
  <2> QED
    BY <1>1, <1>3, <2>1 DEF Admit
<1>4. CASE Refuse(r)
  <2>1. hs' = hs /\ hl' = hl
    BY <1>1, <1>2, <1>4, SlotCount, LaneCount DEF Refuse
  <2> QED
    BY <1>1, <1>4, <2>1 DEF Refuse
<1>5. CASE SeekLane(r)
  <2>1. CASE free_lanes' = free_lanes - 1 /\ phase' = [phase EXCEPT ![r] = "running"]
    <3>1. hs' = hs /\ hl' = hl + 1
      BY <1>1, <1>2, <1>5, <2>1, SlotCount, LaneCount DEF SeekLane
    <3> QED
      BY <1>1, <1>5, <2>1, <3>1 DEF SeekLane
  <2>2. CASE free_lanes' = free_lanes /\ phase' = [phase EXCEPT ![r] = "waiting"]
    <3>1. hs' = hs /\ hl' = hl
      BY <1>1, <1>2, <1>5, <2>2, SlotCount, LaneCount DEF SeekLane
    <3> QED
      BY <1>1, <1>5, <2>2, <3>1 DEF SeekLane
  <2> QED
    BY <1>5, <2>1, <2>2 DEF SeekLane
<1>6. CASE StartWorker(r)
  <2>1. hs' = hs /\ hl' = hl
    BY <1>1, <1>2, <1>6, SlotCount, LaneCount DEF StartWorker
  <2> QED
    BY <1>1, <1>6, <2>1 DEF StartWorker
<1>7. ASSUME UNCHANGED <<free_slots, free_lanes, phase>>
      PROVE  free_slots' + hs' = Slots /\ free_lanes' + hl' = Lanes
  BY <1>1, <1>7 DEF In
<1>8. CASE Emit(r)
  BY <1>7, <1>8 DEF Emit
<1>9. ASSUME phase[r] \in HoldsLane, ReturnLane(r, "returned"), free_slots' = free_slots
      PROVE  free_slots' + hs' = Slots /\ free_lanes' + hl' = Lanes
  BY <1>1, <1>9, LaneReturnConserves
<1>10. CASE WorkerReturns(r)
  BY <1>2, <1>9, <1>10 DEF WorkerReturns
<1>11. ASSUME phase[r] = "returned", ReturnSlot(r), free_lanes' = free_lanes
       PROVE  free_slots' + hs' = Slots /\ free_lanes' + hl' = Lanes
  <2>1. hs' = hs - 1 /\ hl' = hl
    BY <1>1, <1>2, <1>11, SlotCount, LaneCount DEF ReturnSlot
  <2> QED
    BY <1>1, <1>11, <2>1 DEF ReturnSlot
<1>12. CASE Retire(r)
  BY <1>11, <1>12 DEF Retire
<1>13. CASE ReportFailure(r)
  BY <1>11, <1>13 DEF ReportFailure
<1>14. CASE AnswerUnary(r)
  BY <1>7, <1>14 DEF AnswerUnary
<1>15. CASE Receive(r)
  BY <1>7, <1>15 DEF Receive
<1>16. CASE Disconnect(r)
  BY <1>7, <1>16 DEF Disconnect
<1>17. CASE CancelWait(r)
  <2>1. CASE phase[r] = "granted" /\ ReturnLane(r, "returned")
    BY <1>2, <1>9, <1>17, <2>1 DEF CancelWait
  <2>2. CASE /\ phase[r] = "waiting"
             /\ phase' = [phase EXCEPT ![r] = "returned"]
             /\ free_lanes' = free_lanes
    <3>1. hs' = hs /\ hl' = hl
      BY <1>1, <1>2, <2>2, SlotCount, LaneCount
    <3> QED
      BY <1>1, <1>17, <2>2, <3>1 DEF CancelWait
  <2> QED
    BY <1>17, <2>1, <2>2 DEF CancelWait
<1> QED
  BY <1>3, <1>4, <1>5, <1>6, <1>8, <1>10, <1>12, <1>13, <1>14, <1>15, <1>16, <1>17
  DEF Actions

-----------------------------------------------------------------------------
(* The queue of waiting tasks.                                             *)

(* A permit becomes free only when nobody waits, and a request starts to   *)
(* wait only when none is free.                                            *)
LEMMA StepNoIdleLane ==
  ASSUME TypeOK, NoIdleLane, QueueInv, NEW r \in Requests, Actions(r)
  PROVE  NoIdleLane'
<1> USE DEF NoIdleLane
<1>1. ASSUME phase[r] \in HoldsLane, ReturnLane(r, "returned") PROVE NoIdleLane'
  BY <1>1 DEF ReturnLane
<1>2. CASE SeekLane(r)
  <2>1. free_lanes \in Nat
    BY DEF TypeOK
  <2> QED
    BY <1>2, <2>1 DEF SeekLane
<1>3. CASE WorkerReturns(r)
  BY <1>1, <1>3 DEF WorkerReturns, HoldsLane
<1>4. CASE CancelWait(r)
  <2>1. CASE phase[r] = "granted" /\ ReturnLane(r, "returned")
    BY <1>1, <2>1 DEF HoldsLane
  <2>2. CASE phase[r] = "waiting"
    <3>1. lane_queue # <<>> /\ free_lanes' = free_lanes
      BY <1>4, <2>2 DEF CancelWait, QueueInv
    <3> QED
      BY <3>1
  <2> QED
    BY <1>4, <2>1, <2>2 DEF CancelWait
<1> QED
  BY <1>2, <1>3, <1>4 DEF Actions, Admit, Refuse, StartWorker, Emit, Retire,
     ReportFailure, AnswerUnary, Receive, Disconnect

(* A request that neither waits before nor after its step leaves the       *)
(* queue as it is.                                                         *)
LEMMA QueueKept ==
  ASSUME TypeOK, QueueInv, NEW r \in Requests, NEW p,
         phase[r] # "waiting", p # "waiting", lane_queue' = lane_queue,
         phase' = [phase EXCEPT ![r] = p]
  PROVE  QueueInv'
<1>1. \A i \in 1 .. Len(lane_queue) : lane_queue[i] \in Requests
  BY ElementOfSeq DEF TypeOK
<1>2. phase \in [Requests -> Phases]
  BY DEF TypeOK
<1> QED
  BY <1>1, <1>2 DEF QueueInv

(* A lane handed on takes the head of the queue out of it.                 *)
LEMMA QueueAdvances ==
  ASSUME TypeOK, QueueInv, NEW r \in Requests,
         phase[r] \in HoldsLane, ReturnLane(r, "returned")
  PROVE  QueueInv'
<1>1. phase \in [Requests -> Phases] /\ phase[r] # "waiting"
  BY DEF TypeOK, HoldsLane
<1>2. CASE lane_queue' = lane_queue /\ phase' = [phase EXCEPT ![r] = "returned"]
  BY <1>1, <1>2, QueueKept
<1>3. CASE /\ Len(lane_queue) > 0
           /\ Len(lane_queue') = Len(lane_queue) - 1
           /\ \A i \in 1 .. Len(lane_queue) - 1 : lane_queue'[i] = lane_queue[i + 1]
           /\ lane_queue[1] \in Requests
           /\ phase' = [phase EXCEPT ![r] = "returned", ![lane_queue[1]] = "granted"]
  <2>1. /\ Len(lane_queue) \in Nat
        /\ \A i \in 1 .. Len(lane_queue) : lane_queue[i] \in Requests
    BY ElementOfSeq, LenProperties DEF TypeOK
  <2>2. ASSUME NEW i \in 1 .. Len(lane_queue')
        PROVE  /\ i + 1 \in 1 .. Len(lane_queue)
               /\ lane_queue'[i] = lane_queue[i + 1]
               /\ i + 1 # 1
    BY <1>3, <2>1, <2>2
  <2>3. ASSUME NEW i \in 1 .. Len(lane_queue')
        PROVE  phase'[lane_queue'[i]] = "waiting"
    <3>1. phase[lane_queue[i + 1]] = "waiting" /\ lane_queue[i + 1] \in Requests
      BY <2>1, <2>2 DEF QueueInv
    <3>2. 1 \in 1 .. Len(lane_queue)
      BY <1>3, <2>1
    <3>3. lane_queue[i + 1] # lane_queue[1]
      BY <2>2, <3>2 DEF QueueInv
    <3> QED
      BY <1>1, <1>3, <2>2, <3>1, <3>3
  <2>4. ASSUME NEW i \in 1 .. Len(lane_queue'), NEW j \in 1 .. Len(lane_queue'),
               lane_queue'[i] = lane_queue'[j]
        PROVE  i = j
    <3>1. lane_queue[i + 1] = lane_queue[j + 1]
      BY <2>2, <2>4
    <3>2. i + 1 = j + 1
      BY <2>2, <3>1 DEF QueueInv
    <3> QED
      BY <3>2
  <2>5. ASSUME NEW q \in Requests, phase'[q] = "waiting"
        PROVE  \E i \in 1 .. Len(lane_queue') : lane_queue'[i] = q
    <3>1. phase[q] = "waiting" /\ q # lane_queue[1]
      BY <1>1, <1>3, <2>5
    <3>2. PICK k \in 1 .. Len(lane_queue) : lane_queue[k] = q
      BY <3>1 DEF QueueInv
    <3>3. k # 1
      BY <3>1, <3>2
    <3>4. /\ k - 1 \in 1 .. Len(lane_queue) - 1
          /\ (k - 1) + 1 = k
      BY <2>1, <3>3
    <3>5. lane_queue'[k - 1] = q
      BY <1>3, <3>2, <3>4
    <3> QED
      BY <1>3, <3>4, <3>5
  <2> QED
    BY <2>3, <2>4, <2>5 DEF QueueInv
<1> QED
  BY <1>2, <1>3, LaneHandedOn

(* A task that starts to wait goes to the back of the queue.               *)
LEMMA QueueGrows ==
  ASSUME TypeOK, QueueInv, NEW r \in Requests, phase[r] # "waiting",
         lane_queue' = Append(lane_queue, r),
         phase' = [phase EXCEPT ![r] = "waiting"]
  PROVE  QueueInv'
<1>1. phase \in [Requests -> Phases]
  BY DEF TypeOK
<1>2. /\ Len(lane_queue) \in Nat
      /\ \A i \in 1 .. Len(lane_queue) : lane_queue[i] \in Requests
      /\ Len(lane_queue') = Len(lane_queue) + 1
      /\ \A i \in 1 .. Len(lane_queue) : lane_queue'[i] = lane_queue[i]
      /\ lane_queue'[Len(lane_queue) + 1] = r
  BY AppendProperties, ElementOfSeq, LenProperties DEF TypeOK
<1>3. \A i \in 1 .. Len(lane_queue) : lane_queue[i] # r
  BY DEF QueueInv
<1>4. \A i \in 1 .. Len(lane_queue') :
        i \in 1 .. Len(lane_queue) \/ i = Len(lane_queue) + 1
  BY <1>2
<1>5. ASSUME NEW i \in 1 .. Len(lane_queue') PROVE phase'[lane_queue'[i]] = "waiting"
  BY <1>1, <1>2, <1>4 DEF QueueInv
<1>6. ASSUME NEW i \in 1 .. Len(lane_queue'), NEW j \in 1 .. Len(lane_queue'),
             lane_queue'[i] = lane_queue'[j]
      PROVE  i = j
  BY <1>2, <1>3, <1>4, <1>6 DEF QueueInv
<1>7. ASSUME NEW q \in Requests, phase'[q] = "waiting"
      PROVE  \E i \in 1 .. Len(lane_queue') : lane_queue'[i] = q
  <2>1. CASE q = r
    <3>1. Len(lane_queue) + 1 \in 1 .. Len(lane_queue')
      BY <1>2
    <3> QED
      BY <1>2, <2>1, <3>1
  <2>2. CASE q # r
    <3>1. PICK k \in 1 .. Len(lane_queue) : lane_queue[k] = q
      BY <1>1, <1>7, <2>2 DEF QueueInv
    <3>2. k \in 1 .. Len(lane_queue') /\ lane_queue'[k] = q
      BY <1>2, <3>1
    <3> QED
      BY <3>2
  <2> QED
    BY <2>1, <2>2
<1> QED
  BY <1>5, <1>6, <1>7 DEF QueueInv

(* A cancelled waiter is taken out of the middle of the queue.             *)
LEMMA QueueShrinks ==
  ASSUME TypeOK, QueueInv, NEW r \in Requests, NEW i \in 1 .. Len(lane_queue),
         lane_queue[i] = r, lane_queue' = RemoveAt(lane_queue, i),
         phase' = [phase EXCEPT ![r] = "returned"]
  PROVE  QueueInv'
<1> DEFINE n == Len(lane_queue)
           Old(j) == IF j < i THEN j ELSE j + 1
<1>1. phase \in [Requests -> Phases]
  BY DEF TypeOK
<1>2. /\ n \in Nat
      /\ \A j \in 1 .. n : lane_queue[j] \in Requests
      /\ Len(lane_queue') = n - 1
      /\ \A j \in 1 .. n - 1 : lane_queue'[j] = lane_queue[Old(j)]
  <2>1. lane_queue \in Seq(Requests)
    BY DEF TypeOK
  <2>2. n \in Nat /\ \A j \in 1 .. n : lane_queue[j] \in Requests
    BY <2>1, ElementOfSeq, LenProperties
  <2>3. /\ Len(lane_queue') = n - 1
        /\ \A j \in 1 .. n - 1 :
             lane_queue'[j] = IF j < i THEN lane_queue[j] ELSE lane_queue[j + 1]
    BY <2>1, RemoveAtProperties
  <2> QED
    BY <2>2, <2>3
<1>3. \A j \in 1 .. n - 1 : Old(j) \in 1 .. n /\ Old(j) # i
  BY <1>2
<1>4. \A j, k \in 1 .. n - 1 : Old(j) = Old(k) => j = k
  BY <1>2
<1>5. ASSUME NEW k \in 1 .. n, k # i PROVE \E j \in 1 .. n - 1 : Old(j) = k
  <2>1. CASE k < i
    <3>1. k \in 1 .. n - 1 /\ Old(k) = k
      BY <1>2, <2>1
    <3> QED
      BY <3>1
  <2>2. CASE k > i
    <3>1. k - 1 \in 1 .. n - 1 /\ Old(k - 1) = k
      BY <1>2, <2>2
    <3> QED
      BY <3>1
  <2> QED
    BY <1>5, <2>1, <2>2
<1> HIDE DEF Old
<1>6. ASSUME NEW j \in 1 .. n - 1
      PROVE  phase'[lane_queue'[j]] = "waiting"
  <2>1. lane_queue[Old(j)] # r /\ lane_queue[Old(j)] \in Requests
        /\ phase[lane_queue[Old(j)]] = "waiting"
    BY <1>2, <1>3 DEF QueueInv
  <2> QED
    BY <1>1, <1>2, <2>1
<1>7. ASSUME NEW j \in 1 .. n - 1, NEW k \in 1 .. n - 1, lane_queue'[j] = lane_queue'[k]
      PROVE  j = k
  <2>1. lane_queue[Old(j)] = lane_queue[Old(k)]
    BY <1>2, <1>7
  <2>2. Old(j) \in 1 .. n /\ Old(k) \in 1 .. n
    BY <1>3
  <2>3. Old(j) = Old(k)
    BY <2>1, <2>2 DEF QueueInv
  <2> QED
    BY <1>4, <2>3
<1>8. ASSUME NEW q \in Requests, phase'[q] = "waiting"
      PROVE  \E j \in 1 .. n - 1 : lane_queue'[j] = q
  <2>1. q # r /\ phase[q] = "waiting"
    BY <1>1, <1>8
  <2>2. PICK k \in 1 .. n : lane_queue[k] = q
    BY <2>1 DEF QueueInv
  <2>3. PICK j \in 1 .. n - 1 : Old(j) = k
    BY <1>5, <2>1, <2>2
  <2> QED
    BY <1>2, <2>2, <2>3
<1> QED
  BY <1>2, <1>6, <1>7, <1>8 DEF QueueInv

(* Every action keeps the queue equal to the waiting requests.             *)
LEMMA StepQueueInv ==
  ASSUME TypeOK, QueueInv, NEW r \in Requests, Actions(r)
  PROVE  QueueInv'
<1>1. ASSUME UNCHANGED <<lane_queue, phase>> PROVE QueueInv'
  BY <1>1 DEF QueueInv
<1>2. CASE Admit(r)
  BY <1>2, QueueKept DEF Admit
<1>3. CASE Refuse(r)
  BY <1>3, QueueKept DEF Refuse
<1>4. CASE SeekLane(r)
  <2>1. CASE lane_queue' = lane_queue /\ phase' = [phase EXCEPT ![r] = "running"]
    BY <1>4, <2>1, QueueKept DEF SeekLane
  <2>2. CASE /\ lane_queue' = Append(lane_queue, r)
             /\ phase' = [phase EXCEPT ![r] = "waiting"]
    BY <1>4, <2>2, QueueGrows DEF SeekLane
  <2> QED
    BY <1>4, <2>1, <2>2 DEF SeekLane
<1>5. CASE StartWorker(r)
  BY <1>5, QueueKept DEF StartWorker
<1>6. CASE Emit(r)
  BY <1>1, <1>6 DEF Emit
<1>7. CASE WorkerReturns(r)
  BY <1>7, QueueAdvances DEF WorkerReturns, HoldsLane
<1>8. CASE Retire(r)
  BY <1>8, QueueKept DEF Retire, ReturnSlot
<1>9. CASE ReportFailure(r)
  BY <1>9, QueueKept DEF ReportFailure, ReturnSlot
<1>10. CASE AnswerUnary(r) \/ Receive(r) \/ Disconnect(r)
  BY <1>1, <1>10 DEF AnswerUnary, Receive, Disconnect
<1>11. CASE CancelWait(r)
  <2>1. CASE phase[r] = "granted" /\ ReturnLane(r, "returned")
    BY <2>1, QueueAdvances DEF HoldsLane
  <2>2. CASE phase[r] = "waiting"
    <3>1. PICK i \in 1 .. Len(lane_queue) :
            lane_queue[i] = r /\ lane_queue' = RemoveAt(lane_queue, i)
      BY <1>11, <2>2, LenProperties DEF CancelWait, TypeOK
    <3>2. phase' = [phase EXCEPT ![r] = "returned"]
      BY <1>11, <2>2 DEF CancelWait
    <3> QED
      BY <3>1, <3>2, QueueShrinks
  <2> QED
    BY <1>11, <2>1, <2>2 DEF CancelWait
<1> QED
  BY <1>2, <1>3, <1>4, <1>5, <1>6, <1>7, <1>8, <1>9, <1>10, <1>11 DEF Actions

-----------------------------------------------------------------------------
(* The end of a stream.                                                    *)

(* A step that leaves what StreamOK reads of q alone, up to a change of    *)
(* phase before the worker returned, preserves it.                         *)
LEMMA StreamKept ==
  ASSUME NEW q \in Requests, StreamOK(q),
         outcome'[q] = outcome[q], client'[q] = client[q],
         channel'[q] = channel[q], progress'[q] = progress[q],
         \/ phase'[q] = phase[q]
         \/ phase[q] \notin {"returned", "over"} /\ phase'[q] \notin {"returned", "over"}
  PROVE  StreamOK(q)'
BY DEF StreamOK

(* Handing a lane on moves only its holder and a waiting request.          *)
LEMMA OthersKept ==
  ASSUME TypeOK, QueueInv, NEW r \in Requests, NEW q \in Requests, q # r,
         phase[r] \in HoldsLane, ReturnLane(r, "returned")
  PROVE  \/ phase'[q] = phase[q]
         \/ phase[q] \notin {"returned", "over"} /\ phase'[q] \notin {"returned", "over"}
<1>1. phase \in [Requests -> Phases]
  BY DEF TypeOK
<1>2. CASE phase' = [phase EXCEPT ![r] = "returned"]
  BY <1>1, <1>2
<1>3. CASE /\ lane_queue[1] \in Requests
           /\ phase[lane_queue[1]] = "waiting"
           /\ phase' = [phase EXCEPT ![r] = "returned", ![lane_queue[1]] = "granted"]
  BY <1>1, <1>3
<1> QED
  BY <1>2, <1>3, LaneHandedOn

(* The event sent last is the last one in the channel.                     *)
LEMMA AppendIsLast ==
  ASSUME NEW S, NEW s \in Seq(S), NEW e \in S
  PROVE  Len(Append(s, e)) > 0 /\ LastOf(Append(s, e)) = e
BY AppendProperties, LenProperties DEF LastOf

(* Taking an event from a channel leaves its last event in place, or it    *)
(* was the last event.                                                     *)
LEMMA TailKeepsLast ==
  ASSUME NEW S, NEW s \in Seq(S), Len(s) > 0
  PROVE  \/ Head(s) = LastOf(s)
         \/ Len(Tail(s)) > 0 /\ LastOf(Tail(s)) = LastOf(s)
<1>1. s # <<>> /\ Len(s) \in Nat
  BY LenProperties, EmptySeq
<1>2. /\ Head(s) = s[1]
      /\ Len(Tail(s)) = Len(s) - 1
      /\ \A i \in 1 .. Len(Tail(s)) : Tail(s)[i] = s[i + 1]
  BY <1>1, HeadTailProperties
<1>3. CASE Len(s) = 1
  BY <1>2, <1>3 DEF LastOf
<1>4. CASE Len(s) # 1
  <2>1. Len(s) - 1 \in 1 .. Len(Tail(s)) /\ (Len(s) - 1) + 1 = Len(s)
    BY <1>1, <1>2, <1>4
  <2> QED
    BY <1>2, <2>1 DEF LastOf
<1> QED
  BY <1>3, <1>4

(* Every action keeps the end of each stream in its channel until the      *)
(* client has read it.                                                     *)
LEMMA StepStreamInv ==
  ASSUME TypeOK, QueueInv, StreamInv, NEW r \in Requests, Actions(r)
  PROVE  StreamInv'
<1> SUFFICES ASSUME NEW q \in Requests PROVE StreamOK(q)'
  BY DEF StreamInv
<1>1. StreamOK(q) /\ StreamOK(r)
  BY DEF StreamInv
<1>2. /\ phase \in [Requests -> Phases]
      /\ client \in [Requests -> Clients]
      /\ channel \in [Requests -> Seq(Events)]
      /\ progress \in [Requests -> Progress]
      /\ outcome \in [Requests -> {"none", "ok", "error"}]
  BY DEF TypeOK
<1>3. CASE Admit(r) \/ SeekLane(r) \/ StartWorker(r)
  BY <1>1, <1>2, <1>3, StreamKept DEF Admit, SeekLane, StartWorker
<1>4. CASE Refuse(r)
  BY <1>1, <1>2, <1>4 DEF Refuse, StreamOK
<1>5. CASE Emit(r)
  <2>1. CASE q # r
    BY <1>1, <1>2, <1>5, <2>1, StreamKept DEF Emit
  <2>2. CASE q = r
    <3>1. PICK e \in Emission(r) :
            /\ channel' = [channel EXCEPT ![r] = Append(@, e[1])]
            /\ progress' = [progress EXCEPT ![r] = e[2]]
      BY <1>5 DEF Emit
    <3>2. e[1] \in Events /\ (e[2] = Done => e[1] = "Finished")
      BY SchedulerAssumption DEF Emission, Events, Done
    <3>3. Len(Append(channel[r], e[1])) > 0 /\ LastOf(Append(channel[r], e[1])) = e[1]
      BY <1>2, <3>2, AppendIsLast
    <3>4. /\ channel'[r] = Append(channel[r], e[1]) /\ progress'[r] = e[2]
          /\ phase'[r] = "running" /\ phase[r] = "running"
          /\ outcome'[r] = outcome[r] /\ client'[r] = client[r]
      BY <1>2, <1>5, <3>1 DEF Emit
    <3> QED
      BY <1>1, <2>2, <3>2, <3>3, <3>4 DEF StreamOK
  <2> QED
    BY <2>1, <2>2
<1>6. CASE WorkerReturns(r)
  <2>1. phase[r] = "running" /\ phase[r] \in HoldsLane /\ ReturnLane(r, "returned")
    BY <1>6 DEF WorkerReturns, HoldsLane
  <2>2. CASE q # r
    <3>1. \/ phase'[q] = phase[q]
          \/ phase[q] \notin {"returned", "over"} /\ phase'[q] \notin {"returned", "over"}
      BY <2>1, <2>2, OthersKept
    <3> QED
      BY <1>1, <1>2, <1>6, <2>2, <3>1, StreamKept DEF WorkerReturns
  <2>3. CASE q = r
    <3>1. phase'[r] = "returned"
      BY <1>2, <2>1, LaneHandedOn
    <3>2. PICK o \in Returns(r) : outcome'[r] = o
      BY <1>2, <1>6 DEF WorkerReturns
    <3>3. /\ o \in {"ok", "error"}
          /\ r \in Streams => (o = "ok" <=> progress[r] = Done)
      BY <3>2 DEF Returns
    <3>4. client'[r] = client[r] /\ channel'[r] = channel[r] /\ progress'[r] = progress[r]
      BY <1>6 DEF WorkerReturns
    <3> QED
      BY <1>1, <2>3, <3>1, <3>2, <3>3, <3>4 DEF StreamOK
  <2> QED
    BY <2>2, <2>3
<1>7. CASE Retire(r)
  BY <1>1, <1>2, <1>7 DEF Retire, ReturnSlot, StreamOK
<1>8. CASE ReportFailure(r)
  <2>1. CASE q # r
    BY <1>1, <1>2, <1>8, <2>1, StreamKept DEF ReportFailure, ReturnSlot
  <2>2. CASE q = r
    <3>1. /\ Len(Append(channel[r], "Err")) > 0
          /\ LastOf(Append(channel[r], "Err")) = "Err"
      BY <1>2, AppendIsLast DEF Events
    <3>2. /\ channel'[r] = Append(channel[r], "Err") /\ phase'[r] = "over"
          /\ outcome[r] = "error" /\ r \in Streams
          /\ outcome'[r] = outcome[r] /\ client'[r] = client[r]
          /\ progress'[r] = progress[r]
      BY <1>2, <1>8 DEF ReportFailure, ReturnSlot
    <3> QED
      BY <1>1, <2>2, <3>1, <3>2 DEF StreamOK
  <2> QED
    BY <2>1, <2>2
<1>9. CASE AnswerUnary(r)
  BY <1>1, <1>2, <1>9 DEF AnswerUnary, StreamOK
<1>10. CASE Receive(r)
  <2>1. CASE q # r
    BY <1>1, <1>2, <1>10, <2>1, StreamKept DEF Receive
  <2>2. CASE q = r
    <3>1. /\ r \in Streams /\ client[r] = "connected"
          /\ channel[r] # <<>> \/ phase[r] = "over"
          /\ phase'[r] = phase[r] /\ outcome'[r] = outcome[r] /\ progress'[r] = progress[r]
      BY <1>10 DEF Receive
    <3>2. channel[r] \in Seq(Events) /\ Len(channel[r]) > 0 /\ channel[r] # <<>>
      <4>1. channel[r] \in Seq(Events)
        BY <1>2
      <4>2. CASE channel[r] # <<>>
        BY <4>1, <4>2, EmptySeq, LenProperties
      <4>3. CASE phase[r] = "over"
        <5>1. Len(channel[r]) > 0
          BY <1>1, <3>1, <4>3 DEF StreamOK
        <5> QED
          BY <4>1, <5>1, EmptySeq
      <4> QED
        BY <3>1, <4>2, <4>3, <4>1
    <3>3. channel'[r] = Tail(channel[r])
      BY <1>2, <1>10, <3>2 DEF Receive
    <3>4. /\ client'[r] \in {"connected", "complete", "failed"}
          /\ client'[r] = "connected" => Head(channel[r]) \notin {"Finished", "Err"}
      <4>1. Head(channel[r]) \in {"Started", "RawToken", "Finished", "Err"}
        BY <3>2, HeadTailProperties DEF Events
      <4>2. NextItem(r) = Head(channel[r])
        BY <3>2 DEF NextItem
      <4> QED
        BY <1>2, <1>10, <4>1, <4>2 DEF Receive
    <3>5. \/ Head(channel[r]) = LastOf(channel[r])
          \/ Len(Tail(channel[r])) > 0 /\ LastOf(Tail(channel[r])) = LastOf(channel[r])
      BY <3>2, TailKeepsLast
    <3> QED
      BY <1>1, <2>2, <3>1, <3>3, <3>4, <3>5 DEF StreamOK
  <2> QED
    BY <2>1, <2>2
<1>11. CASE Disconnect(r)
  BY <1>1, <1>2, <1>11 DEF Disconnect, StreamOK
<1>12. CASE CancelWait(r)
  <2>1. client'[r] = "gone" /\ r \notin Streams /\ outcome'[r] = outcome[r]
    BY <1>2, <1>12 DEF CancelWait
  <2>2. CASE q # r
    <3>1. /\ outcome'[q] = outcome[q] /\ client'[q] = client[q]
          /\ channel'[q] = channel[q] /\ progress'[q] = progress[q]
      BY <1>2, <1>12, <2>2 DEF CancelWait
    <3>2. CASE phase[r] = "granted" /\ ReturnLane(r, "returned")
      BY <1>1, <2>2, <3>1, <3>2, OthersKept, StreamKept DEF HoldsLane
    <3>3. CASE phase' = [phase EXCEPT ![r] = "returned"]
      BY <1>1, <1>2, <2>2, <3>1, <3>3, StreamKept
    <3> QED
      BY <1>12, <3>2, <3>3 DEF CancelWait
  <2>3. CASE q = r
    <3>1. phase'[r] = "returned"
      <4>1. CASE phase[r] = "granted" /\ ReturnLane(r, "returned")
        BY <1>2, <4>1, LaneHandedOn DEF HoldsLane
      <4>2. CASE phase' = [phase EXCEPT ![r] = "returned"]
        BY <1>2, <4>2
      <4> QED
        BY <1>12, <4>1, <4>2 DEF CancelWait
    <3> QED
      BY <2>1, <2>3, <3>1 DEF StreamOK
  <2> QED
    BY <2>2, <2>3
<1> QED
  BY <1>3, <1>4, <1>5, <1>6, <1>7, <1>8, <1>9, <1>10, <1>11, <1>12 DEF Actions

-----------------------------------------------------------------------------
(* The theorems.                                                           *)

(* The invariant is inductive.                                             *)
LEMMA StepIInv == IInv /\ [Next]_vars => IInv'
<1> SUFFICES ASSUME IInv, [Next]_vars PROVE IInv'
  OBVIOUS
<1>1. CASE Next
  <2>1. PICK r \in Requests : Actions(r)
    BY <1>1 DEF Next, Actions
  <2> QED
    BY <2>1, StepTypeOK, StepPermits, StepNoIdleLane, StepQueueInv, StepStreamInv DEF IInv
<1>2. CASE UNCHANGED vars
  <2>1. TypeOK' /\ NoIdleLane'
    BY <1>2 DEF vars, IInv, TypeOK, NoIdleLane
  <2>2. PermitsConserved'
    BY <1>2 DEF vars, IInv, PermitsConserved, In
  <2>3. QueueInv'
    BY <1>2 DEF vars, IInv, QueueInv
  <2>4. StreamInv'
    BY <1>2 DEF vars, IInv, StreamInv, StreamOK
  <2> QED
    BY <2>1, <2>2, <2>3, <2>4 DEF IInv
<1> QED
  BY <1>1, <1>2

(* The inductive invariant holds in every reachable state of the           *)
(* scheduler, whatever the number of requests, lanes, slots and events.    *)
THEOREM Inductive == Spec => []IInv
<1>1. Init => IInv
  BY InitIInv
<1>2. IInv /\ [Next]_vars => IInv'
  BY StepIInv
<1> QED
  BY <1>1, <1>2, PTL DEF Spec

(* Every variable of the scheduler keeps its type; in particular neither   *)
(* semaphore goes below zero.                                              *)
THEOREM TypeCorrect == Spec => []TypeOK
<1>1. IInv => TypeOK
  BY DEF IInv
<1> QED
  BY <1>1, Inductive, PTL

(* No queue slot and no generation lane is lost or minted, however the     *)
(* requests that hold them end.                                            *)
THEOREM NoPermitLost == Spec => []PermitsConserved
<1>1. IInv => PermitsConserved
  BY DEF IInv
<1> QED
  BY <1>1, Inductive, PTL

(* No generation lane is free while a request waits for one.               *)
THEOREM LanesAreUsed == Spec => []NoIdleLane
<1>1. IInv => NoIdleLane
  BY DEF IInv
<1> QED
  BY <1>1, Inductive, PTL

(* The lane queue holds exactly the waiting requests, once each, so that   *)
(* a client that left is never handed a lane.                              *)
THEOREM OnlyWaitersQueue == Spec => []QueueIsWaiting
<1>1. IInv => QueueIsWaiting
  <2> SUFFICES ASSUME IInv PROVE QueueIsWaiting
    OBVIOUS
  <2>1. lane_queue \in Seq(Requests) /\ QueueInv
    BY DEF IInv, TypeOK
  <2>2. DOMAIN lane_queue = 1 .. Len(lane_queue)
    BY <2>1, LenProperties
  <2>3. \A i \in 1 .. Len(lane_queue) : lane_queue[i] \in Requests
    BY <2>1, ElementOfSeq
  <2>4. ToSet(lane_queue) = In({"waiting"})
    BY <2>1, <2>2, <2>3 DEF ToSet, In, QueueInv
  <2>5. IsInjective(lane_queue)
    BY <2>1, <2>2 DEF IsInjective, QueueInv
  <2> QED
    BY <2>4, <2>5 DEF QueueIsWaiting
<1> QED
  BY <1>1, Inductive, PTL

(* A client that stays connected gets a Finished or an error event before  *)
(* its stream ends.                                                        *)
THEOREM StreamsEndProperly == Spec => []NeverCutOff
<1>1. IInv => NeverCutOff
  BY DEF IInv, StreamInv, StreamOK, NeverCutOff
<1> QED
  BY <1>1, Inductive, PTL

-----------------------------------------------------------------------------
(* Refinement of Admission.                                                *)

(* Where the phases are in the abstract service.                           *)
LEMMA PlaceValues ==
  /\ PlaceOf("idle") = "outside" /\ PlaceOf("refused") = "refused"
  /\ PlaceOf("admitted") = "queued" /\ PlaceOf("waiting") = "queued"
  /\ PlaceOf("granted") = "executing" /\ PlaceOf("running") = "executing"
  /\ PlaceOf("returned") = "leaving" /\ PlaceOf("over") = "left"
BY DEF PlaceOf, HoldsLane

(* The house is the requests with a slot, the executions those with a lane.*)
LEMMA Housed ==
  ASSUME TypeOK
  PROVE  /\ Service!Inside = In(HoldsSlot)
         /\ Service!At({Service!Executing}) = In(HoldsLane)
<1>1. \A r \in Requests : phase[r] \in Phases
  BY DEF TypeOK
<1>2. \A p \in Phases :
        /\ PlaceOf(p) \in {"queued", "executing", "leaving"} <=> p \in HoldsSlot
        /\ PlaceOf(p) = "executing" <=> p \in HoldsLane
  BY PlaceValues DEF Phases, HoldsSlot, HoldsLane
<1> QED
  BY <1>1, <1>2 DEF Service!Inside, Service!At, Service!Queued, Service!Executing,
     Service!Leaving, Place, In

(* The abstract module counts as this one does.                            *)
LEMMA SameCount == \A S : Service!Cardinality(S) = Cardinality(S)
BY DEF Service!Cardinality, Cardinality

(* Every step of the scheduler is a step of the abstract service or a      *)
(* stutter.                                                                *)
LEMMA StepRefines ==
  ASSUME TypeOK, QueueInv, PermitsConserved, NEW r \in Requests, Actions(r)
  PROVE  Service!Next \/ Place' = Place
<1> USE DEF Service!Outside, Service!Refused, Service!Queued, Service!Executing,
        Service!Leaving, Service!Left, Service!Move
<1>1. phase \in [Requests -> Phases] /\ free_slots \in Nat /\ free_lanes \in Nat
  BY DEF TypeOK
<1>2. /\ free_slots + Cardinality(Service!Inside) = Slots
      /\ free_lanes + Cardinality(Service!At({Service!Executing})) = Lanes
      /\ Cardinality(Service!Inside) \in Nat
      /\ Cardinality(Service!At({Service!Executing})) \in Nat
      /\ Slots \in Nat /\ Lanes \in Nat
  BY Housed, InIsFinite, PositiveBounds DEF PermitsConserved
<1>3. CASE Admit(r)
  <2>1. Cardinality(Service!Inside) < Slots
    BY <1>1, <1>2, <1>3 DEF Admit
  <2>2. Place[r] = "outside" /\ Place' = [Place EXCEPT ![r] = "queued"]
    BY <1>1, <1>3, PlaceValues DEF Place, Admit
  <2> QED
    BY <2>1, <2>2, SameCount DEF Service!Next, Service!Enter
<1>4. CASE Refuse(r)
  <2>1. Cardinality(Service!Inside) >= Slots
    BY <1>1, <1>2, <1>4 DEF Refuse
  <2>2. Place[r] = "outside" /\ Place' = [Place EXCEPT ![r] = "refused"]
    BY <1>1, <1>4, PlaceValues DEF Place, Refuse
  <2> QED
    BY <2>1, <2>2, SameCount DEF Service!Next, Service!TurnAway
<1>5. CASE SeekLane(r)
  <2>1. CASE free_lanes > 0 /\ phase' = [phase EXCEPT ![r] = "running"]
    <3>1. Cardinality(Service!At({Service!Executing})) < Lanes
      BY <1>1, <1>2, <2>1
    <3>2. Place[r] = "queued" /\ Place' = [Place EXCEPT ![r] = "executing"]
      BY <1>1, <1>5, <2>1, PlaceValues DEF Place, SeekLane
    <3> QED
      BY <3>1, <3>2, SameCount DEF Service!Next, Service!Execute
  <2>2. CASE phase' = [phase EXCEPT ![r] = "waiting"]
    <3>1. Place[r] = "queued" /\ Place' = [Place EXCEPT ![r] = "queued"]
      BY <1>1, <1>5, <2>2, PlaceValues DEF Place, SeekLane
    <3> QED
      BY <3>1 DEF Place
  <2> QED
    BY <1>5, <2>1, <2>2 DEF SeekLane
<1>6. CASE StartWorker(r)
  <2>1. Place[r] = "executing" /\ Place' = [Place EXCEPT ![r] = "executing"]
    BY <1>1, <1>6, PlaceValues DEF Place, StartWorker
  <2> QED
    BY <2>1 DEF Place
<1>7. CASE phase' = phase
  BY <1>7 DEF Place
<1>8. ASSUME phase[r] \in HoldsLane, ReturnLane(r, "returned") PROVE Service!Next
  <2>1. Place[r] = "executing"
    BY <1>8, PlaceValues DEF Place, HoldsLane
  <2>2. CASE phase' = [phase EXCEPT ![r] = "returned"]
    <3>1. Place' = [Place EXCEPT ![r] = "leaving"]
      BY <1>1, <2>2, PlaceValues DEF Place
    <3> QED
      BY <2>1, <3>1 DEF Service!Next, Service!StopExecuting
  <2>3. CASE /\ lane_queue[1] \in Requests
             /\ lane_queue[1] # r
             /\ phase[lane_queue[1]] = "waiting"
             /\ phase' = [phase EXCEPT ![r] = "returned", ![lane_queue[1]] = "granted"]
    <3>1. Place[lane_queue[1]] = "queued"
      BY <2>3, PlaceValues DEF Place
    <3>2. Place' = [Place EXCEPT ![r] = "leaving", ![lane_queue[1]] = "executing"]
      BY <1>1, <2>3, PlaceValues DEF Place
    <3> QED
      BY <2>1, <2>3, <3>1, <3>2 DEF Service!Next, Service!HandOver
  <2> QED
    BY <1>8, <2>2, <2>3, LaneHandedOn
<1>9. CASE WorkerReturns(r)
  BY <1>8, <1>9 DEF WorkerReturns, HoldsLane
<1>10. ASSUME phase[r] = "returned", ReturnSlot(r) PROVE Service!Next
  <2>1. Place[r] = "leaving" /\ Place' = [Place EXCEPT ![r] = "left"]
    BY <1>1, <1>10, PlaceValues DEF Place, ReturnSlot
  <2> QED
    BY <2>1 DEF Service!Next, Service!Leave
<1>11. CASE Retire(r) \/ ReportFailure(r)
  BY <1>10, <1>11 DEF Retire, ReportFailure
<1>12. CASE CancelWait(r)
  <2>1. CASE phase[r] = "granted" /\ ReturnLane(r, "returned")
    BY <1>8, <2>1 DEF HoldsLane
  <2>2. CASE phase[r] = "waiting" /\ phase' = [phase EXCEPT ![r] = "returned"]
    <3>1. Place[r] = "queued" /\ Place' = [Place EXCEPT ![r] = "leaving"]
      BY <1>1, <2>2, PlaceValues DEF Place
    <3> QED
      BY <3>1 DEF Service!Next, Service!GiveUp
  <2> QED
    BY <1>12, <2>1, <2>2 DEF CancelWait
<1> QED
  BY <1>3, <1>4, <1>5, <1>6, <1>7, <1>9, <1>11, <1>12
  DEF Actions, Emit, AnswerUnary, Receive, Disconnect

(* The scheduler implements the abstract admission service: at most Slots  *)
(* requests in the house, at most Lanes of them executing, nobody turned   *)
(* away from a house with room, and everybody leaves at most once.         *)
THEOREM Refinement == Spec => IsAdmissionService
<1>1. Init => Service!Init
  BY PlaceValues DEF Init, Service!Init, Service!Outside, Place
<1>2. IInv /\ [Next]_vars => [Service!Next]_Place
  <2> SUFFICES ASSUME IInv, [Next]_vars PROVE Service!Next \/ Place' = Place
    OBVIOUS
  <2>1. CASE Next
    <3>1. PICK r \in Requests : Actions(r)
      BY <2>1 DEF Next, Actions
    <3> QED
      BY <3>1, StepRefines DEF IInv
  <2>2. CASE UNCHANGED vars
    BY <2>2 DEF vars, Place
  <2> QED
    BY <2>1, <2>2
<1> QED
  BY <1>1, <1>2, Inductive, PTL DEF Spec, IsAdmissionService, Service!Spec

=============================================================================
