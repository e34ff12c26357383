----------------------------- MODULE Scheduler -----------------------------
(***************************************************************************)
(* The request scheduler of src/api.rs: ApiState::generate (one JSON       *)
(* answer) and ApiState::generate_stream (server-sent events).             *)
(*                                                                         *)
(* Two semaphores bound the work.  A request first takes a queue slot      *)
(* without waiting (no slot: 429), then waits in FIFO order for a          *)
(* generation lane, then runs the engine on a blocking thread.  The lane   *)
(* and the slot are owned by whatever runs on the request's behalf: the    *)
(* HTTP handler while a unary request waits, the blocking closure once it  *)
(* runs, a detached task for a stream.  A client that goes away drops only *)
(* what its handler or its receiver owned at that moment.                  *)
(*                                                                         *)
(* The engine is reduced to what the scheduler sees of it: a stream emits  *)
(* Started, then at most MaxTokens RawToken events, then Finished, and it  *)
(* may fail before Finished.  A worker panic (unwinding builds only, the   *)
(* release profile aborts) reaches the scheduler as a JoinError, which is  *)
(* handled like an engine error and is the same outcome here.              *)
(*                                                                         *)
(* A definition named D_Error is D with that error in it: no part of the   *)
(* specification, but what its properties are tried against.               *)
(***************************************************************************)
EXTENDS Naturals, Sequences, SequencesExt, FiniteSets

CONSTANTS
  Requests,                \* requests clients may send, each at most once
  Streams,                 \* those sent with "stream": true
  Leavers,                 \* those whose client may disconnect
  generation_concurrency,  \* ServerConfig fields
  max_queued_requests,
  ChannelCapacity,         \* 32 in the code
  MaxTokens                \* bound on RawToken events of one generation

ASSUME SchedulerAssumption ==
  /\ IsFiniteSet(Requests)
  /\ Streams \subseteq Requests
  /\ Leavers \subseteq Requests
  /\ generation_concurrency \in Nat
  /\ max_queued_requests \in Nat
  /\ ChannelCapacity \in Nat \ {0}
  /\ MaxTokens \in Nat

AtLeast(n, low) == IF n < low THEN low ELSE n

\* router() raises a zero lane count to one, and the queue to the lanes.
Lanes == AtLeast(generation_concurrency, 1)
Slots == AtLeast(max_queued_requests, Lanes)

VARIABLES
  free_slots,   \* permits left in queue_slots
  free_lanes,   \* permits left in generation_lanes
  lane_queue,   \* the semaphore's FIFO of tasks waiting for a lane
  phase,        \* what runs on the request's behalf
  client,       \* what the client has seen
  channel,      \* the mpsc channel of a stream
  progress,     \* the engine's position in its event sequence
  outcome       \* what the worker returned

vars == <<free_slots, free_lanes, lane_queue, phase, client, channel,
          progress, outcome>>

-----------------------------------------------------------------------------
(* A slot is held in the phases after "idle" and before "over"; a lane is  *)
(* held from the moment the semaphore assigns it ("granted") until the     *)
(* worker's closure returns.                                               *)

HoldsLane == {"granted", "running"}
HoldsSlot == {"admitted", "waiting", "returned"} \cup HoldsLane
Phases    == {"idle", "refused", "over"} \cup HoldsSlot

Clients  == {"connected", "gone", "busy", "complete", "failed", "cut off"}

\* Events emitted so far: 0, then 1 for Started and one more per RawToken.
Done     == MaxTokens + 2
Progress == 0 .. Done
Events   == {"Started", "RawToken", "Finished", "Err"}

In(phases) == {r \in Requests : phase[r] \in phases}

TypeOK ==
  /\ free_slots \in Nat
  /\ free_lanes \in Nat
  /\ lane_queue \in Seq(Requests)
  /\ phase \in [Requests -> Phases]
  /\ client \in [Requests -> Clients]
  /\ channel \in [Requests -> Seq(Events)]
  /\ progress \in [Requests -> Progress]
  /\ outcome \in [Requests -> {"none", "ok", "error"}]

Init ==
  /\ free_slots = Slots
  /\ free_lanes = Lanes
  /\ lane_queue = <<>>
  /\ phase = [r \in Requests |-> "idle"]
  /\ client = [r \in Requests |-> "connected"]
  /\ channel = [r \in Requests |-> <<>>]
  /\ progress = [r \in Requests |-> 0]
  /\ outcome = [r \in Requests |-> "none"]

-----------------------------------------------------------------------------
(* The semaphores.                                                         *)

ReturnLane_NoHandOver(r, to) ==
  /\ free_lanes' = free_lanes + 1
  /\ phase' = [phase EXCEPT ![r] = to]
  /\ UNCHANGED lane_queue

\* A returned lane permit goes to the head of the queue if there is one
\* (the tokio semaphore is fair), otherwise back to the free permits.
\* r, which held the permit, moves on to the phase `to`.
ReturnLane(r, to) ==
  IF lane_queue = <<>>
  THEN /\ free_lanes' = free_lanes + 1
       /\ phase' = [phase EXCEPT ![r] = to]
       /\ UNCHANGED lane_queue
  ELSE /\ lane_queue' = Tail(lane_queue)
       /\ phase' = [phase EXCEPT ![r] = to, ![Head(lane_queue)] = "granted"]
       /\ UNCHANGED free_lanes

ReturnSlot(r) ==
  /\ free_slots' = free_slots + 1
  /\ phase' = [phase EXCEPT ![r] = "over"]

-----------------------------------------------------------------------------
(* Admission.                                                              *)

Admit_Unchecked(r) ==
  /\ phase[r] = "idle"
  /\ free_slots' = free_slots - 1
  /\ phase' = [phase EXCEPT ![r] = "admitted"]
  /\ UNCHANGED <<free_lanes, lane_queue, client, channel, progress, outcome>>

Admit(r) ==
  /\ phase[r] = "idle"
  /\ free_slots > 0
  /\ free_slots' = free_slots - 1
  /\ phase' = [phase EXCEPT ![r] = "admitted"]
  /\ UNCHANGED <<free_lanes, lane_queue, client, channel, progress, outcome>>

Refuse(r) ==
  /\ phase[r] = "idle"
  /\ free_slots = 0
  /\ phase' = [phase EXCEPT ![r] = "refused"]
  /\ client' = [client EXCEPT ![r] = "busy"]
  /\ UNCHANGED <<free_slots, free_lanes, lane_queue, channel, progress, outcome>>

SeekLane_NoLane(r) ==
  /\ phase[r] = "admitted"
  /\ phase' = [phase EXCEPT ![r] = "running"]
  /\ UNCHANGED <<free_slots, free_lanes, lane_queue, client, channel, progress, outcome>>

\* The handler (unary) or the spawned task (stream) asks for a lane.  A free
\* one is taken in the same poll and the work handed to spawn_blocking.
SeekLane(r) ==
  /\ phase[r] = "admitted"
  /\ \/ /\ free_lanes > 0
        /\ free_lanes' = free_lanes - 1
        /\ phase' = [phase EXCEPT ![r] = "running"]
        /\ UNCHANGED lane_queue
     \/ /\ free_lanes = 0
        /\ lane_queue' = Append(lane_queue, r)
        /\ phase' = [phase EXCEPT ![r] = "waiting"]
        /\ UNCHANGED free_lanes
  /\ UNCHANGED <<free_slots, client, channel, progress, outcome>>

\* The waiting task is resumed with its permit and calls spawn_blocking.
StartWorker(r) ==
  /\ phase[r] = "granted"
  /\ phase' = [phase EXCEPT ![r] = "running"]
  /\ UNCHANGED <<free_slots, free_lanes, lane_queue, client, channel,
                 progress, outcome>>

-----------------------------------------------------------------------------
(* The worker.                                                             *)

\* The event the engine emits next, and where that leaves it.  The trait's
\* default generate_stream (the fixture engine) emits Finished only.
Emission(r) ==
  {<<"Started", 1>> : n \in {0} \cap {progress[r]}} \cup
  {<<"RawToken", n + 1>> : n \in (1 .. MaxTokens) \cap {progress[r]}} \cup
  {<<"Finished", Done>> : n \in (0 .. Done - 1) \cap {progress[r]}}

\* blocking_send: waits for room while the receiver exists.
Emit(r) ==
  /\ phase[r] = "running"
  /\ r \in Streams
  /\ client[r] = "connected"
  /\ Len(channel[r]) < ChannelCapacity
  /\ \E e \in Emission(r) :
       /\ channel' = [channel EXCEPT ![r] = Append(@, e[1])]
       /\ progress' = [progress EXCEPT ![r] = e[2]]
  /\ UNCHANGED <<free_slots, free_lanes, lane_queue, phase, client, outcome>>

\* What the worker may return now.  A unary worker succeeds or fails.  A
\* stream's worker succeeds only behind a delivered Finished, and fails
\* before it, of its own or because blocking_send found no receiver.
Returns(r) ==
  IF r \notin Streams THEN {"ok", "error"}
  ELSE IF progress[r] = Done THEN {"ok"} ELSE {"error"}

WorkerReturns(r) ==
  /\ phase[r] = "running"
  /\ \E o \in Returns(r) : outcome' = [outcome EXCEPT ![r] = o]
  /\ ReturnLane(r, "returned")
  /\ UNCHANGED <<free_slots, client, channel, progress>>

Retire_Unreported(r) ==
  /\ phase[r] = "returned"
  /\ ReturnSlot(r)
  /\ UNCHANGED <<free_lanes, lane_queue, client, channel, progress, outcome>>

Retire_NotAbandoned(r) ==
  /\ phase[r] = "returned"
  /\ client[r] = "connected"
  /\ r \notin Streams \/ outcome[r] # "error"
  /\ ReturnSlot(r)
  /\ UNCHANGED <<free_lanes, lane_queue, client, channel, progress, outcome>>

\* The slot is dropped right after the lane, except that the task of a
\* failed stream first sends the error into the channel, and keeps its slot
\* while the channel is full.
Retire(r) ==
  /\ phase[r] = "returned"
  /\ r \notin Streams \/ outcome[r] # "error" \/ client[r] # "connected"
  /\ ReturnSlot(r)
  /\ UNCHANGED <<free_lanes, lane_queue, client, channel, progress, outcome>>

ReportFailure(r) ==
  /\ phase[r] = "returned"
  /\ r \in Streams
  /\ outcome[r] = "error"
  /\ client[r] = "connected"
  /\ Len(channel[r]) < ChannelCapacity
  /\ channel' = [channel EXCEPT ![r] = Append(@, "Err")]
  /\ ReturnSlot(r)
  /\ UNCHANGED <<free_lanes, lane_queue, client, progress, outcome>>

-----------------------------------------------------------------------------
(* The client.                                                             *)

\* The join handle resolves after the closure dropped its permits.
AnswerUnary(r) ==
  /\ phase[r] = "over"
  /\ r \notin Streams
  /\ client[r] = "connected"
  /\ client' = [client EXCEPT ![r] = IF outcome[r] = "ok" THEN "complete"
                                                          ELSE "failed"]
  /\ UNCHANGED <<free_slots, free_lanes, lane_queue, phase, channel,
                 progress, outcome>>

\* The SSE body takes the next event.  recv() yields None once the channel
\* is empty and the task is over, which cuts the stream off with an error.
NextItem(r) == IF channel[r] = <<>> THEN "None" ELSE Head(channel[r])

Receive(r) ==
  /\ r \in Streams
  /\ client[r] = "connected"
  /\ channel[r] # <<>> \/ phase[r] = "over"
  /\ channel' = [channel EXCEPT ![r] = IF @ = <<>> THEN @ ELSE Tail(@)]
  /\ client' = [client EXCEPT ![r] =
       CASE NextItem(r) = "Finished" -> "complete"
         [] NextItem(r) = "Err"      -> "failed"
         [] NextItem(r) = "None"     -> "cut off"
         [] OTHER                    -> "connected"]
  /\ UNCHANGED <<free_slots, free_lanes, lane_queue, phase, progress, outcome>>

\* The client of a stream goes away: its receiver and what it buffered are
\* dropped.  The client of a unary request goes away once the closure runs:
\* only the join handle is dropped, the worker is not told.
Disconnect(r) ==
  /\ r \in Leavers
  /\ client[r] = "connected"
  /\ phase[r] \notin {"idle", "refused"}
  /\ r \in Streams \/ phase[r] \in {"running", "returned", "over"}
  /\ client' = [client EXCEPT ![r] = "gone"]
  /\ channel' = [channel EXCEPT ![r] = <<>>]
  /\ UNCHANGED <<free_slots, free_lanes, lane_queue, phase, progress, outcome>>

CancelWait_LosesPermit(r) ==
  /\ r \in Leavers \ Streams
  /\ client[r] = "connected"
  /\ client' = [client EXCEPT ![r] = "gone"]
  /\ \/ /\ phase[r] = "granted"
        /\ UNCHANGED lane_queue
     \/ /\ phase[r] = "waiting"
        /\ lane_queue' = SelectSeq(lane_queue, LAMBDA q : q # r)
  /\ phase' = [phase EXCEPT ![r] = "returned"]
  /\ UNCHANGED <<free_slots, free_lanes, channel, progress, outcome>>

CancelWait_StaysQueued(r) ==
  /\ r \in Leavers \ Streams
  /\ client[r] = "connected"
  /\ client' = [client EXCEPT ![r] = "gone"]
  /\ \/ /\ phase[r] = "granted"
        /\ ReturnLane(r, "returned")
     \/ /\ phase[r] = "waiting"
        /\ phase' = [phase EXCEPT ![r] = "returned"]
        /\ UNCHANGED <<free_lanes, lane_queue>>
  /\ UNCHANGED <<free_slots, channel, progress, outcome>>

\* The client of a unary request goes away while its handler awaits a lane:
\* the dropped acquire future leaves the queue, or passes on the permit it
\* was assigned and had not been polled to take; then the slot is dropped.
CancelWait(r) ==
  /\ r \in Leavers \ Streams
  /\ client[r] = "connected"
  /\ client' = [client EXCEPT ![r] = "gone"]
  /\ \/ /\ phase[r] = "granted"
        /\ ReturnLane(r, "returned")
     \/ /\ phase[r] = "waiting"
        /\ \E i \in DOMAIN lane_queue :
             /\ lane_queue[i] = r
             /\ lane_queue' = RemoveAt(lane_queue, i)
        /\ phase' = [phase EXCEPT ![r] = "returned"]
        /\ UNCHANGED free_lanes
  /\ UNCHANGED <<free_slots, channel, progress, outcome>>

-----------------------------------------------------------------------------
Next ==
  \E r \in Requests :
    \/ Admit(r) \/ Refuse(r) \/ SeekLane(r) \/ StartWorker(r)
    \/ Emit(r) \/ WorkerReturns(r) \/ Retire(r) \/ ReportFailure(r)
    \/ AnswerUnary(r) \/ Receive(r) \/ Disconnect(r) \/ CancelWait(r)

\* The runtime polls ready tasks and the engine terminates; a client that
\* stays connected goes on reading.  Nobody is made to send or disconnect.
Fairness ==
  \A r \in Requests :
    /\ WF_vars(SeekLane(r)) /\ WF_vars(StartWorker(r))
    /\ WF_vars(Emit(r) \/ WorkerReturns(r))
    /\ WF_vars(Retire(r)) /\ WF_vars(ReportFailure(r))
    /\ WF_vars(AnswerUnary(r)) /\ WF_vars(Receive(r))

Spec == Init /\ [][Next]_vars

FairSpec == Spec /\ Fairness

-----------------------------------------------------------------------------
(* Properties.                                                             *)

(* No permit is lost or minted, whichever way a request ends: finished,    *)
(* failed, cancelled while it waits, assigned a lane its dropped handler   *)
(* never took, abandoned while it runs.  (The owned permits moved through  *)
(* generate and generate_stream.)                                          *)
PermitsConserved ==
  /\ free_slots + Cardinality(In(HoldsSlot)) = Slots
  /\ free_lanes + Cardinality(In(HoldsLane)) = Lanes

(* A lane is never idle while a request waits for one: a permit that comes *)
(* back, or that a dropped handler leaves behind, reaches the next waiter. *)
NoIdleLane == lane_queue # <<>> => free_lanes = 0

(* The queue is exactly the waiting requests, once each: a request whose   *)
(* client left is not handed a lane later.                                 *)
QueueIsWaiting ==
  /\ ToSet(lane_queue) = In({"waiting"})
  /\ IsInjective(lane_queue)

(* A client that stays connected is never cut off: its stream ends with a  *)
(* Finished or an error event, even though the worker's result travels     *)
(* through another task than the events and the channel may be full.       *)
NeverCutOff == \A r \in Requests : client[r] # "cut off"

(* Every request that was admitted eventually gives its slot back, also    *)
(* when its client left before, during or after the generation.            *)
SlotEventuallyReturned ==
  \A r \in Requests : phase[r] = "admitted" ~> phase[r] = "over"

(* Every client that sent a request and stays is eventually answered.      *)
ClientEventuallyAnswered ==
  \A r \in Requests :
    (phase[r] # "idle" /\ client[r] = "connected") ~> client[r] # "connected"

(* The scheduler is an Admission service: a lane is a member of an         *)
(* execution, a slot a member of the house.                                *)
PlaceOf(p) ==
  CASE p = "idle"                    -> "outside"
    [] p = "refused"                 -> "refused"
    [] p \in {"admitted", "waiting"} -> "queued"
    [] p \in HoldsLane               -> "executing"
    [] p = "returned"                -> "leaving"
    [] p = "over"                    -> "left"

Place == [r \in Requests |-> PlaceOf(phase[r])]

Service == INSTANCE Admission WITH Bound <- Slots, place <- Place

IsAdmissionService == Service!Spec

=============================================================================
