----------------------------- MODULE Admission -----------------------------
(***************************************************************************)
(* What the request scheduler promises, without its mechanism: at most     *)
(* Bound requests are in the house, at most Lanes of them execute, a       *)
(* request is turned away only when the house is full, and a request that  *)
(* was let in leaves exactly once.  Scheduler implements this              *)
(* specification with two tokio semaphores, detached tasks and channels.   *)
(***************************************************************************)
EXTENDS Naturals, FiniteSets

CONSTANTS
  Requests,   \* every request a client may ever send
  Lanes,      \* executions allowed at once
  Bound       \* requests allowed in the house, the executing ones included

VARIABLE
  place       \* where each request is

Outside   == "outside"
Refused   == "refused"
Queued    == "queued"
Executing == "executing"
Leaving   == "leaving"
Left      == "left"

At(places) == {r \in Requests : place[r] \in places}

Inside == At({Queued, Executing, Leaving})

Move(r, from, to) ==
  /\ place[r] = from
  /\ place' = [place EXCEPT ![r] = to]

Init == place = [r \in Requests |-> Outside]

Enter(r) ==
  /\ Cardinality(Inside) < Bound
  /\ Move(r, Outside, Queued)

TurnAway(r) ==
  /\ Cardinality(Inside) >= Bound
  /\ Move(r, Outside, Refused)

\* An execution starts.  The second disjunct is a lane changing hands: one
\* execution ends and the next one starts in the same instant.
Execute(r) ==
  /\ Cardinality(At({Executing})) < Lanes
  /\ Move(r, Queued, Executing)

HandOver(r, next) ==
  /\ place[r] = Executing
  /\ place[next] = Queued
  /\ place' = [place EXCEPT ![r] = Leaving, ![next] = Executing]

StopExecuting(r) == Move(r, Executing, Leaving)

GiveUp(r) == Move(r, Queued, Leaving)

Leave(r) == Move(r, Leaving, Left)

Next ==
  \E r \in Requests :
    \/ Enter(r) \/ TurnAway(r)
    \/ Execute(r) \/ StopExecuting(r)
    \/ \E next \in Requests : HandOver(r, next)
    \/ GiveUp(r) \/ Leave(r)

Spec == Init /\ [][Next]_place

=============================================================================
