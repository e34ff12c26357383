---------------------------- MODULE MCScheduler ----------------------------
(***************************************************************************)
(* Scheduler on a small instance: two lanes, three slots, three unary      *)
(* requests and one streamed one, so that lanes are shared, a request      *)
(* waits behind a full house and one is refused.  A client of either kind  *)
(* may leave at any moment, the others stay; the channel holds one event,  *)
(* so that a worker and the error report of its task both meet a full      *)
(* channel.                                                                *)
(***************************************************************************)
EXTENDS Scheduler

CONSTANTS u1, u2, u3, s1

MCRequests == {u1, u2, u3, s1}
MCStreams  == {s1}
MCLeavers  == {u1, s1}
=============================================================================
