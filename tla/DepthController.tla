--------------------------- MODULE DepthController ---------------------------
(***************************************************************************)
(* How many tokens a round drafts.  One MtpController serves every request *)
(* of the engine: a round takes its depth under the controller's lock, is  *)
(* drafted and verified without it, and reports its acceptance under the   *)
(* lock again, so that rounds of other requests are observed in between.   *)
(* The moving average counts in units of 1/Scale and is rounded down; the  *)
(* program rounds it to f32.                                               *)
(* Source: src/src/mtp.rs (MtpController), src/src/native.rs               *)
(* (generate_mtp).                                                         *)
(*                                                                         *)
(* A definition named D_Error is D with that error in it: no part of the   *)
(* specification, but what its properties are tried against.               *)
(***************************************************************************)
EXTENDS Integers

CONSTANTS
  Requests,              \* requests that speculate
  Depths,                \* draft limits the engine may be started with
  Budgets,               \* tokens a request may have left when a round starts
  Scale,                 \* units of the average, so many that every acceptance is a whole one
  Observations           \* bound: observed rounds

ASSUME ParametersAssumption ==
  /\ Depths \subseteq 1..8 /\ Budgets \subseteq Nat /\ Observations \in Nat
  /\ Scale \in Nat /\ Scale >= 840 /\ \A d \in 1..8 : Scale = d * (Scale \div d)

VARIABLES
  controller,            \* the MtpController, and how many rounds it has observed
  round,                 \* [request -> its round under way, or NoRound]
  highs, lows            \* history: the last observed rounds that were fully accepted, fully rejected

vars == <<controller, round, highs, lows>>

None == -1

Smaller(a, b) == IF a <= b THEN a ELSE b

NoRound == [pc |-> "none", remaining |-> 0, draft_count |-> 0, accepted |-> 0]

(* MtpController::new: from one token to the limit, and the limit at first. *)
Init ==
  /\ \E max_depth \in Depths :
       controller = [min_depth |-> 1, max_depth |-> max_depth, current_depth |-> max_depth,
                     acceptance_ema |-> None, observed |-> 0]
  /\ round = [q \in Requests |-> NoRound]
  /\ highs = 0 /\ lows = 0

---------------------------------------------------------------------------
(* A round of generate_mtp: recommended_depth, cut so that the bonus token  *)
(* of the target still fits.  The last token is left to the normal path.    *)
DraftCount_NoRoomForBonus(remaining) ==
  Smaller(controller.current_depth, Smaller(controller.max_depth, remaining))

DraftCount(remaining) ==
  Smaller(controller.current_depth, Smaller(controller.max_depth, remaining - 1))

StartRound(q) ==
  /\ round[q] = NoRound
  /\ \E remaining \in Budgets \ {0, 1} :
       /\ DraftCount(remaining) > 0
       /\ round' = [round EXCEPT ![q] = [pc |-> "drafted", remaining |-> remaining,
                                         draft_count |-> DraftCount(remaining), accepted |-> 0]]
  /\ UNCHANGED <<controller, highs, lows>>

(* The target accepts some of the drafts.  The request may end there, at a  *)
(* stop or at its budget, and such a round is not observed.                 *)
Verify(q) ==
  /\ round[q].pc = "drafted"
  /\ \E accepted \in 0..round[q].draft_count :
       \/ round' = [round EXCEPT ![q] = NoRound]
       \/ /\ accepted + 1 < round[q].remaining
          /\ round' = [round EXCEPT ![q].pc = "verified", ![q].accepted = accepted]
  /\ UNCHANGED <<controller, highs, lows>>

(* MtpController::observe. *)
Average(proposed, accepted) ==
  LET acceptance == accepted * (Scale \div proposed)
      previous   == controller.acceptance_ema
  IN  IF previous = None THEN acceptance ELSE (3 * previous + acceptance) \div 4

High(ema) == 5 * ema >= 4 * Scale
Low(ema)  == 20 * ema <= 9 * Scale

NextDepth_Unlimited(ema) ==
  CASE High(ema) -> controller.current_depth + 1
    [] Low(ema)  -> controller.current_depth - 1
    [] OTHER     -> controller.current_depth

NextDepth_NeverLowered(ema) ==
  IF High(ema) /\ controller.current_depth < controller.max_depth
  THEN controller.current_depth + 1
  ELSE controller.current_depth

NextDepth(ema) ==
  CASE High(ema) /\ controller.current_depth < controller.max_depth -> controller.current_depth + 1
    [] Low(ema)  /\ controller.current_depth > controller.min_depth -> controller.current_depth - 1
    [] OTHER -> controller.current_depth

Observe(q) ==
  LET r   == round[q]
      ema == Average(r.draft_count, r.accepted)
  IN  /\ r.pc = "verified" /\ controller.observed < Observations
      /\ controller' = [controller EXCEPT !.acceptance_ema = ema, !.current_depth = NextDepth(ema),
                                          !.observed = @ + 1]
      /\ highs' = IF r.accepted = r.draft_count THEN highs + 1 ELSE 0
      /\ lows'  = IF r.accepted = 0 THEN lows + 1 ELSE 0
      /\ round' = [round EXCEPT ![q] = NoRound]

Next == \E q \in Requests : StartRound(q) \/ Verify(q) \/ Observe(q)

Spec == Init /\ [][Next]_vars

---------------------------------------------------------------------------
(* The depth stays between one token and the limit the engine was started   *)
(* with, and the average is one: otherwise a request would stop drafting    *)
(* for good, or propose more than its buffers are made for.                 *)
TypeOK ==
  /\ controller.current_depth \in controller.min_depth..controller.max_depth
  /\ None <= controller.acceptance_ema /\ controller.acceptance_ema <= Scale
  /\ (controller.acceptance_ema = None) <=> (controller.observed = 0)
  /\ \A q \in Requests : round[q].pc \in {"none", "drafted", "verified"}

(* Whatever the other requests do to the depth while a round runs, all of   *)
(* its drafts and the bonus token fit into the request's budget, and what   *)
(* it reports is an acceptance the controller takes (observe fails the      *)
(* request otherwise, after its tokens were sent).                          *)
RoundFits ==
  \A q \in Requests :
    LET r == round[q]
    IN  r /= NoRound => /\ r.draft_count \in 1..controller.max_depth
                        /\ r.draft_count + 1 <= r.remaining
                        /\ r.accepted <= r.draft_count

(* The controller forgets: whatever it saw before and of whichever requests, *)
(* the third rejected round in succession lowers the depth and so does every *)
(* further one, and from the sixth accepted one on each raises it.           *)
Adapts ==
  /\ lows >= 3  => controller.current_depth = 1 \/ controller.current_depth <= controller.max_depth - (lows - 2)
  /\ highs >= 6 => controller.current_depth >= Smaller(controller.max_depth, highs - 4)
=============================================================================
