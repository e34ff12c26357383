------------------------ MODULE DepthControllerProofs ------------------------
(***************************************************************************)
(* DepthController for every set of requests, every limit of drafts and    *)
(* every number of rounds.  The invariant bounds the average by the length *)
(* of the run of rejected rounds, and its distance from 1 by the length of *)
(* the run of accepted ones: each round takes away a quarter of it, up to  *)
(* the rounding.                                                           *)
(***************************************************************************)
EXTENDS DepthController, TLAPS

Ema  == controller.acceptance_ema
Gap  == Scale - Ema                \* how far the average is from full acceptance

RoundType ==
  [pc : {"none", "drafted", "verified"}, remaining : Nat, draft_count : Nat, accepted : Nat]

Types ==
  /\ controller \in [min_depth : {1}, max_depth : 1..8, current_depth : 1..8,
                     acceptance_ema : Int, observed : Nat]
  /\ round \in [Requests -> RoundType]
  /\ highs \in Nat /\ lows \in Nat
  /\ controller.current_depth <= controller.max_depth
  /\ None <= Ema /\ Ema <= Scale
  /\ (Ema = None) <=> (controller.observed = 0)
  /\ Ema = None => highs = 0 /\ lows = 0

LowBound ==
  /\ lows >= 1 => 4 * Ema <= 3 * Scale
  /\ lows >= 2 => 16 * Ema <= 9 * Scale
  /\ lows >= 3 => 64 * Ema <= 27 * Scale

HighBound ==
  /\ highs >= 1 => 4 * Gap <= 3 * Scale + 3
  /\ highs >= 2 => 16 * Gap <= 9 * Scale + 21
  /\ highs >= 3 => 64 * Gap <= 27 * Scale + 111
  /\ highs >= 4 => 256 * Gap <= 81 * Scale + 525
  /\ highs >= 5 => 1024 * Gap <= 243 * Scale + 2343
  /\ highs >= 6 => 4096 * Gap <= 729 * Scale + 10101

IInv == Types /\ RoundFits /\ LowBound /\ HighBound /\ Adapts

-----------------------------------------------------------------------------
(* Sharing out Scale among the drafts of a round: none of it for a rejected *)
(* round, all of it for an accepted one.                                    *)
LEMMA AcceptanceShare ==
  ASSUME NEW p \in 1..8, NEW a \in 0..p
  PROVE  /\ a * (Scale \div p) \in 0..Scale
         /\ a = 0 => a * (Scale \div p) = 0
         /\ a = p => a * (Scale \div p) = Scale
<1> DEFINE share == Scale \div p
<1>1. share \in Nat /\ Scale = p * share
  BY ParametersAssumption, Z3
<1>2. a * share \in Nat /\ a * share <= p * share
  <2> HIDE DEF share
  <2> SUFFICES ASSUME share \in Nat
               PROVE  a * share \in Nat /\ a * share <= p * share
    BY <1>1
  <2>1. \E d \in Nat : p = a + d
    BY Z3
  <2>2. PICK d \in Nat : p = a + d
    BY <2>1
  <2>3. p * share = a * share + d * share
    BY <2>2, Z3
  <2>4. a * share \in Nat /\ d * share \in Nat
    BY Z3
  <2> QED
    BY <2>3, <2>4, Z3
<1>3. Scale \in Nat
  BY ParametersAssumption
<1> HIDE DEF share
<1>4. a * share \in 0..Scale
  BY <1>1, <1>2, <1>3, Z3
<1>5. (a = 0 => a * share = 0) /\ (a = p => a * share = Scale)
  BY <1>1, Z3
<1> QED
  BY <1>4, <1>5 DEF share

-----------------------------------------------------------------------------
LEMMA InitIInv == Init => IInv
<1> SUFFICES ASSUME Init PROVE IInv
  OBVIOUS
<1>1. PICK max_depth \in Depths :
        controller = [min_depth |-> 1, max_depth |-> max_depth, current_depth |-> max_depth,
                      acceptance_ema |-> None, observed |-> 0]
  BY DEF Init
<1>2. max_depth \in 1..8 /\ Scale \in Nat
  BY ParametersAssumption
<1>3. Types
  <2>1. NoRound \in RoundType
    BY DEF NoRound, RoundType
  <2> QED
    BY <1>1, <1>2, <2>1 DEF Init, Types, Ema, None
<1>4. RoundFits /\ LowBound /\ HighBound /\ Adapts
  BY DEF Init, RoundFits, LowBound, HighBound, Adapts
<1> QED
  BY <1>3, <1>4 DEF IInv

(* Starting a round: its size depends on the depth of the moment alone. *)
LEMMA StartRoundIInv ==
  ASSUME IInv, NEW q \in Requests, StartRound(q)
  PROVE  IInv'
<1>1. PICK remaining \in Budgets \ {0, 1} :
        /\ DraftCount(remaining) > 0
        /\ round' = [round EXCEPT ![q] = [pc |-> "drafted", remaining |-> remaining,
                                          draft_count |-> DraftCount(remaining), accepted |-> 0]]
  BY DEF StartRound
<1>2. UNCHANGED <<controller, highs, lows>>
  BY DEF StartRound
<1>3. remaining \in Nat /\ remaining > 1
  BY ParametersAssumption
<1>4. /\ controller.current_depth \in 1..8 /\ controller.max_depth \in 1..8
      /\ round \in [Requests -> RoundType]
  BY DEF IInv, Types
<1>5. DraftCount(remaining) \in 1..controller.max_depth /\ DraftCount(remaining) + 1 <= remaining
  BY <1>1, <1>3, <1>4 DEF DraftCount, Smaller
<1>6. DraftCount(remaining) \in Nat
  BY <1>4, <1>5
<1> HIDE DEF DraftCount
<1>7. round' \in [Requests -> RoundType]
  BY <1>1, <1>3, <1>4, <1>6 DEF RoundType
<1>8. Types'
  BY <1>2, <1>7 DEF IInv, Types, Ema
<1>9. RoundFits'
  <2> SUFFICES ASSUME NEW o \in Requests, round'[o] /= NoRound
               PROVE  /\ round'[o].draft_count \in 1..controller.max_depth
                      /\ round'[o].draft_count + 1 <= round'[o].remaining
                      /\ round'[o].accepted <= round'[o].draft_count
    BY <1>2 DEF RoundFits
  <2>1. CASE o = q
    BY <1>1, <1>4, <1>5, <1>6, <2>1
  <2>2. CASE o /= q
    BY <1>1, <1>4, <2>2 DEF IInv, RoundFits
  <2> QED
    BY <2>1, <2>2
<1>10. (LowBound /\ HighBound /\ Adapts)'
  BY <1>2 DEF IInv, LowBound, HighBound, Adapts, Ema, Gap
<1> QED
  BY <1>8, <1>9, <1>10 DEF IInv

(* Verification ends a round or notes how much of it was accepted. *)
LEMMA VerifyIInv ==
  ASSUME IInv, NEW q \in Requests, Verify(q)
  PROVE  IInv'
<1>1. UNCHANGED <<controller, highs, lows>> /\ round[q].pc = "drafted"
  BY DEF Verify
<1>2. PICK accepted \in 0..round[q].draft_count :
        \/ round' = [round EXCEPT ![q] = NoRound]
        \/ round' = [round EXCEPT ![q].pc = "verified", ![q].accepted = accepted]
  BY DEF Verify
<1>3. /\ controller.current_depth \in 1..8 /\ controller.max_depth \in 1..8
      /\ round \in [Requests -> RoundType]
  BY DEF IInv, Types
<1>4. round[q].draft_count \in Nat /\ accepted \in Nat
  BY <1>3 DEF RoundType
<1>5. NoRound \in RoundType
  BY DEF NoRound, RoundType
<1>6. round' \in [Requests -> RoundType]
  <2>1. [round[q] EXCEPT !.pc = "verified", !.accepted = accepted] \in RoundType
    BY <1>3, <1>4 DEF RoundType
  <2> QED
    BY <1>2, <1>3, <1>5, <2>1
<1>7. Types'
  BY <1>1, <1>6 DEF IInv, Types, Ema
<1>8. RoundFits'
  <2> SUFFICES ASSUME NEW o \in Requests, round'[o] /= NoRound
               PROVE  /\ round'[o].draft_count \in 1..controller.max_depth
                      /\ round'[o].draft_count + 1 <= round'[o].remaining
                      /\ round'[o].accepted <= round'[o].draft_count
    BY <1>1 DEF RoundFits
  <2>1. CASE o = q
    <3>1. round' = [round EXCEPT ![q].pc = "verified", ![q].accepted = accepted]
      BY <1>2, <1>3, <2>1
    <3>2. /\ round'[q].draft_count = round[q].draft_count
          /\ round'[q].remaining = round[q].remaining
          /\ round'[q].accepted = accepted
      BY <1>3, <3>1 DEF RoundType
    <3>3. round[q] /= NoRound
      BY <1>1 DEF NoRound
    <3> QED
      BY <1>2, <1>4, <2>1, <3>2, <3>3 DEF IInv, RoundFits
  <2>2. CASE o /= q
    BY <1>2, <1>3, <2>2 DEF IInv, RoundFits
  <2> QED
    BY <2>1, <2>2
<1>9. (LowBound /\ HighBound /\ Adapts)'
  BY <1>1 DEF IInv, LowBound, HighBound, Adapts, Ema, Gap
<1> QED
  BY <1>7, <1>8, <1>9 DEF IInv

-----------------------------------------------------------------------------
(* A quarter of the new acceptance and three of the old average, rounded    *)
(* down to a unit.                                                          *)
LEMMA QuarterStep ==
  ASSUME NEW old \in 0..Scale, NEW new \in 0..Scale
  PROVE  LET mean == (3 * old + new) \div 4
         IN  mean \in 0..Scale /\ 4 * mean <= 3 * old + new /\ 3 * old + new <= 4 * mean + 3
<1>1. Scale \in Nat
  BY ParametersAssumption
<1> QED
  BY <1>1, Z3

(* What a round does to the average. *)
LEMMA AverageStep ==
  ASSUME Types, NEW p \in 1..8, NEW a \in 0..p
  PROVE  /\ Average(p, a) \in 0..Scale
         /\ Ema = None => (a = 0 => Average(p, a) = 0) /\ (a = p => Average(p, a) = Scale)
         /\ Ema /= None => /\ a = 0 => 4 * Average(p, a) <= 3 * Ema
                           /\ a = p => 4 * (Scale - Average(p, a)) <= 3 * Gap + 3
<1> DEFINE acceptance == a * (Scale \div p)
<1>1. /\ acceptance \in 0..Scale
      /\ a = 0 => acceptance = 0
      /\ a = p => acceptance = Scale
  BY AcceptanceShare
<1>2. Scale \in Nat
  BY ParametersAssumption
<1>3. Average(p, a) = IF Ema = None THEN acceptance ELSE (3 * Ema + acceptance) \div 4
  BY DEF Average, Ema
<1> HIDE DEF acceptance
<1>4. CASE Ema = None
  BY <1>1, <1>3, <1>4
<1>5. CASE Ema /= None
  <2>1. Ema \in 0..Scale
    BY <1>2, <1>5 DEF Types, None, Ema
  <2> DEFINE mean == (3 * Ema + acceptance) \div 4
  <2>2. mean \in 0..Scale /\ 4 * mean <= 3 * Ema + acceptance /\ 3 * Ema + acceptance <= 4 * mean + 3
    BY <1>1, <2>1, QuarterStep
  <2>3. Average(p, a) = mean
    BY <1>3, <1>5
  <2> HIDE DEF mean
  <2>4. a = 0 => 4 * mean <= 3 * Ema
    BY <1>1, <2>1, <2>2
  <2>5. a = p => 4 * (Scale - mean) <= 3 * (Scale - Ema) + 3
    BY <1>1, <1>2, <2>1, <2>2
  <2> QED
    BY <1>5, <2>2, <2>3, <2>4, <2>5 DEF Gap
<1> QED
  BY <1>4, <1>5

(* The depth follows the average by one, inside its limits. *)
LEMMA NextDepthStep ==
  ASSUME Types, NEW ema \in 0..Scale
  PROVE  /\ NextDepth(ema) \in 1..controller.max_depth
         /\ Low(ema) => NextDepth(ema) = 1 \/ NextDepth(ema) = controller.current_depth - 1
         /\ High(ema) => \/ NextDepth(ema) = controller.max_depth
                         \/ NextDepth(ema) = controller.current_depth + 1
<1>1. Scale \in Nat /\ Scale > 0
  BY ParametersAssumption
<1>2. /\ controller.current_depth \in 1..8 /\ controller.max_depth \in 1..8
      /\ controller.current_depth <= controller.max_depth /\ controller.min_depth = 1
  BY DEF Types
<1>3. ~(High(ema) /\ Low(ema))
  BY <1>1 DEF High, Low
<1>4. NextDepth(ema) =
        IF High(ema) /\ controller.current_depth < controller.max_depth
        THEN controller.current_depth + 1
        ELSE IF Low(ema) /\ controller.current_depth > controller.min_depth
             THEN controller.current_depth - 1
             ELSE controller.current_depth
  BY <1>3 DEF NextDepth
<1>5. CASE High(ema)
  BY <1>2, <1>3, <1>4, <1>5
<1>6. CASE Low(ema)
  BY <1>2, <1>3, <1>4, <1>6
<1>7. CASE ~High(ema) /\ ~Low(ema)
  BY <1>2, <1>4, <1>7
<1> QED
  BY <1>5, <1>6, <1>7

(* An observed round: the only step that moves the average and the depth,   *)
(* and the bounds on the average are what makes the depth follow.           *)
LEMMA ObserveIInv ==
  ASSUME IInv, NEW q \in Requests, Observe(q)
  PROVE  IInv'
<1> DEFINE p   == round[q].draft_count
           a   == round[q].accepted
           ema == Average(p, a)
<1>1. /\ round[q].pc = "verified"
      /\ controller' = [controller EXCEPT !.acceptance_ema = ema, !.current_depth = NextDepth(ema),
                                          !.observed = @ + 1]
      /\ highs' = IF a = p THEN highs + 1 ELSE 0
      /\ lows'  = IF a = 0 THEN lows + 1 ELSE 0
      /\ round' = [round EXCEPT ![q] = NoRound]
  BY DEF Observe
<1>2. Types /\ RoundFits /\ LowBound /\ HighBound /\ Adapts
  BY DEF IInv
<1>3. /\ round \in [Requests -> RoundType]
      /\ controller \in [min_depth : {1}, max_depth : 1..8, current_depth : 1..8,
                         acceptance_ema : Int, observed : Nat]
      /\ highs \in Nat /\ lows \in Nat
      /\ Scale \in Nat /\ Scale >= 840
  BY <1>2, ParametersAssumption DEF Types
<1>4. round[q] /= NoRound
  BY <1>1 DEF NoRound
<1>5. p \in 1..8 /\ a \in 0..p
  <2>1. p \in 1..controller.max_depth /\ a <= p
    BY <1>2, <1>4 DEF RoundFits
  <2>2. a \in Nat
    BY <1>3 DEF RoundType
  <2> QED
    BY <1>3, <2>1, <2>2
<1>6. /\ ema \in 0..Scale
      /\ Ema = None => (a = 0 => ema = 0) /\ (a = p => ema = Scale)
      /\ Ema /= None => (a = 0 => 4 * ema <= 3 * Ema) /\ (a = p => 4 * (Scale - ema) <= 3 * Gap + 3)
  BY <1>2, <1>5, AverageStep
<1> HIDE DEF ema
<1>7. /\ NextDepth(ema) \in 1..controller.max_depth
      /\ Low(ema) => NextDepth(ema) = 1 \/ NextDepth(ema) = controller.current_depth - 1
      /\ High(ema) => \/ NextDepth(ema) = controller.max_depth
                      \/ NextDepth(ema) = controller.current_depth + 1
  BY <1>2, <1>6, NextDepthStep
<1> DEFINE depth == NextDepth(ema)
<1>8. /\ Ema' = ema /\ Gap' = Scale - ema
      /\ controller'.current_depth = depth /\ controller'.max_depth = controller.max_depth
      /\ controller'.min_depth = controller.min_depth
      /\ controller'.observed = controller.observed + 1
  BY <1>1, <1>3 DEF Ema, Gap
<1> HIDE DEF depth
<1>9. depth \in 1..controller.max_depth /\ depth \in 1..8
  BY <1>3, <1>7 DEF depth
<1>10. Types'
  <2>1. NoRound \in RoundType
    BY DEF NoRound, RoundType
  <2>2. round' \in [Requests -> RoundType]
    BY <1>1, <1>3, <2>1
  <2>3. controller' \in [min_depth : {1}, max_depth : 1..8, current_depth : 1..8,
                         acceptance_ema : Int, observed : Nat]
    <3> DEFINE Controller == [min_depth : {1}, max_depth : 1..8, current_depth : 1..8,
                              acceptance_ema : Int, observed : Nat]
               c1 == [controller EXCEPT !.acceptance_ema = ema]
               c2 == [c1 EXCEPT !.current_depth = depth]
               c3 == [c2 EXCEPT !.observed = controller.observed + 1]
    <3>1. controller' = c3
      BY <1>1 DEF depth
    <3>2. c1 \in Controller
      BY <1>3, <1>6
    <3> HIDE DEF c1
    <3>3. c2 \in Controller
      BY <1>9, <3>2
    <3> HIDE DEF c2
    <3>4. c3 \in Controller
      BY <1>3, <3>3
    <3> QED
      BY <3>1, <3>4
  <2>4. highs' \in Nat /\ lows' \in Nat
    BY <1>1, <1>3
  <2>5. Ema' /= None /\ None <= Ema' /\ Ema' <= Scale /\ controller'.observed /= 0
    BY <1>3, <1>6, <1>8 DEF None
  <2> QED
    BY <1>8, <1>9, <2>2, <2>3, <2>4, <2>5 DEF Types, None
<1>11. RoundFits'
  <2> SUFFICES ASSUME NEW o \in Requests, round'[o] /= NoRound
               PROVE  /\ round'[o].draft_count \in 1..controller.max_depth
                      /\ round'[o].draft_count + 1 <= round'[o].remaining
                      /\ round'[o].accepted <= round'[o].draft_count
    BY <1>8 DEF RoundFits
  <2>1. o /= q /\ round'[o] = round[o]
    BY <1>1, <1>3
  <2> QED
    BY <1>2, <2>1 DEF RoundFits
<1>12. Ema = None \/ Ema \in 0..Scale
  BY <1>2, <1>3 DEF Types, Ema, None
<1>13. Ema = None => highs = 0 /\ lows = 0
  BY <1>2 DEF Types
<1>14. LowBound'
  <2> SUFFICES ASSUME a = 0, lows' = lows + 1
               PROVE  /\ lows + 1 >= 1 => 4 * ema <= 3 * Scale
                      /\ lows + 1 >= 2 => 16 * ema <= 9 * Scale
                      /\ lows + 1 >= 3 => 64 * ema <= 27 * Scale
    BY <1>1, <1>8 DEF LowBound
  <2>1. CASE Ema = None
    BY <1>3, <1>6, <2>1
  <2>2. CASE Ema /= None
    BY <1>2, <1>3, <1>6, <1>12, <2>2 DEF LowBound
  <2> QED
    BY <2>1, <2>2
<1>15. HighBound'
  <2> SUFFICES ASSUME a = p, highs' = highs + 1
               PROVE  HighBound'
    BY <1>1 DEF HighBound
  <2> DEFINE gap == Scale - ema
  <2>1. gap \in 0..Scale /\ Gap' = gap
    BY <1>3, <1>6, <1>8
  <2>2. CASE Ema = None
    <3>1. gap = 0 /\ highs' = 1
      BY <1>3, <1>6, <1>13, <2>2
    <3> QED
      BY <1>3, <2>1, <3>1 DEF HighBound
  <2>3. CASE Ema /= None
    <3>1. 4 * gap <= 3 * Gap + 3 /\ Gap \in 0..Scale
      BY <1>3, <1>6, <1>12, <2>3 DEF Gap
    <3> HIDE DEF gap
    <3> QED
      BY <1>2, <1>3, <2>1, <3>1 DEF HighBound
  <2> QED
    BY <2>2, <2>3
<1>16. Adapts'
  <2>1. lows' >= 3 => depth = 1 \/ depth <= controller.max_depth - (lows' - 2)
    <3> SUFFICES ASSUME lows' >= 3
                 PROVE  depth = 1 \/ depth <= controller.max_depth - (lows' - 2)
      OBVIOUS
    <3>1. lows' = lows + 1 /\ lows >= 2
      BY <1>1, <1>3
    <3>2. 64 * ema <= 27 * Scale
      BY <1>8, <1>14 DEF LowBound
    <3>3. Low(ema)
      BY <1>3, <1>6, <3>2 DEF Low
    <3>4. depth = 1 \/ depth = controller.current_depth - 1
      BY <1>7, <3>3 DEF depth
    <3>5. /\ controller.current_depth <= controller.max_depth
          /\ lows >= 3 => \/ controller.current_depth = 1
                          \/ controller.current_depth <= controller.max_depth - (lows - 2)
      BY <1>2 DEF Types, Adapts
    <3> QED
      BY <1>3, <1>9, <3>1, <3>4, <3>5
  <2>2. highs' >= 6 => depth >= Smaller(controller.max_depth, highs' - 4)
    <3> SUFFICES ASSUME highs' >= 6
                 PROVE  depth >= Smaller(controller.max_depth, highs' - 4)
      OBVIOUS
    <3>1. highs' = highs + 1 /\ highs >= 5
      BY <1>1, <1>3
    <3>2. 4096 * (Scale - ema) <= 729 * Scale + 10101
      BY <1>8, <1>15 DEF HighBound
    <3>3. High(ema)
      BY <1>3, <1>6, <3>2 DEF High
    <3>4. depth = controller.max_depth \/ depth = controller.current_depth + 1
      BY <1>7, <3>3 DEF depth
    <3>5. /\ controller.current_depth >= 1
          /\ highs >= 6 => controller.current_depth >= Smaller(controller.max_depth, highs - 4)
      BY <1>2, <1>3 DEF Adapts
    <3> QED
      BY <1>3, <1>9, <3>1, <3>4, <3>5 DEF Smaller
  <2> QED
    BY <1>8, <2>1, <2>2 DEF Adapts
<1> QED
  BY <1>10, <1>11, <1>14, <1>15, <1>16 DEF IInv

LEMMA StutterIInv ==
  ASSUME IInv, UNCHANGED vars
  PROVE  IInv'
BY DEF vars, IInv, Types, RoundFits, LowBound, HighBound, Adapts, Ema, Gap

-----------------------------------------------------------------------------
(* The invariant holds in every state, however many requests speculate.     *)
THEOREM Invariance == Spec => []IInv
<1>1. IInv /\ [Next]_vars => IInv'
  <2> SUFFICES ASSUME IInv, [Next]_vars PROVE IInv'
    OBVIOUS
  <2>1. CASE \E q \in Requests : StartRound(q) \/ Verify(q) \/ Observe(q)
    BY <2>1, StartRoundIInv, VerifyIInv, ObserveIInv
  <2>2. CASE UNCHANGED vars
    BY <2>2, StutterIInv
  <2> QED
    BY <2>1, <2>2 DEF Next
<1> QED
  BY <1>1, InitIInv, PTL DEF Spec

(* MtpController::observe never takes the depth out of its range, nor the   *)
(* average above 1.                                                         *)
THEOREM DepthInRange == Spec => []TypeOK
<1>1. IInv => TypeOK
  <2> SUFFICES ASSUME IInv PROVE TypeOK
    OBVIOUS
  <2>1. \A q \in Requests : round[q].pc \in {"none", "drafted", "verified"}
    BY DEF IInv, Types, RoundType
  <2>2. controller.current_depth \in controller.min_depth..controller.max_depth
    BY DEF IInv, Types
  <2> QED
    BY <2>1, <2>2 DEF IInv, Types, TypeOK, Ema
<1> QED
  BY <1>1, Invariance, PTL

(* A round of generate_mtp fits into its request's budget and is accepted   *)
(* by observe, whatever became of the shared depth since it was read.       *)
THEOREM RoundsFit == Spec => []RoundFits
<1>1. IInv => RoundFits
  BY DEF IInv
<1> QED
  BY <1>1, Invariance, PTL

(* The depth follows the last rounds of all requests within three rejected  *)
(* or six accepted ones, for every length of the history before them.       *)
THEOREM DepthAdapts == Spec => []Adapts
<1>1. IInv => Adapts
  BY DEF IInv
<1> QED
  BY <1>1, Invariance, PTL
=============================================================================
