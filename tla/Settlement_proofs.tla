------------------------- MODULE Settlement_proofs -------------------------
(***************************************************************************)
(* Theorems about the settlement and the refund, for any runners that      *)
(* drain any of the sagas, any price and any amounts, and any number of    *)
(* requests, decisions and faults.                                         *)
(*                                                                         *)
(* None of the properties is inductive.  What carries them is the log,     *)
(* which only grows: a leg that has come as far as its call has its        *)
(* trigger in it (LegInv), the state of the intent is what the reports say *)
(* that are on their way or recorded (Reports), and a delivery in hand     *)
(* still acts on the run it expected, unless a leg reopened it (RunInv).   *)
(* That every step is one of the escrow needs to know further that what is *)
(* on record of a refund, or about to be, was refunded (EscrowInv).        *)
(***************************************************************************)
EXTENDS Settlement, Integers, WellFoundedInduction, FiniteSetTheorems, TLAPS

AtMostOne(types) == \A i, j \in Positions(types) : i = j

Settlings == {"PaymentCaptured", "PaymentReleased"}
Decisions == {"RefundApproved", "RefundDenied"}
OnceFacts == {"PaymentCaptureFailed", "RefundOpened"} \union Settlings

\* The delivery in hand is of a message, and only approvals call Stripe.
LaneInv ==
  /\ \A i \in DOMAIN lane : lane[i].type = "ApproveRefund" => lane[i].amount \in Amounts
  /\ delivery # "idle" => lane # <<>>
  /\ delivery = "call" => Head(lane).type = "ApproveRefund"

\* A leg in hand has triggers of its own saga behind it in the log.
LegInv ==
  \A r \in Runners :
    /\ leg[r].at # "idle" =>
         \A i \in {leg[r].pos} \union leg[r].rest :
           i \in DOMAIN log /\ log[i].type \in Triggers[leg[r].saga]
    /\ leg[r].at \in {"call", "failed"} => leg[r].saga = "Settlement"

\* Stripe reports each change of the intent once, and the report is either on
\* its way or recorded.
Reports ==
  /\ \A f \in reported : f.type \in Settlings \union {"PaymentRefunded"}
  /\ \A t \in Settlings : \A f \in reported : f.type = t => f = Plain(t) /\ ~Recorded(t)
  /\ Plain("PaymentCaptured") \in reported \/ Recorded("PaymentCaptured") => intent = "captured"
  /\ Plain("PaymentReleased") \in reported \/ Recorded("PaymentReleased") => intent \in {"released", "expired"}

Once == \A t \in OnceFacts : AtMostOne({t})

\* A refund is opened, decided and seen through only of money captured, each
\* stage after the one before it is in the log.
RunInv ==
  /\ Recorded("RefundOpened") => intent = "captured"
  /\ \A r \in Runners : leg[r].at \in {"admit", "open", "upsert"} => intent = "captured"
  /\ \A r \in Runners : leg[r].at = "upsert" => Recorded("RefundOpened")
  /\ delivery # "idle" => Recorded("RefundOpened")
  /\ \A i \in DOMAIN lane : lane[i].type = "PaymentRefunded" => Recorded("PaymentRefunded")
  /\ delivery = "commit" /\ Head(lane).type = "PaymentRefunded" => Recorded("RefundApproved")
  /\ run = "APPROVED_AWAITING_SETTLEMENT" => Recorded("RefundApproved")
  /\ ~reopened /\ delivery # "idle" => run = Expected

\* An amount Stripe refunded, or is about to be asked for again, is approved
\* or is being approved.
Approving(a) ==
  \/ [type |-> "RefundApproved", amount |-> a] \in Range(log)
  \/ /\ lane # <<>>
     /\ Head(lane) = [type |-> "ApproveRefund", amount |-> a]
     /\ run = "PENDING_APPROVAL"

DecisionInv ==
  ~reopened /\ ~givenUp =>
    /\ AtMostOne(Decisions)
    /\ \A a \in refunds \union deposed : Approving(a)

SettlementInv ==
  /\ SettlementTypeOK
  /\ LaneInv
  /\ LegInv
  /\ MoneyFollowsOrder
  /\ Reports
  /\ Once
  /\ RunInv
  /\ RunFollowsLog
  /\ DecisionInv

-----------------------------------------------------------------------------
(***************************************************************************)
(* Least and greatest elements of sets of naturals, from the               *)
(* well-foundedness of < alone.                                            *)
(***************************************************************************)
\* A set of naturals that is not empty has a least element.
LEMMA MinExists ==
  ASSUME NEW T, T \subseteq Nat, T # {}
  PROVE  \E x \in T : \A y \in T : x <= y
<1> DEFINE R == OpToRel(<, Nat)
<1>1. IsWellFoundedOn(R, Nat)
  BY NatLessThanWellFounded
<1> HIDE DEF R
<1>2. PICK x \in T : \A y \in T : ~ (<<y, x>> \in R)
  BY <1>1, WFMin
<1>3. \A y \in T : y < x => <<y, x>> \in R
  BY DEF R, OpToRel
<1>4. \A y \in T : ~ (y < x)
  BY <1>2, <1>3
<1>5. \A y \in T : x <= y
  BY <1>4
<1> QED BY <1>5

\* If it is also bounded, it has a greatest one: the least distance from the
\* bound.
LEMMA MaxExists ==
  ASSUME NEW n \in Nat, NEW T, T \subseteq 0 .. n, T # {}
  PROVE  \E x \in T : \A y \in T : y <= x
<1> DEFINE U == {k \in 0 .. n : n - k \in T}
<1>1. PICK t \in T : TRUE
  OBVIOUS
<1>2. U \subseteq Nat /\ n - t \in U
  OBVIOUS
<1>3. PICK u \in U : \A v \in U : u <= v
  <2> HIDE DEF U
  <2> QED BY <1>2, MinExists
<1>4. \A y \in T : n - y \in U
  OBVIOUS
<1>5. \A y \in T : y <= n - u
  BY <1>3, <1>4
<1> QED BY <1>3, <1>5

-----------------------------------------------------------------------------
(***************************************************************************)
(* The log.                                                                *)
(***************************************************************************)
LogGrows == DOMAIN log \subseteq DOMAIN log' /\ \A i \in DOMAIN log : log'[i] = log[i]

LEMMA PlainIsFact == ASSUME NEW t \in FactTypes PROVE Plain(t) \in Fact
  BY SettlementAssumption DEF Plain, Fact

LEMMA RecordedIs ==
  ASSUME NEW t
  PROVE  Recorded(t) <=> \E i \in DOMAIN log : log[i].type = t
  BY DEF Recorded, Positions

LEMMA Appended ==
  ASSUME log \in Seq(Fact), NEW f \in Fact, log' = Append(log, f)
  PROVE  /\ log' \in Seq(Fact)
         /\ LogGrows
         /\ DOMAIN log' = DOMAIN log \union {Len(log) + 1}
         /\ Len(log) + 1 \notin DOMAIN log
         /\ log'[Len(log) + 1] = f
         /\ Len(log') = Len(log) + 1
  BY DEF LogGrows

LEMMA AppendPositions ==
  ASSUME log \in Seq(Fact), NEW f \in Fact, log' = Append(log, f), NEW types
  PROVE  Positions(types)' = Positions(types) \union (IF f.type \in types THEN {Len(log) + 1} ELSE {})
  BY Appended DEF Positions, LogGrows

LEMMA StillRecorded ==
  ASSUME LogGrows, NEW t, Recorded(t)
  PROVE  Recorded(t)'
  BY RecordedIs DEF LogGrows, Recorded, Positions

\* Whatever is appended unless it is there is there afterwards, or was.
LEMMA AppendUnlessRecordedGrows ==
  ASSUME log \in Seq(Fact), NEW f \in Fact, AppendUnlessRecorded(f)
  PROVE  log' \in Seq(Fact) /\ LogGrows
<1>1. CASE log' = log
  BY <1>1 DEF LogGrows
<1>2. CASE log' = Append(log, f)
  BY <1>2, Appended
<1> QED BY <1>1, <1>2 DEF AppendUnlessRecorded

-----------------------------------------------------------------------------
(***************************************************************************)
(* The legs.                                                               *)
(***************************************************************************)
LEMMA Goes ==
  ASSUME leg \in [Runners -> Leg], NEW r \in Runners, NEW step \in LegSteps, GoTo(r, step)
  PROVE  /\ leg' \in [Runners -> Leg]
         /\ leg'[r].at = step /\ leg'[r].saga = leg[r].saga
         /\ leg'[r].pos = leg[r].pos /\ leg'[r].rest = leg[r].rest
         /\ \A q \in Runners \ {r} : leg'[q] = leg[q]
<1>1. leg'[r] = [leg[r] EXCEPT !.at = step] /\ leg[r] \in Leg
  BY DEF GoTo
<1>2. leg'[r] \in Leg
  BY <1>1 DEF Leg
<1>3. /\ leg'[r].at = step /\ leg'[r].saga = leg[r].saga
      /\ leg'[r].pos = leg[r].pos /\ leg'[r].rest = leg[r].rest
  BY <1>1 DEF Leg
<1>4. leg' \in [Runners -> Leg] /\ \A q \in Runners \ {r} : leg'[q] = leg[q]
  BY <1>2 DEF GoTo
<1> QED BY <1>3, <1>4

LEMMA FirstOfIsLeg ==
  ASSUME NEW s \in Sagas, NEW T, T \subseteq Nat, T # {}
  PROVE  /\ FirstOf(s, T) \in Leg
         /\ FirstOf(s, T).saga = s /\ FirstOf(s, T).at = "read"
         /\ FirstOf(s, T).pos \in T /\ FirstOf(s, T).rest \subseteq T
<1>1. PICK x \in T : \A y \in T : x <= y
  BY MinExists
<1>2. Min(T) \in T
  BY <1>1 DEF Min
<1> QED BY <1>2 DEF FirstOf, Leg, LegSteps

LEMMA IdleLegIsLeg == IdleLeg \in Leg /\ IdleLeg.at = "idle"
  BY DEF IdleLeg, Leg, Sagas, LegSteps

LEMMA TriggersAre ==
  /\ Triggers["Settlement"] = Endings
  /\ Triggers["Refund"] = Aborts \union {"RefundRequested"}
  BY DEF Triggers

\* The triggers a leg selects are facts of the log that its saga listens to.
LEMMA PendingIsInLog ==
  ASSUME SettlementTypeOK, NEW s \in Sagas
  PROVE  /\ Pending(s) \subseteq Nat
         /\ \A i \in Pending(s) : i \in DOMAIN log /\ log[i].type \in Triggers[s]
  BY DEF SettlementTypeOK, Pending, Positions

-----------------------------------------------------------------------------
(***************************************************************************)
(* Types.                                                                  *)
(***************************************************************************)
LEMMA HeadIsMessage ==
  ASSUME SettlementTypeOK, LaneInv, lane # <<>>
  PROVE  /\ Head(lane) \in Message
         /\ Head(lane) = lane[1] /\ 1 \in DOMAIN lane
         /\ Head(lane).type = "ApproveRefund" => Head(lane).amount \in Amounts
         /\ Tail(lane) \in Seq(Message)
         /\ \A i \in DOMAIN Tail(lane) : i + 1 \in DOMAIN lane /\ Tail(lane)[i] = lane[i + 1]
  BY DEF SettlementTypeOK, LaneInv

LEMMA DecisionIsMessage ==
  ASSUME NEW m \in [type : {"ApproveRefund"}, amount : Amounts] \union {Plain("DenyRefund")}
  PROVE  m \in Message
<1>1. Amounts \subseteq 0 .. Price /\ 0 \in 0 .. Price
  BY SettlementAssumption
<1>2. \A a \in Amounts : [type |-> "ApproveRefund", amount |-> a] \in Message
  BY <1>1 DEF Message
<1>3. Plain("DenyRefund") \in Message
  BY <1>1 DEF Message, Plain
<1>4. CASE m \in [type : {"ApproveRefund"}, amount : Amounts]
  <2>1. m = [type |-> "ApproveRefund", amount |-> m.amount] /\ m.amount \in Amounts
    BY <1>4
  <2> QED BY <1>2, <2>1
<1> QED BY <1>3, <1>4

LEMMA RefundedIsFact ==
  ASSUME NEW a \in Amounts
  PROVE  [type |-> "PaymentRefunded", amount |-> a] \in Fact
  BY SettlementAssumption DEF Fact, FactTypes, PaymentFacts

LEMMA OrderFactType ==
  ASSUME SettlementTypeOK, NEW t \in FactTypes, AppendToOrder(t)
  PROVE  SettlementTypeOK'
<1>1. log' \in Seq(Fact)
  BY PlainIsFact, Appended DEF AppendToOrder, SettlementTypeOK
<1>2. {Len(log) + 1} \subseteq Nat /\ faults + 1 \in Nat
  BY DEF SettlementTypeOK
<1>3. late' \subseteq Nat /\ faults' \in Nat
  BY <1>2 DEF AppendToOrder, MayBeLate, Fault, SettlementTypeOK
<1> QED BY <1>1, <1>3 DEF AppendToOrder, SettlementTypeOK, stripeVars, laneVars, runnerVars, historyVars

\* The types, first over the legs' steps, then the lane's, then the others.
LEMMA LegTypeStep ==
  ASSUME SettlementTypeOK, LegInv, NEW r \in Runners,
         \/ Select(r) \/ ReadRow(r) \/ LegError(r) \/ CallStripe(r) \/ StripeRefuses(r)
         \/ CallTimesOut(r) \/ RecordCaptureFailed(r) \/ Admit(r) \/ OpenRefund(r)
         \/ UpsertRun(r) \/ CommitLeg(r) \/ CrashLeg(r)
  PROVE  SettlementTypeOK'
<1> USE DEF SettlementTypeOK, stripeVars, laneVars, runnerVars, historyVars
<1>1. leg[r] \in Leg /\ leg[r].pos \in Nat /\ leg[r].rest \subseteq Nat /\ leg[r].saga \in Sagas
  BY DEF Leg
<1>2. {leg[r].pos} \subseteq Nat
  BY <1>1
<1>3. CASE Select(r)
  <2>1. PICK s \in Drains[r] : Pending(s) # {} /\ leg' = [leg EXCEPT ![r] = FirstOf(s, Pending(s))]
    BY <1>3 DEF Select
  <2>2. s \in Sagas
    BY <2>1, SettlementAssumption
  <2>3. FirstOf(s, Pending(s)) \in Leg
    BY <2>1, <2>2, PendingIsInLog, FirstOfIsLeg
  <2> QED BY <1>3, <2>1, <2>3 DEF Select
<1>4. CASE ReadRow(r)
  <2>1. PICK step \in {"commit", "call", "admit"} : GoTo(r, step)
    BY <1>4 DEF ReadRow
  <2>2. leg' \in [Runners -> Leg]
    BY <2>1, Goes DEF LegSteps
  <2>3. unheard' \subseteq Nat
    BY <1>4, <1>2 DEF ReadRow, Unheard
  <2> QED BY <1>4, <2>2, <2>3 DEF ReadRow
<1>5. CASE LegError(r)
  <2>1. leg' \in [Runners -> Leg]
    BY <1>5, Goes DEF LegError, LegSteps
  <2>2. unheard' \subseteq Nat
    BY <1>5, <1>2 DEF LegError, Unheard
  <2>3. faults' \in Nat
    BY <1>5 DEF LegError, Fault
  <2> QED BY <1>5, <2>1, <2>2, <2>3 DEF LegError
<1>6. Plain("PaymentCaptured") \in Fact /\ Plain("PaymentReleased") \in Fact
  BY PlainIsFact DEF FactTypes, PaymentFacts
<1>7. Settled(r) \in {"captured", "released"} /\ SettledFact(r) \in Fact
  BY <1>6 DEF Settled, SettledFact
<1>8. CASE CallStripe(r)
  <2>1. leg' \in [Runners -> Leg]
    BY <1>8, Goes DEF CallStripe, LegSteps
  <2> QED BY <1>8, <1>7, <2>1 DEF CallStripe
<1>9. ASSUME CallEndsBadly(r) PROVE leg' \in [Runners -> Leg] /\ unheard' \subseteq Nat
  <2>1. PICK step \in {"commit", "failed"} : GoTo(r, step)
    BY <1>9 DEF CallEndsBadly
  <2>2. leg' \in [Runners -> Leg]
    BY <2>1, Goes DEF LegSteps
  <2> QED BY <1>9, <1>2, <2>2 DEF CallEndsBadly, Unheard
<1>10. CASE StripeRefuses(r)
  BY <1>9, <1>10 DEF StripeRefuses
<1>11. CASE CallTimesOut(r)
  <2>1. intent' \in {"held", "captured", "released", "expired"} /\ reported' \subseteq Fact
    BY <1>7, <1>11 DEF CallTimesOut
  <2> QED BY <1>9, <1>11, <2>1 DEF CallTimesOut, Fault
<1>12. CASE RecordCaptureFailed(r)
  <2>1. leg' \in [Runners -> Leg]
    BY <1>12, Goes DEF RecordCaptureFailed, LegSteps
  <2>2. log' \in Seq(Fact)
    BY <1>12, PlainIsFact, AppendUnlessRecordedGrows DEF RecordCaptureFailed, FactTypes, PaymentFacts
  <2> QED BY <1>12, <2>1, <2>2 DEF RecordCaptureFailed
<1>13. CASE Admit(r)
  <2>1. leg' \in [Runners -> Leg]
    BY <1>13, Goes DEF Admit, LegSteps
  <2> QED BY <1>13, <2>1 DEF Admit
<1>14. CASE OpenRefund(r)
  <2>1. leg' \in [Runners -> Leg]
    BY <1>14, Goes DEF OpenRefund, LegSteps
  <2>2. log' \in Seq(Fact)
    BY <1>14, PlainIsFact, AppendUnlessRecordedGrows DEF OpenRefund, FactTypes, PaymentFacts
  <2> QED BY <1>14, <2>1, <2>2 DEF OpenRefund
<1>15. CASE UpsertRun(r)
  <2>1. leg' \in [Runners -> Leg]
    BY <1>15, Goes DEF UpsertRun, LegSteps
  <2> QED BY <1>15, <2>1 DEF UpsertRun, RunStatuses
<1>16. CASE CommitLeg(r)
  <2>1. leg[r].rest # {} => FirstOf(leg[r].saga, leg[r].rest) \in Leg
    BY <1>1, FirstOfIsLeg
  <2>2. leg' \in [Runners -> Leg]
    BY <1>16, <2>1, IdleLegIsLeg DEF CommitLeg
  <2> QED BY <1>16, <1>1, <2>2 DEF CommitLeg
<1>17. CASE CrashLeg(r)
  BY <1>17, IdleLegIsLeg DEF CrashLeg, Fault
<1> QED BY <1>3, <1>4, <1>5, <1>8, <1>10, <1>11, <1>12, <1>13, <1>14, <1>15, <1>16, <1>17

LEMMA LaneTypeStep ==
  ASSUME SettlementTypeOK, LaneInv,
         SendDecision \/ ReadRun \/ CallRefund \/ CommitDelivery \/ Redeliver \/ DeposedCall \/ GiveUp
  PROVE  SettlementTypeOK'
<1> USE DEF SettlementTypeOK, stripeVars, laneVars, runnerVars, historyVars
<1>1. ASSUME NEW a \in Amounts, Refund(a)
      PROVE  refunds' \subseteq Amounts /\ reported' \subseteq Fact /\ UNCHANGED intent
  BY <1>1, RefundedIsFact DEF Refund
<1>2. CASE SendDecision
  <2>1. Amounts \subseteq 0 .. Price /\ 0 \in 0 .. Price
    BY SettlementAssumption
  <2>2. PICK m \in Message : lane' = Append(lane, m)
    BY <1>2, <2>1 DEF SendDecision, Message, Plain
  <2> QED BY <1>2, <2>2 DEF SendDecision
<1>3. CASE ReadRun
  BY <1>3, HeadIsMessage DEF ReadRun, EndDelivery
<1>4. CASE CallRefund
  <2>1. lane # <<>> /\ Head(lane).amount \in Amounts
    BY <1>4, HeadIsMessage DEF CallRefund, LaneInv
  <2>2. CASE Refundable(Head(lane).amount)
    BY <1>1, <1>4, <2>1, <2>2 DEF CallRefund
  <2>3. CASE ~Refundable(Head(lane).amount)
    BY <1>4, <2>1, <2>3, HeadIsMessage DEF CallRefund, EndDelivery
  <2> QED BY <2>2, <2>3
<1>5. CASE CommitDelivery
  <2>1. lane # <<>> /\ Head(lane) \in Message
    BY <1>5, HeadIsMessage DEF CommitDelivery, LaneInv
  <2>2. /\ [type |-> "RefundApproved", amount |-> Head(lane).amount] \in Fact
        /\ Plain("RefundDenied") \in Fact
    BY <2>1, PlainIsFact DEF Message, Fact, FactTypes, PaymentFacts
  <2>3. Head(lane).type \in {"ApproveRefund", "DenyRefund", "PaymentRefunded"}
    BY <2>1 DEF Message
  <2>4. log' \in Seq(Fact) /\ run' \in RunStatuses
    BY <1>5, <2>2, <2>3, AppendUnlessRecordedGrows DEF CommitDelivery, RunStatuses
  <2> QED BY <1>5, <2>1, <2>4, HeadIsMessage DEF CommitDelivery, EndDelivery
<1>6. CASE Redeliver
  <2>1. deposed' \subseteq Amounts
    BY <1>6, HeadIsMessage DEF Redeliver, LaneInv
  <2> QED BY <1>6, <2>1 DEF Redeliver, Fault
<1>7. CASE DeposedCall
  <2>1. PICK a \in deposed : /\ deposed' = deposed \ {a}
                             /\ IF Refundable(a) THEN Refund(a) ELSE UNCHANGED stripeVars
    BY <1>7 DEF DeposedCall
  <2>2. refunds' \subseteq Amounts /\ reported' \subseteq Fact /\ UNCHANGED intent
    BY <1>1, <2>1
  <2> QED BY <1>7, <2>1, <2>2 DEF DeposedCall
<1>8. CASE GiveUp
  BY <1>8, HeadIsMessage DEF GiveUp, EndDelivery, Fault, LaneInv
<1> QED BY <1>2, <1>3, <1>4, <1>5, <1>6, <1>7, <1>8

LEMMA WebhookTypeStep ==
  ASSUME SettlementTypeOK, Project \/ Expire \/ RecordFact
  PROVE  SettlementTypeOK'
<1> USE DEF SettlementTypeOK, stripeVars, laneVars, runnerVars, historyVars
<1>1. CASE Project
  BY <1>1 DEF Project
<1>2. CASE Expire
  <2>1. Plain("PaymentReleased") \in Fact
    BY PlainIsFact DEF FactTypes, PaymentFacts
  <2> QED BY <1>2, <2>1 DEF Expire
<1>3. CASE RecordFact
  <2>1. PICK f \in reported :
          /\ reported' = reported \ {f}
          /\ AppendUnlessRecorded(f)
          /\ lane' = IF f.type = "PaymentRefunded" THEN Append(lane, f) ELSE lane
    BY <1>3 DEF RecordFact
  <2>2. f \in Fact
    OBVIOUS
  <2>3. log' \in Seq(Fact)
    BY <2>1, <2>2, AppendUnlessRecordedGrows
  <2>4. f.type = "PaymentRefunded" => f \in Message
    BY <2>2 DEF Fact, Message
  <2>5. lane' \in Seq(Message)
    BY <2>1, <2>4
  <2> QED BY <1>3, <2>1, <2>3, <2>5 DEF RecordFact
<1> QED BY <1>1, <1>2, <1>3

\* The steps, as the proofs below take them.
LegActions(r) ==
  \/ Select(r) \/ ReadRow(r) \/ LegError(r) \/ CallStripe(r) \/ StripeRefuses(r)
  \/ CallTimesOut(r) \/ RecordCaptureFailed(r) \/ Admit(r) \/ OpenRefund(r)
  \/ UpsertRun(r) \/ CommitLeg(r) \/ CrashLeg(r)
LaneActions ==
  SendDecision \/ ReadRun \/ CallRefund \/ CommitDelivery \/ Redeliver \/ DeposedCall \/ GiveUp
\* Only the types say anything of the checkpoints and of what is late.
steadyVars == <<log, folded, run, faults, leg, unheard, stripeVars, laneVars, historyVars>>
OrderEvents == Endings \union {"OrderAcceptedByRestaurant", "RefundRequested"}

LEMMA EveryStep ==
  ASSUME [SettlementNext]_vars
  PROVE  \/ \E t \in OrderEvents : AppendToOrder(t) /\ (t \in Endings => Positions(Endings) = {})
         \/ \E r \in Runners : LegActions(r)
         \/ LaneActions
         \/ Project \/ Expire \/ RecordFact
         \/ UNCHANGED steadyVars /\ (UNCHANGED vars \/ \E r \in Runners : PassOver(r))
<1>1. AcceptOrder \/ RequestRefund =>
        \E t \in OrderEvents : AppendToOrder(t) /\ (t \in Endings => Positions(Endings) = {})
  BY DEF AcceptOrder, RequestRefund, OrderEvents, Endings
<1>2. IsPlaced => Positions(Endings) = {}
  BY DEF IsPlaced, Positions
<1>3. AbortPlacedOrder \/ EndAcceptedOrder =>
        \E t \in OrderEvents : AppendToOrder(t) /\ (t \in Endings => Positions(Endings) = {})
  BY <1>2 DEF AbortPlacedOrder, EndAcceptedOrder, IsAccepted, OrderEvents, Endings
<1>4. ASSUME NEW r \in Runners, RunnerSteps(r) \/ LegError(r) \/ CallTimesOut(r) \/ CrashLeg(r)
      PROVE  LegActions(r)
  BY <1>4 DEF RunnerSteps, LegActions
<1>5. ASSUME NEW r \in Runners, PassOver(r) PROVE UNCHANGED steadyVars
  BY <1>5 DEF PassOver, steadyVars, stripeVars, laneVars, historyVars
<1>6. UNCHANGED vars => UNCHANGED steadyVars
  BY DEF vars, steadyVars, runnerVars, stripeVars, laneVars, historyVars
<1> QED BY <1>1, <1>3, <1>4, <1>5, <1>6 DEF SettlementNext, LaneActions

\* Every step says where the checkpoints are, and what is late.
LEMMA PassOverTypeStep ==
  ASSUME SettlementTypeOK, NEW r \in Runners, PassOver(r)
  PROVE  SettlementTypeOK'
<1>1. PICK s \in Drains[r] : \E i \in Pending(s) : checkpoint' = [checkpoint EXCEPT ![s] = i]
  BY DEF PassOver
<1>2. s \in Sagas
  BY <1>1, SettlementAssumption
<1>3. checkpoint' \in [Sagas -> Nat]
  BY <1>1, <1>2, PendingIsInLog DEF SettlementTypeOK
<1> QED BY <1>3 DEF PassOver, SettlementTypeOK, stripeVars, laneVars, historyVars

LEMMA TypeStep ==
  ASSUME SettlementTypeOK, LaneInv, LegInv, [SettlementNext]_vars
  PROVE  SettlementTypeOK'
<1>1. ASSUME NEW t \in OrderEvents, AppendToOrder(t) PROVE SettlementTypeOK'
  BY <1>1, OrderFactType DEF OrderEvents, Endings, FactTypes
<1>2. ASSUME NEW r \in Runners, LegActions(r) PROVE SettlementTypeOK'
  BY <1>2, LegTypeStep DEF LegActions
<1>3. CASE LaneActions
  BY <1>3, LaneTypeStep DEF LaneActions
<1>4. CASE Project \/ Expire \/ RecordFact
  BY <1>4, WebhookTypeStep
<1>5. CASE UNCHANGED vars
  BY <1>5 DEF vars, stripeVars, laneVars, runnerVars, historyVars, SettlementTypeOK
<1>6. ASSUME NEW r \in Runners, PassOver(r) PROVE SettlementTypeOK'
  BY <1>6, PassOverTypeStep
<1> QED BY <1>1, <1>2, <1>3, <1>4, <1>5, <1>6, EveryStep

LEMMA LogStep ==
  ASSUME SettlementTypeOK, LaneInv, [SettlementNext]_vars
  PROVE  LogGrows
<1> USE DEF SettlementTypeOK
<1>1. ASSUME NEW t \in OrderEvents, AppendToOrder(t) PROVE LogGrows
  BY <1>1, PlainIsFact, Appended DEF AppendToOrder, OrderEvents, Endings, FactTypes
<1>2. CASE UNCHANGED log
  BY <1>2 DEF LogGrows
<1>3. /\ Plain("PaymentCaptureFailed") \in Fact /\ Plain("RefundOpened") \in Fact
      /\ Plain("RefundDenied") \in Fact
  BY PlainIsFact DEF FactTypes, PaymentFacts
<1>4. ASSUME NEW r \in Runners, RecordCaptureFailed(r) \/ OpenRefund(r) PROVE LogGrows
  BY <1>3, <1>4, AppendUnlessRecordedGrows DEF RecordCaptureFailed, OpenRefund
<1>5. CASE CommitDelivery
  <2>1. Head(lane) \in Message
    BY <1>5, HeadIsMessage DEF CommitDelivery, LaneInv
  <2>2. [type |-> "RefundApproved", amount |-> Head(lane).amount] \in Fact
    BY <2>1 DEF Message, Fact, FactTypes, PaymentFacts
  <2>3. Head(lane).type \in {"ApproveRefund", "DenyRefund", "PaymentRefunded"}
    BY <2>1 DEF Message
  <2> QED BY <1>2, <1>3, <1>5, <2>2, <2>3, AppendUnlessRecordedGrows DEF CommitDelivery
<1>6. CASE RecordFact
  BY <1>6, AppendUnlessRecordedGrows DEF RecordFact
<1>7. ASSUME NEW r \in Runners, LegActions(r) PROVE LogGrows
  BY <1>2, <1>4, <1>7 DEF LegActions, Select, ReadRow, LegError, CallStripe, StripeRefuses,
        CallTimesOut, Admit, UpsertRun, CommitLeg, CrashLeg
<1>8. CASE LaneActions
  BY <1>2, <1>5, <1>8 DEF LaneActions, SendDecision, ReadRun, CallRefund, Redeliver, DeposedCall, GiveUp
<1> QED BY <1>1, <1>2, <1>6, <1>7, <1>8, EveryStep DEF Project, Expire, steadyVars

-----------------------------------------------------------------------------
(***************************************************************************)
(* The legs and the lane keep their place.                                 *)
(***************************************************************************)
LEMMA AppendToLane ==
  ASSUME SettlementTypeOK, NEW m \in Message, lane' = Append(lane, m)
  PROVE  /\ lane' # <<>>
         /\ lane # <<>> => Head(lane') = Head(lane)
         /\ \A i \in DOMAIN lane' : (i \in DOMAIN lane /\ lane'[i] = lane[i]) \/ lane'[i] = m
  BY DEF SettlementTypeOK

LEMMA LaneStep ==
  ASSUME SettlementTypeOK, LaneInv, [SettlementNext]_vars
  PROVE  LaneInv'
<1> USE DEF SettlementTypeOK
<1>1. CASE UNCHANGED <<lane, delivery>>
  BY <1>1 DEF LaneInv
<1>2. CASE SendDecision
  <2>1. PICK m \in [type : {"ApproveRefund"}, amount : Amounts] \union {Plain("DenyRefund")} :
          lane' = Append(lane, m)
    BY <1>2 DEF SendDecision
  <2>2. m.type = "ApproveRefund" => m.amount \in Amounts
    BY <2>1 DEF Plain
  <2>3. m \in Message
    BY <2>1, DecisionIsMessage
  <2>4. delivery' = delivery
    BY <1>2 DEF SendDecision
  <2>5. lane' = Append(lane, m)
    BY <2>1
  <2>6. /\ lane' # <<>>
        /\ lane # <<>> => Head(lane') = Head(lane)
        /\ \A i \in DOMAIN lane' : (i \in DOMAIN lane /\ lane'[i] = lane[i]) \/ lane'[i] = m
    BY <2>3, <2>5, AppendToLane
  <2>7. \A i \in DOMAIN lane' : lane'[i].type = "ApproveRefund" => lane'[i].amount \in Amounts
    BY <2>2, <2>6 DEF LaneInv
  <2> QED BY <2>4, <2>6, <2>7 DEF LaneInv
<1>3. ASSUME lane # <<>>, EndDelivery PROVE LaneInv'
  BY <1>3, HeadIsMessage DEF EndDelivery, LaneInv
<1>4. CASE ReadRun
  <2>1. CASE run # Expected
    BY <1>3, <1>4, <2>1 DEF ReadRun
  <2>2. CASE run = Expected
    BY <1>4, <2>2 DEF ReadRun, LaneInv, Approves
  <2> QED BY <2>1, <2>2
<1>5. CASE CallRefund
  BY <1>3, <1>5 DEF CallRefund, LaneInv
<1>6. CASE CommitDelivery \/ GiveUp
  BY <1>3, <1>6 DEF CommitDelivery, GiveUp, LaneInv
<1>7. CASE Redeliver
  BY <1>7 DEF Redeliver, LaneInv
<1>8. CASE RecordFact
  <2>1. PICK f \in reported : lane' = IF f.type = "PaymentRefunded" THEN Append(lane, f) ELSE lane
    BY <1>8 DEF RecordFact
  <2>2. f.type = "PaymentRefunded" => f \in Message
    BY <2>1 DEF Fact, Message
  <2>3. delivery' = delivery
    BY <1>8 DEF RecordFact
  <2>4. CASE f.type = "PaymentRefunded"
    BY <2>1, <2>2, <2>3, <2>4, AppendToLane DEF LaneInv
  <2> QED BY <1>1, <2>1, <2>3, <2>4
<1>9. ASSUME NEW r \in Runners, LegActions(r) PROVE UNCHANGED <<lane, delivery>>
  BY <1>9 DEF LegActions, Select, ReadRow, LegError, CallStripe, StripeRefuses, CallTimesOut,
        RecordCaptureFailed, Admit, OpenRefund, UpsertRun, CommitLeg, CrashLeg, laneVars
<1> QED BY <1>1, <1>2, <1>4, <1>5, <1>6, <1>7, <1>8, <1>9, EveryStep
        DEF LaneActions, DeposedCall, AppendToOrder, Project, Expire, steadyVars, laneVars

LEMMA LegStep ==
  ASSUME SettlementTypeOK, LaneInv, LegInv, [SettlementNext]_vars
  PROVE  LegInv'
<1> USE DEF SettlementTypeOK
<1> DEFINE Backed(l) ==
      /\ l.at # "idle" =>
           \A i \in {l.pos} \union l.rest : i \in DOMAIN log /\ log[i].type \in Triggers[l.saga]
      /\ l.at \in {"call", "failed"} => l.saga = "Settlement"
<1>1. ASSUME LogGrows, NEW l, Backed(l)
      PROVE  /\ l.at # "idle" =>
                  \A i \in {l.pos} \union l.rest : i \in DOMAIN log' /\ log'[i].type \in Triggers[l.saga]
             /\ l.at \in {"call", "failed"} => l.saga = "Settlement"
  BY <1>1 DEF LogGrows
<1>2. SUFFICES \A q \in Runners : Backed(leg'[q])
  BY <1>1, <1>2, LogStep DEF LegInv
<1>3. \A q \in Runners : Backed(leg[q])
  BY DEF LegInv
<1>4. CASE UNCHANGED leg
  BY <1>3, <1>4
<1>5. ASSUME NEW r \in Runners, NEW step \in LegSteps, GoTo(r, step), leg[r].at # "idle",
             step \in {"call", "failed"} => leg[r].saga = "Settlement"
      PROVE  \A q \in Runners : Backed(leg'[q])
  BY <1>3, <1>5, Goes
<1>6. Backed(IdleLeg)
  BY DEF IdleLeg
<1>7. ASSUME NEW r \in Runners, LegActions(r) PROVE \A q \in Runners : Backed(leg'[q])
  <2>1. CASE Select(r)
    <3>1. PICK s \in Drains[r] : Pending(s) # {} /\ leg' = [leg EXCEPT ![r] = FirstOf(s, Pending(s))]
      BY <2>1 DEF Select
    <3>2. s \in Sagas
      BY <3>1, SettlementAssumption
    <3>3. Backed(FirstOf(s, Pending(s)))
      BY <3>1, <3>2, PendingIsInLog, FirstOfIsLeg
    <3> QED BY <1>3, <3>1, <3>3
  <2>2. CASE ReadRow(r)
    <3>1. PICK step \in {"commit", "call", "admit"} :
            GoTo(r, step) /\ (step = "call" => leg[r].saga = "Settlement")
      BY <2>2 DEF ReadRow
    <3> QED BY <1>5, <2>2, <3>1 DEF ReadRow, At, LegSteps
  <2>3. CASE LegError(r)
    BY <1>5, <2>3 DEF LegError, LegSteps
  <2>4. CASE CallStripe(r)
    BY <1>5, <2>4 DEF CallStripe, At, LegSteps
  <2>5. CASE StripeRefuses(r) \/ CallTimesOut(r)
    <3>1. PICK step \in {"commit", "failed"} : GoTo(r, step)
      BY <2>5 DEF StripeRefuses, CallTimesOut, CallEndsBadly
    <3>2. leg[r].at = "call"
      BY <2>5 DEF StripeRefuses, CallTimesOut, At
    <3>3. leg[r].saga = "Settlement"
      BY <3>2 DEF LegInv
    <3> QED BY <1>5, <3>1, <3>2, <3>3 DEF LegSteps
  <2>6. CASE RecordCaptureFailed(r) \/ OpenRefund(r) \/ UpsertRun(r)
    BY <1>5, <2>6 DEF RecordCaptureFailed, OpenRefund, UpsertRun, At, LegSteps
  <2>7. CASE Admit(r)
    <3>1. PICK step \in {"open", "commit"} : GoTo(r, step)
      BY <2>7 DEF Admit
    <3> QED BY <1>5, <2>7, <3>1 DEF Admit, At, LegSteps
  <2>8. CASE CommitLeg(r)
    <3>1. leg[r] \in Leg /\ leg[r].at = "commit"
      BY <2>8 DEF CommitLeg, At
    <3>2. leg[r].saga \in Sagas /\ leg[r].rest \subseteq Nat
      BY <3>1 DEF Leg
    <3>3. ASSUME leg[r].rest # {} PROVE Backed(FirstOf(leg[r].saga, leg[r].rest))
      <4> DEFINE l == FirstOf(leg[r].saga, leg[r].rest)
      <4>1. l.saga = leg[r].saga /\ l.at = "read" /\ l.pos \in leg[r].rest /\ l.rest \subseteq leg[r].rest
        BY <3>2, <3>3, FirstOfIsLeg
      <4> HIDE DEF l
      <4>2. Backed(leg[r])
        BY <1>3
      <4>3. Backed(l)
        BY <3>1, <4>1, <4>2
      <4> QED BY <4>3 DEF l
    <3> QED BY <1>3, <1>6, <2>8, <3>3 DEF CommitLeg
  <2>9. CASE CrashLeg(r)
    BY <1>3, <1>6, <2>9 DEF CrashLeg
  <2> QED BY <1>7, <2>1, <2>2, <2>3, <2>4, <2>5, <2>6, <2>7, <2>8, <2>9 DEF LegActions
<1>8. CASE LaneActions
  BY <1>4, <1>8 DEF LaneActions, SendDecision, ReadRun, CallRefund, CommitDelivery, Redeliver,
        DeposedCall, GiveUp, runnerVars
<1> QED BY <1>4, <1>7, <1>8, EveryStep DEF AppendToOrder, Project, Expire, RecordFact, steadyVars, runnerVars

-----------------------------------------------------------------------------
(***************************************************************************)
(* What the log says.                                                      *)
(***************************************************************************)
LEMMA StillThere ==
  ASSUME LogGrows, NEW types, Positions(types) # {}
  PROVE  Positions(types)' # {}
  BY DEF LogGrows, Positions

\* The newest fact of some types among the first n, if there is one.
LEMMA NewestIs ==
  ASSUME SettlementTypeOK, NEW types, NEW n, NEW default
  PROVE  LET seen == {i \in Positions(types) : i <= n}
         IN  \/ seen = {} /\ Newest(types, n, default) = default
             \/ \E i \in seen : /\ Newest(types, n, default) = log[i].type
                                /\ \A j \in seen : j <= i
<1> DEFINE seen == {i \in Positions(types) : i <= n}
<1>1. CASE seen = {}
  BY <1>1 DEF Newest
<1>2. CASE seen # {}
  <2>1. Len(log) \in Nat /\ seen \subseteq 0 .. Len(log)
    BY DEF SettlementTypeOK, Positions
  <2>2. PICK i \in seen : \A j \in seen : j <= i
    <3> HIDE DEF seen
    <3> QED BY <1>2, <2>1, MaxExists
  <2>3. Max(seen) \in seen /\ \A j \in seen : Max(seen) >= j
    <3>1. \A j \in seen : i >= j
      BY <2>1, <2>2
    <3> HIDE DEF seen
    <3> QED BY <2>2, <3>1 DEF Max
  <2>4. Newest(types, n, default) = log[Max(seen)].type
    BY <1>2 DEF Newest
  <2>5. \A j \in seen : j <= Max(seen)
    BY <2>1, <2>3
  <2> HIDE DEF seen
  <2>6. \E i_1 \in seen : Newest(types, n, default) = log[i_1].type /\ \A j \in seen : j <= i_1
    BY <2>3, <2>4, <2>5
  <2> QED BY <2>6 DEF seen
<1> QED BY <1>1, <1>2

LEMMA DecisionIs ==
  ASSUME SettlementTypeOK
  PROVE  \/ Decision = "none" /\ Positions(Decisions) = {}
         \/ Decision \in Decisions /\ Recorded(Decision)
<1>1. {i \in Positions(Decisions) : i <= Len(log)} = Positions(Decisions)
  BY DEF SettlementTypeOK, Positions
<1>2. Decision = Newest(Decisions, Len(log), "none")
  BY DEF Decision, Decisions
<1>3. CASE Positions(Decisions) = {}
  BY <1>1, <1>2, <1>3 DEF Newest
<1>4. CASE Positions(Decisions) # {}
  <2>1. PICK i \in Positions(Decisions) : Decision = log[i].type
    BY <1>1, <1>2, <1>4, NewestIs
  <2> QED BY <2>1, RecordedIs DEF Positions
<1> QED BY <1>3, <1>4

LEMMA DecisionAppend ==
  ASSUME SettlementTypeOK, SettlementTypeOK', NEW f \in Fact, log' = Append(log, f)
  PROVE  Decision' = IF f.type \in Decisions THEN f.type ELSE Decision
<1> USE DEF SettlementTypeOK
<1> DEFINE seen == {i \in Positions(Decisions) : i <= Len(log)}
<1>1. /\ Decision = Newest(Decisions, Len(log), "none")
      /\ Decision' = Newest(Decisions, Len(log), "none")'
  BY DEF Decision, Decisions
<1>2. /\ seen = Positions(Decisions)
      /\ seen' = Positions(Decisions)'
      /\ seen' = seen \union (IF f.type \in Decisions THEN {Len(log) + 1} ELSE {})
  <2>1. Positions(Decisions)' = Positions(Decisions) \union (IF f.type \in Decisions THEN {Len(log) + 1} ELSE {})
    BY AppendPositions
  <2>2. seen = Positions(Decisions) /\ seen' = Positions(Decisions)'
    BY DEF Positions
  <2> QED BY <2>1, <2>2
<1>3. log'[Len(log) + 1] = f /\ \A i \in seen : log'[i] = log[i] /\ i \in Nat /\ i < Len(log) + 1
  BY <1>2, Appended DEF LogGrows, Positions
<1>4. CASE f.type \in Decisions
  <2>1. \A i \in seen' : i <= Len(log) + 1 /\ i \in Nat
    BY <1>2, <1>3
  <2>2. Len(log) + 1 \in seen'
    BY <1>2, <1>4
  <2>3. Max(seen') = Len(log) + 1
    <3> HIDE DEF seen
    <3> QED BY <2>1, <2>2 DEF Max
  <2>4. Decision' = log'[Max(seen')].type
    BY <1>1, <2>2 DEF Newest
  <2> QED BY <1>3, <1>4, <2>3, <2>4
<1>5. CASE f.type \notin Decisions
  <2>1. seen' = seen
    BY <1>2, <1>5
  <2>2. CASE seen = {}
    BY <1>1, <1>5, <2>1, <2>2 DEF Newest
  <2>3. CASE seen # {}
    <3>1. Max(seen) \in seen
      <4>1. Len(log) \in Nat /\ seen \subseteq 0 .. Len(log)
        BY DEF Positions
      <4> HIDE DEF seen
      <4>2. PICK i \in seen : \A j \in seen : j <= i
        BY <2>3, <4>1, MaxExists
      <4>3. \A j \in seen : i >= j
        BY <4>1, <4>2
      <4> QED BY <4>2, <4>3 DEF Max
    <3>2. Decision = log[Max(seen)].type /\ Decision' = log'[Max(seen')].type
      BY <1>1, <2>1, <2>3 DEF Newest
    <3> QED BY <1>3, <1>5, <2>1, <3>1, <3>2
  <2> QED BY <2>2, <2>3
<1> QED BY <1>4, <1>5

\* What a step may append, and when.
LEMMA WhatIsAppended ==
  ASSUME SettlementTypeOK, LaneInv, [SettlementNext]_vars
  PROVE  \/ UNCHANGED log
         \/ \E f \in Fact :
              /\ log' = Append(log, f)
              /\ \/ /\ f.type \in OrderEvents /\ AppendToOrder(f.type)
                    /\ f.type \in Endings => Positions(Endings) = {}
                 \/ f = Plain("PaymentCaptureFailed") /\ ~Recorded("PaymentCaptureFailed")
                 \/ f = Plain("RefundOpened") /\ ~Recorded("RefundOpened") /\ \E r \in Runners : leg[r].at = "open"
                 \/ CommitDelivery /\ f.type \in Decisions
                 \/ f \in reported /\ reported' = reported \ {f} /\ intent' = intent
<1> USE DEF SettlementTypeOK
<1> DEFINE Goal ==
      \/ UNCHANGED log
      \/ \E f \in Fact :
           /\ log' = Append(log, f)
           /\ \/ /\ f.type \in OrderEvents /\ AppendToOrder(f.type)
                 /\ f.type \in Endings => Positions(Endings) = {}
              \/ f = Plain("PaymentCaptureFailed") /\ ~Recorded("PaymentCaptureFailed")
              \/ f = Plain("RefundOpened") /\ ~Recorded("RefundOpened") /\ \E r \in Runners : leg[r].at = "open"
              \/ CommitDelivery /\ f.type \in Decisions
              \/ f \in reported /\ reported' = reported \ {f} /\ intent' = intent
<1>1. ASSUME NEW t \in OrderEvents, AppendToOrder(t), t \in Endings => Positions(Endings) = {} PROVE Goal
  <2>1. Plain(t) \in Fact /\ Plain(t).type = t
    BY PlainIsFact DEF OrderEvents, Endings, FactTypes, Plain
  <2> QED BY <1>1, <2>1 DEF AppendToOrder
<1>2. /\ Plain("PaymentCaptureFailed") \in Fact /\ Plain("RefundOpened") \in Fact
      /\ Plain("RefundDenied") \in Fact
  BY PlainIsFact DEF FactTypes, PaymentFacts
<1>3. ASSUME NEW r \in Runners, RecordCaptureFailed(r) PROVE Goal
  <2>1. log' = log \/ (log' = Append(log, Plain("PaymentCaptureFailed"))
                         /\ ~AlreadyRecords(Plain("PaymentCaptureFailed")))
    BY <1>3 DEF RecordCaptureFailed, AppendUnlessRecorded
  <2>2. AlreadyRecords(Plain("PaymentCaptureFailed")) = Recorded("PaymentCaptureFailed")
    BY DEF AlreadyRecords, Plain
  <2> QED BY <1>2, <2>1, <2>2
<1>4. ASSUME NEW r \in Runners, OpenRefund(r) PROVE Goal
  <2>1. log' = log \/ (log' = Append(log, Plain("RefundOpened")) /\ ~AlreadyRecords(Plain("RefundOpened")))
    BY <1>4 DEF OpenRefund, AppendUnlessRecorded
  <2>2. AlreadyRecords(Plain("RefundOpened")) = Recorded("RefundOpened")
    BY DEF AlreadyRecords, Plain
  <2>3. leg[r].at = "open"
    BY <1>4 DEF OpenRefund, At
  <2> QED BY <1>2, <2>1, <2>2, <2>3
<1>5. CASE CommitDelivery
  <2>1. Head(lane) \in Message
    BY <1>5, HeadIsMessage DEF CommitDelivery, LaneInv
  <2> DEFINE approved == [type |-> "RefundApproved", amount |-> Head(lane).amount]
  <2>2. approved \in Fact /\ approved.type = "RefundApproved" /\ Plain("RefundDenied").type = "RefundDenied"
    BY <2>1 DEF Message, Fact, FactTypes, PaymentFacts, Plain
  <2>3. Head(lane).type \in {"ApproveRefund", "DenyRefund", "PaymentRefunded"}
    BY <2>1 DEF Message
  <2>4. log' = log \/ log' = Append(log, approved) \/ log' = Append(log, Plain("RefundDenied"))
    BY <1>5, <2>3 DEF CommitDelivery, AppendUnlessRecorded
  <2> HIDE DEF approved
  <2> QED BY <1>2, <1>5, <2>2, <2>4 DEF Decisions
<1>6. CASE RecordFact
  BY <1>6 DEF RecordFact, AppendUnlessRecorded
<1>7. ASSUME NEW r \in Runners, LegActions(r) PROVE Goal
  <2>1. RecordCaptureFailed(r) \/ OpenRefund(r) \/ UNCHANGED log
    BY <1>7 DEF LegActions, Select, ReadRow, LegError, CallStripe, StripeRefuses,
        CallTimesOut, Admit, UpsertRun, CommitLeg, CrashLeg
  <2> QED BY <1>3, <1>4, <2>1
<1>8. CASE LaneActions
  <2>1. CommitDelivery \/ UNCHANGED log
    BY <1>8 DEF LaneActions, SendDecision, ReadRun, CallRefund, Redeliver, DeposedCall, GiveUp
  <2> QED BY <1>5, <2>1
<1>9. Project \/ Expire \/ UNCHANGED steadyVars => UNCHANGED log
  BY DEF Project, Expire, steadyVars
<1> QED BY <1>1, <1>6, <1>7, <1>8, <1>9, EveryStep

-----------------------------------------------------------------------------
(***************************************************************************)
(* The money, its reports and what is recorded of them.                    *)
(***************************************************************************)
\* What a step does to the intent: settle it once, as the order's end in the
\* log says, or let it lapse.
SettlesAs(t) ==
  /\ intent = "held"
  /\ reported' = reported \union {Plain(t)}
  /\ \/ t = "PaymentCaptured" /\ intent' = "captured" /\ Recorded("OrderDelivered")
     \/ t = "PaymentReleased" /\ intent' = "released" /\ Positions(Aborts) # {}
     \/ t = "PaymentReleased" /\ intent' = "expired"

LEMMA CallSettles ==
  ASSUME SettlementTypeOK, LegInv, NEW r \in Runners, leg[r].at = "call", intent = "held",
         intent' = Settled(r), reported' = reported \union {SettledFact(r)}
  PROVE  \E t \in Settlings : SettlesAs(t)
<1>1. leg[r].pos \in DOMAIN log /\ log[leg[r].pos].type \in Endings
  BY TriggersAre DEF LegInv
<1>2. CASE Captures(r)
  <2>1. Recorded("OrderDelivered")
    BY <1>1, <1>2, RecordedIs DEF Captures
  <2>2. intent' = "captured" /\ reported' = reported \union {Plain("PaymentCaptured")}
    BY <1>2 DEF Settled, SettledFact
  <2>3. SettlesAs("PaymentCaptured")
    BY <2>1, <2>2 DEF SettlesAs
  <2> QED BY <2>3 DEF Settlings
<1>3. CASE ~Captures(r)
  <2>1. Positions(Aborts) # {}
    BY <1>1, <1>3 DEF Captures, Positions, Aborts
  <2>2. intent' = "released" /\ reported' = reported \union {Plain("PaymentReleased")}
    BY <1>3 DEF Settled, SettledFact
  <2>3. SettlesAs("PaymentReleased")
    BY <2>1, <2>2 DEF SettlesAs
  <2> QED BY <2>3 DEF Settlings
<1> QED BY <1>2, <1>3

LEMMA WhatIsReported ==
  ASSUME SettlementTypeOK, LaneInv, LegInv, [SettlementNext]_vars
  PROVE  \/ UNCHANGED <<intent, reported>>
         \/ UNCHANGED log /\ \E t \in Settlings : SettlesAs(t)
         \/ /\ UNCHANGED <<log, intent>>
            /\ \E a \in Amounts : reported' = reported \union {[type |-> "PaymentRefunded", amount |-> a]}
         \/ RecordFact
<1> USE DEF SettlementTypeOK
<1> DEFINE Refunds == /\ UNCHANGED <<log, intent>>
                      /\ \E a \in Amounts : reported' = reported \union {[type |-> "PaymentRefunded", amount |-> a]}
           Settles == UNCHANGED log /\ \E t \in Settlings : SettlesAs(t)
<1>1. ASSUME NEW r \in Runners, CallStripe(r) PROVE UNCHANGED <<intent, reported>> \/ Settles
  <2>1. CASE intent = "held"
    BY <1>1, <2>1, CallSettles DEF CallStripe, At
  <2>2. CASE intent # "held"
    BY <1>1, <2>2 DEF CallStripe
  <2> QED BY <2>1, <2>2
<1>2. ASSUME NEW r \in Runners, CallTimesOut(r) PROVE UNCHANGED <<intent, reported>> \/ Settles
  BY <1>2, CallSettles DEF CallTimesOut, At
<1>3. ASSUME NEW a \in Amounts, Refund(a), UNCHANGED log PROVE UNCHANGED <<intent, reported>> \/ Refunds
  BY <1>3 DEF Refund
<1>4. CASE CallRefund
  <2>1. Head(lane).amount \in Amounts
    BY <1>4, HeadIsMessage DEF CallRefund, LaneInv
  <2> QED BY <1>3, <1>4, <2>1 DEF CallRefund, stripeVars
<1>5. CASE DeposedCall
  <2>1. PICK a \in deposed : IF Refundable(a) THEN Refund(a) ELSE UNCHANGED stripeVars
    BY <1>5 DEF DeposedCall
  <2>2. a \in Amounts /\ UNCHANGED log
    BY <1>5 DEF DeposedCall
  <2> QED BY <1>3, <2>1, <2>2 DEF stripeVars
<1>6. CASE Expire
  <2>1. SettlesAs("PaymentReleased")
    BY <1>6 DEF Expire, SettlesAs
  <2> QED BY <1>6, <2>1 DEF Expire, Settlings
<1>7. ASSUME NEW r \in Runners, LegActions(r) PROVE UNCHANGED <<intent, reported>> \/ Settles
  <2>1. CallStripe(r) \/ CallTimesOut(r) \/ UNCHANGED <<intent, reported>>
    BY <1>7 DEF LegActions, Select, ReadRow, LegError, StripeRefuses, RecordCaptureFailed,
        Admit, OpenRefund, UpsertRun, CommitLeg, CrashLeg, stripeVars
  <2> QED BY <1>1, <1>2, <2>1
<1>8. CASE LaneActions
  <2>1. CallRefund \/ DeposedCall \/ UNCHANGED <<intent, reported>>
    BY <1>8 DEF LaneActions, SendDecision, ReadRun, CommitDelivery, Redeliver, GiveUp, stripeVars
  <2> QED BY <1>4, <1>5, <2>1
<1>9. \A t : AppendToOrder(t) => UNCHANGED <<intent, reported>>
  BY DEF AppendToOrder, stripeVars
<1>10. Project \/ UNCHANGED steadyVars => UNCHANGED <<intent, reported>>
  BY DEF Project, steadyVars, stripeVars
<1> QED BY <1>6, <1>7, <1>8, <1>9, <1>10, EveryStep

LEMMA CapturedStays ==
  ASSUME SettlementTypeOK, LaneInv, LegInv, [SettlementNext]_vars
  PROVE  intent = "captured" => intent' = "captured"
BY WhatIsReported DEF SettlesAs, RecordFact

LEMMA MoneyStep ==
  ASSUME SettlementTypeOK, LaneInv, LegInv, MoneyFollowsOrder, [SettlementNext]_vars
  PROVE  MoneyFollowsOrder'
<1>1. LogGrows
  BY LogStep
<1>2. /\ Recorded("OrderDelivered") => Recorded("OrderDelivered")'
      /\ Positions(Aborts) # {} => Positions(Aborts)' # {}
  BY <1>1, StillRecorded, StillThere
<1>3. \/ intent' = intent
      \/ intent' = "captured" /\ Recorded("OrderDelivered")
      \/ intent' = "released" /\ Positions(Aborts) # {}
      \/ intent' = "expired"
  BY WhatIsReported DEF SettlesAs, RecordFact
<1> QED BY <1>2, <1>3 DEF MoneyFollowsOrder

LEMMA RecordedAfterAppend ==
  ASSUME SettlementTypeOK, NEW f \in Fact, log' = Append(log, f), NEW t
  PROVE  Recorded(t)' <=> Recorded(t) \/ f.type = t
<1>1. Positions({t})' = Positions({t}) \union (IF f.type \in {t} THEN {Len(log) + 1} ELSE {})
  BY AppendPositions DEF SettlementTypeOK
<1> QED BY <1>1 DEF Recorded

LEMMA PlainType == ASSUME NEW t PROVE Plain(t).type = t
  BY DEF Plain

LEMMA ReportsStep ==
  ASSUME SettlementTypeOK, LaneInv, LegInv, Reports, [SettlementNext]_vars
  PROVE  Reports'
<1> USE DEF SettlementTypeOK, Reports, Settlings
<1>1. CASE UNCHANGED log /\ \E t \in Settlings : SettlesAs(t)
  <2>1. PICK t \in Settlings : SettlesAs(t)
    BY <1>1
  <2>2. \A u \in Settlings : Recorded(u)' = Recorded(u) /\ ~Recorded(u) /\ Plain(u) \notin reported
    BY <1>1, <2>1 DEF SettlesAs, Recorded, Positions
  <2>3. \A f \in reported : f.type = "PaymentRefunded"
    BY <2>2
  <2>4. reported' = reported \union {Plain(t)} /\ Plain(t).type = t
    BY <2>1, PlainType DEF SettlesAs
  <2>5. Plain("PaymentCaptured") # Plain("PaymentReleased")
    BY DEF Plain
  <2>6. \A f \in reported' : f.type \in Settlings \union {"PaymentRefunded"}
    BY <2>3, <2>4
  <2>7. \A u \in Settlings : \A f \in reported' : f.type = u => f = Plain(u) /\ ~Recorded(u)'
    BY <2>2, <2>3, <2>4
  <2>8. Plain("PaymentCaptured") \in reported' => t = "PaymentCaptured"
    BY <2>2, <2>4, <2>5
  <2>9. Plain("PaymentReleased") \in reported' => t = "PaymentReleased"
    BY <2>2, <2>4, <2>5
  <2> QED BY <2>1, <2>2, <2>6, <2>7, <2>8, <2>9 DEF SettlesAs
<1>2. CASE UNCHANGED <<log, intent>>
           /\ \E a \in Amounts : reported' = reported \union {[type |-> "PaymentRefunded", amount |-> a]}
  <2>1. PICK a \in Amounts : reported' = reported \union {[type |-> "PaymentRefunded", amount |-> a]}
    BY <1>2
  <2> DEFINE g == [type |-> "PaymentRefunded", amount |-> a]
  <2>2. g.type = "PaymentRefunded" /\ \A u \in Settlings : g # Plain(u)
    BY DEF Plain
  <2>3. \A u \in Settlings : Recorded(u)' = Recorded(u)
    BY <1>2 DEF Recorded, Positions
  <2> HIDE DEF g
  <2>4. reported' = reported \union {g}
    BY <2>1 DEF g
  <2> QED BY <1>2, <2>2, <2>3, <2>4
<1>3. CASE RecordFact
  <2>1. PICK f \in reported : reported' = reported \ {f} /\ AppendUnlessRecorded(f)
    BY <1>3 DEF RecordFact
  <2>2. intent' = intent
    BY <1>3 DEF RecordFact
  <2>3. CASE log' = log
    <3>1. \A u \in Settlings : Recorded(u)' = Recorded(u)
      BY <2>3 DEF Recorded, Positions
    <3> QED BY <2>1, <2>2, <3>1
  <2>4. CASE log' = Append(log, f)
    <3>1. \A u \in Settlings : Recorded(u)' <=> Recorded(u) \/ f.type = u
      BY <2>4, RecordedAfterAppend
    <3>2. \A u \in Settlings : f.type = u => f = Plain(u)
      OBVIOUS
    <3>3. \A u \in Settlings : \A g \in reported' : g.type = u => g = Plain(u) /\ ~Recorded(u)'
      BY <2>1, <3>1, <3>2
    <3>4. \A g \in reported' : g.type \in Settlings \union {"PaymentRefunded"}
      BY <2>1
    <3>5. f.type = "PaymentCaptured" => intent = "captured"
      BY <3>2
    <3>6. f.type = "PaymentReleased" => intent \in {"released", "expired"}
      BY <3>2
    <3>7. Plain("PaymentCaptured") \in reported' \/ Recorded("PaymentCaptured")' => intent' = "captured"
      BY <2>1, <2>2, <3>1, <3>5
    <3>8. Plain("PaymentReleased") \in reported' \/ Recorded("PaymentReleased")' => intent' \in {"released", "expired"}
      BY <2>1, <2>2, <3>1, <3>6
    <3> QED BY <3>3, <3>4, <3>7, <3>8
  <2> QED BY <2>1, <2>3, <2>4 DEF AppendUnlessRecorded
<1>4. CASE UNCHANGED <<intent, reported>>
  <2>1. CASE UNCHANGED log
    BY <1>4, <2>1 DEF Recorded, Positions
  <2>2. ASSUME NEW f \in Fact, log' = Append(log, f), f.type \notin Settlings PROVE Reports'
    <3>1. \A u \in Settlings : Recorded(u)' <=> Recorded(u)
      BY <2>2, RecordedAfterAppend
    <3> QED BY <1>4, <3>1
  <2>3. \A f \in reported : reported' # reported \ {f}
    BY <1>4
  <2>4. \A f : f.type \in OrderEvents \union Decisions => f.type \notin Settlings
    BY DEF OrderEvents, Endings, Decisions
  <2>5. /\ Plain("PaymentCaptureFailed").type \notin Settlings
        /\ Plain("RefundOpened").type \notin Settlings
    BY PlainType
  <2> QED BY <2>1, <2>2, <2>3, <2>4, <2>5, WhatIsAppended
<1> QED BY <1>1, <1>2, <1>3, <1>4, WhatIsReported

LEMMA OnceStep ==
  ASSUME SettlementTypeOK, LaneInv, LegInv, Reports, Once, [SettlementNext]_vars
  PROVE  Once'
<1> USE DEF SettlementTypeOK
<1> SUFFICES ASSUME NEW t \in OnceFacts PROVE AtMostOne({t})'
  BY DEF Once
<1>1. AtMostOne({t})
  BY DEF Once
<1>2. CASE UNCHANGED log
  BY <1>1, <1>2 DEF AtMostOne, Positions
<1>3. ASSUME NEW f \in Fact, log' = Append(log, f), f.type = t => ~Recorded(t)
      PROVE  AtMostOne({t})'
  <2>1. Positions({t})' = Positions({t}) \union (IF f.type \in {t} THEN {Len(log) + 1} ELSE {})
    BY <1>3, AppendPositions
  <2>2. CASE f.type = t
    BY <1>3, <2>1, <2>2 DEF AtMostOne, Recorded
  <2>3. CASE f.type # t
    BY <1>1, <2>1, <2>3 DEF AtMostOne
  <2> QED BY <2>2, <2>3
<1>4. \A f : f.type \in OrderEvents \union Decisions => f.type # t
  BY DEF OrderEvents, Endings, Decisions, OnceFacts, Settlings
<1>5. \A f \in reported : f.type = t => ~Recorded(t)
  BY DEF Reports, OnceFacts, Settlings
<1>6. /\ Plain("PaymentCaptureFailed").type = "PaymentCaptureFailed"
      /\ Plain("RefundOpened").type = "RefundOpened"
  BY PlainType
<1> QED BY <1>2, <1>3, <1>4, <1>5, <1>6, WhatIsAppended

-----------------------------------------------------------------------------
(***************************************************************************)
(* The refund run.                                                         *)
(***************************************************************************)
LEMMA LegsMove ==
  ASSUME SettlementTypeOK, LegInv, [SettlementNext]_vars, NEW q \in Runners
  PROVE  \/ leg'[q] = leg[q]
         \/ leg'[q].at \in {"idle", "read", "call", "failed", "commit"}
         \/ leg'[q].at = "admit" /\ TrackedStatus = "PaymentCaptured"
         \/ leg'[q].at = "open" /\ leg[q].at = "admit"
         \/ leg'[q].at = "upsert" /\ OpenRefund(q)
<1> USE DEF SettlementTypeOK
<1> DEFINE Goal ==
      \/ leg'[q] = leg[q]
      \/ leg'[q].at \in {"idle", "read", "call", "failed", "commit"}
      \/ leg'[q].at = "admit" /\ TrackedStatus = "PaymentCaptured"
      \/ leg'[q].at = "open" /\ leg[q].at = "admit"
      \/ leg'[q].at = "upsert" /\ OpenRefund(q)
<1>1. ASSUME NEW r \in Runners, NEW l \in Leg, leg' = [leg EXCEPT ![r] = l], l.at \in {"idle", "read"}
      PROVE  Goal
  BY <1>1
<1>2. ASSUME NEW r \in Runners, GoTo(r, "commit") \/ GoTo(r, "call") \/ GoTo(r, "failed") PROVE Goal
  BY <1>2, Goes DEF LegSteps
<1>3. ASSUME NEW r \in Runners, LegActions(r) PROVE Goal
  <2>1. CASE Select(r)
    <3>1. PICK s \in Drains[r] : Pending(s) # {} /\ leg' = [leg EXCEPT ![r] = FirstOf(s, Pending(s))]
      BY <2>1 DEF Select
    <3>2. s \in Sagas
      BY <3>1, SettlementAssumption
    <3>3. FirstOf(s, Pending(s)) \in Leg /\ FirstOf(s, Pending(s)).at = "read"
      BY <3>1, <3>2, PendingIsInLog, FirstOfIsLeg
    <3> QED BY <1>1, <3>1, <3>3
  <2>2. CASE ReadRow(r)
    <3>1. \/ GoTo(r, "commit") \/ GoTo(r, "call")
          \/ GoTo(r, "admit") /\ TrackedStatus = "PaymentCaptured"
      BY <2>2 DEF ReadRow
    <3>2. GoTo(r, "admit") /\ TrackedStatus = "PaymentCaptured" => Goal
      BY Goes DEF LegSteps
    <3> QED BY <1>2, <3>1, <3>2
  <2>3. CASE LegError(r) \/ CallStripe(r) \/ RecordCaptureFailed(r) \/ UpsertRun(r)
    BY <1>2, <2>3 DEF LegError, CallStripe, RecordCaptureFailed, UpsertRun
  <2>4. CASE StripeRefuses(r) \/ CallTimesOut(r)
    BY <1>2, <2>4 DEF StripeRefuses, CallTimesOut, CallEndsBadly
  <2>5. CASE Admit(r)
    <3>1. leg[r].at = "admit" /\ (GoTo(r, "open") \/ GoTo(r, "commit"))
      BY <2>5 DEF Admit, At
    <3>2. GoTo(r, "open") => Goal
      BY <3>1, Goes DEF LegSteps
    <3> QED BY <1>2, <3>1, <3>2
  <2>6. CASE OpenRefund(r)
    <3>1. GoTo(r, "upsert")
      BY <2>6 DEF OpenRefund
    <3>2. leg'[r].at = "upsert" /\ (q # r => leg'[q] = leg[q])
      BY <3>1, Goes DEF LegSteps
    <3> QED BY <2>6, <3>2
  <2>7. CASE CommitLeg(r)
    <3>1. leg[r].saga \in Sagas /\ leg[r].rest \subseteq Nat
      BY DEF Leg
    <3>2. leg[r].rest # {} => /\ FirstOf(leg[r].saga, leg[r].rest) \in Leg
                              /\ FirstOf(leg[r].saga, leg[r].rest).at = "read"
      BY <3>1, FirstOfIsLeg
    <3>3. CASE leg[r].rest = {}
      BY <1>1, <2>7, <3>3, IdleLegIsLeg DEF CommitLeg
    <3>4. CASE leg[r].rest # {}
      BY <1>1, <2>7, <3>2, <3>4 DEF CommitLeg
    <3> QED BY <3>3, <3>4
  <2>8. CASE CrashLeg(r)
    BY <1>1, <2>8, IdleLegIsLeg DEF CrashLeg
  <2> QED BY <1>3, <2>1, <2>2, <2>3, <2>4, <2>5, <2>6, <2>7, <2>8 DEF LegActions
<1>4. LaneActions => UNCHANGED leg
  BY DEF LaneActions, SendDecision, ReadRun, CallRefund, CommitDelivery, Redeliver,
        DeposedCall, GiveUp, runnerVars
<1> QED BY <1>3, <1>4, EveryStep DEF AppendToOrder, Project, Expire, RecordFact, steadyVars, runnerVars

\* A refund is taken on only of an order whose row says CAPTURED, which is a
\* fact of the log, however far behind the row is.
LEMMA TrackedCaptured ==
  ASSUME SettlementTypeOK, TrackedStatus = "PaymentCaptured"
  PROVE  Recorded("PaymentCaptured")
<1> DEFINE types == {"PaymentCaptured", "PaymentReleased", "PaymentRefunded"}
<1>1. Newest(types, folded, "AUTHORIZED") = "PaymentCaptured"
  BY DEF TrackedStatus
<1>2. \E i \in {j \in Positions(types) : j <= folded} : Newest(types, folded, "AUTHORIZED") = log[i].type
  <2> HIDE DEF types
  <2> QED BY <1>1, NewestIs
<1>3. \E i \in DOMAIN log : log[i].type = "PaymentCaptured"
  BY <1>1, <1>2 DEF Positions
<1> QED BY <1>3, RecordedIs

\* What a step does to the delivery in hand, if there is one afterwards.
LEMMA DeliveryMoves ==
  ASSUME SettlementTypeOK, LaneInv, [SettlementNext]_vars, delivery' # "idle"
  PROVE  /\ lane # <<>> /\ lane' # <<>> /\ Head(lane') = Head(lane)
         /\ run' = run \/ \E r \in Runners : UpsertRun(r)
         /\ \/ delivery' = delivery
            \/ delivery = "call" /\ delivery' = "commit"
            \/ delivery = "idle" /\ run = Expected /\ run' = run
         /\ reopened => reopened'
<1> USE DEF SettlementTypeOK, stripeVars, laneVars, runnerVars, historyVars
<1>1. CASE UNCHANGED <<lane, delivery>> /\ UNCHANGED <<run, reopened>>
  BY <1>1 DEF LaneInv
<1>2. CASE SendDecision
  <2>1. PICK m \in [type : {"ApproveRefund"}, amount : Amounts] \union {Plain("DenyRefund")} :
          lane' = Append(lane, m)
    BY <1>2 DEF SendDecision
  <2>2. lane # <<>> /\ UNCHANGED <<run, reopened, delivery>>
    BY <1>2 DEF SendDecision, LaneInv
  <2>3. lane' # <<>> /\ Head(lane') = Head(lane)
    BY <2>1, <2>2
  <2> QED BY <2>2, <2>3
<1>3. CASE ReadRun
  BY <1>3 DEF ReadRun, EndDelivery
<1>4. CASE CallRefund
  BY <1>4 DEF CallRefund, EndDelivery, LaneInv
<1>5. CASE RecordFact
  <2>1. PICK f \in reported : lane' = IF f.type = "PaymentRefunded" THEN Append(lane, f) ELSE lane
    BY <1>5 DEF RecordFact
  <2>2. lane # <<>> /\ UNCHANGED <<run, reopened, delivery>>
    BY <1>5 DEF RecordFact, LaneInv
  <2>3. lane' # <<>> /\ Head(lane') = Head(lane)
    BY <2>1, <2>2
  <2> QED BY <2>2, <2>3
<1>6. ASSUME NEW r \in Runners, UpsertRun(r)
      PROVE  UNCHANGED <<lane, delivery>> /\ (reopened => reopened')
  BY <1>6 DEF UpsertRun
<1>7. ASSUME NEW r \in Runners, LegActions(r)
      PROVE  UpsertRun(r) \/ (UNCHANGED <<lane, delivery>> /\ UNCHANGED <<run, reopened>>)
  BY <1>7 DEF LegActions, Select, ReadRow, LegError, CallStripe, StripeRefuses, CallTimesOut,
        RecordCaptureFailed, Admit, OpenRefund, CommitLeg, CrashLeg
<1>8. CASE \E r \in Runners : LegActions(r)
  BY <1>1, <1>6, <1>7, <1>8 DEF LaneInv
<1>9. CASE LaneActions
  <2>1. ~CommitDelivery /\ ~Redeliver /\ ~GiveUp
    BY DEF CommitDelivery, Redeliver, GiveUp, EndDelivery
  <2> QED BY <1>1, <1>2, <1>3, <1>4, <1>9, <2>1 DEF LaneActions, DeposedCall
<1> QED BY <1>1, <1>5, <1>8, <1>9, EveryStep DEF AppendToOrder, Project, Expire, steadyVars

LEMMA ExpectedIs ==
  ASSUME SettlementTypeOK, LaneInv, lane # <<>>
  PROVE  /\ Expected = IF Head(lane).type = "PaymentRefunded" THEN "APPROVED_AWAITING_SETTLEMENT"
                       ELSE "PENDING_APPROVAL"
         /\ Head(lane).type \in {"ApproveRefund", "DenyRefund", "PaymentRefunded"}
  BY HeadIsMessage DEF Expected, Message

LEMMA CommitRecords ==
  ASSUME SettlementTypeOK, LaneInv, CommitDelivery
  PROVE  /\ Head(lane).type = "ApproveRefund" =>
              /\ run' = "APPROVED_AWAITING_SETTLEMENT"
              /\ AppendUnlessRecorded([type |-> "RefundApproved", amount |-> Head(lane).amount])
              /\ [type |-> "RefundApproved", amount |-> Head(lane).amount] \in Fact
         /\ Head(lane).type = "DenyRefund" =>
              run' = "DENIED" /\ AppendUnlessRecorded(Plain("RefundDenied")) /\ Plain("RefundDenied") \in Fact
         /\ Head(lane).type = "PaymentRefunded" => run' = "REFUNDED" /\ log' = log
         /\ Head(lane).type \in {"ApproveRefund", "DenyRefund", "PaymentRefunded"}
         /\ reopened' = reopened /\ givenUp' = givenUp /\ delivery = "commit"
         /\ lane # <<>> /\ lane' = Tail(lane)
         /\ UNCHANGED <<refunds, deposed>>
<1>1. lane # <<>> /\ Head(lane) \in Message
  BY HeadIsMessage DEF CommitDelivery, LaneInv
<1>2. [type |-> "RefundApproved", amount |-> Head(lane).amount] \in Fact
  BY <1>1 DEF Message, Fact, FactTypes, PaymentFacts
<1>3. Plain("RefundDenied") \in Fact
  BY PlainIsFact DEF FactTypes, PaymentFacts
<1>4. Head(lane).type \in {"ApproveRefund", "DenyRefund", "PaymentRefunded"}
  BY <1>1 DEF Message
<1>5. /\ reopened' = reopened /\ givenUp' = givenUp /\ delivery = "commit" /\ lane' = Tail(lane)
      /\ UNCHANGED <<refunds, deposed>>
  BY DEF CommitDelivery, EndDelivery, historyVars, stripeVars
<1>6. CASE Head(lane).type = "ApproveRefund"
  BY <1>1, <1>2, <1>5, <1>6 DEF CommitDelivery
<1>7. CASE Head(lane).type = "DenyRefund"
  BY <1>1, <1>3, <1>5, <1>7 DEF CommitDelivery
<1>8. CASE Head(lane).type = "PaymentRefunded"
  BY <1>1, <1>5, <1>8 DEF CommitDelivery
<1> QED BY <1>4, <1>6, <1>7, <1>8

\* The decision the run is then said to have is the one recorded.
LEMMA DecidesAs ==
  ASSUME SettlementTypeOK, SettlementTypeOK', NEW f \in Fact, AppendUnlessRecorded(f), f.type \in Decisions
  PROVE  /\ Decision' = f.type
         /\ Recorded(f.type)'
         /\ Decision = "none" => log' = Append(log, f)
<1>1. AlreadyRecords(f) <=> Decision = f.type
  BY DEF AlreadyRecords, Decisions
<1>2. CASE log' = log
  <2>1. Decision' = Decision
    BY <1>2 DEF Decision, Newest, Positions
  <2>2. Decision = f.type
    <3>1. log # Append(log, f)
      BY DEF SettlementTypeOK
    <3> QED BY <1>1, <1>2, <3>1 DEF AppendUnlessRecorded
  <2>3. Recorded(f.type)
    BY <2>2, DecisionIs DEF Decisions
  <2>4. Recorded(f.type)'
    BY <1>2, <2>3 DEF Recorded, Positions
  <2> QED BY <2>1, <2>2, <2>4 DEF Decisions
<1>3. CASE log' = Append(log, f)
  BY <1>3, DecisionAppend, RecordedAfterAppend
<1> QED BY <1>2, <1>3 DEF AppendUnlessRecorded

LEMMA RunIs ==
  ASSUME SettlementTypeOK, RunInv, RunFollowsLog
  PROVE  /\ run = "REFUNDED" => Recorded("RefundApproved") /\ Recorded("PaymentRefunded")
         /\ run = "APPROVED_AWAITING_SETTLEMENT" => Recorded("RefundApproved") /\ Recorded("RefundOpened")
         /\ run = "PENDING_APPROVAL" => Recorded("RefundOpened")
         /\ run = "DENIED" => Recorded("RefundOpened")
         /\ ~reopened /\ run \in {"REFUNDED", "APPROVED_AWAITING_SETTLEMENT"} => Decision = "RefundApproved"
         /\ ~reopened /\ run = "DENIED" => Decision = "RefundDenied"
         /\ ~reopened /\ run \in {"none", "PENDING_APPROVAL"} => Decision = "none"
  BY DEF RunFollowsLog, RunInv

LEMMA RunStep ==
  ASSUME SettlementTypeOK, SettlementTypeOK', LaneInv, LegInv, Reports, RunInv, RunFollowsLog,
         [SettlementNext]_vars
  PROVE  RunInv'
<1> USE DEF SettlementTypeOK
<1>1. LogGrows /\ \A t : Recorded(t) => Recorded(t)'
  BY LogStep, StillRecorded
<1>2. intent = "captured" => intent' = "captured"
  BY CapturedStays
<1>3. Recorded("RefundOpened")' => intent' = "captured"
  <2>1. CASE UNCHANGED log
    BY <1>2, <2>1 DEF RunInv, Recorded, Positions
  <2>2. ASSUME NEW f \in Fact, log' = Append(log, f),
               f.type = "RefundOpened" => \E r \in Runners : leg[r].at = "open"
        PROVE  Recorded("RefundOpened")' => intent' = "captured"
    <3>1. Recorded("RefundOpened")' <=> Recorded("RefundOpened") \/ f.type = "RefundOpened"
      BY <2>2, RecordedAfterAppend
    <3> QED BY <1>2, <2>2, <3>1 DEF RunInv
  <2>3. /\ Plain("PaymentCaptureFailed").type # "RefundOpened"
        /\ Plain("RefundOpened").type = "RefundOpened"
    BY PlainType
  <2>4. \A f : f.type \in OrderEvents \union Decisions => f.type # "RefundOpened"
    BY DEF OrderEvents, Endings, Decisions
  <2>5. \A f \in reported : f.type # "RefundOpened"
    BY DEF Reports, Settlings
  <2> QED BY <2>1, <2>2, <2>3, <2>4, <2>5, WhatIsAppended
<1>4. ASSUME NEW q \in Runners, leg'[q].at \in {"admit", "open", "upsert"} PROVE intent' = "captured"
  <2>1. TrackedStatus = "PaymentCaptured" => intent = "captured"
    BY TrackedCaptured DEF Reports, Settlings
  <2>2. OpenRefund(q) => leg[q].at = "open"
    BY DEF OpenRefund, At
  <2>3. \/ leg'[q] = leg[q]
        \/ TrackedStatus = "PaymentCaptured"
        \/ leg[q].at \in {"admit", "open"}
    BY <1>4, <2>2, LegsMove
  <2> QED BY <1>2, <1>4, <2>1, <2>3 DEF RunInv
<1>5. ASSUME NEW q \in Runners, leg'[q].at = "upsert" PROVE Recorded("RefundOpened")'
  <2>1. CASE leg'[q] = leg[q]
    BY <1>1, <1>5, <2>1 DEF RunInv
  <2>2. CASE OpenRefund(q)
    <3>1. Plain("RefundOpened") \in Fact /\ Plain("RefundOpened").type = "RefundOpened"
      BY PlainIsFact, PlainType DEF FactTypes, PaymentFacts
    <3>2. AlreadyRecords(Plain("RefundOpened")) = Recorded("RefundOpened")
      BY DEF AlreadyRecords, Plain
    <3>3. Recorded("RefundOpened") \/ log' = Append(log, Plain("RefundOpened"))
      BY <2>2, <3>2 DEF OpenRefund, AppendUnlessRecorded
    <3> QED BY <1>1, <3>1, <3>3, RecordedAfterAppend
  <2> QED BY <1>5, <2>1, <2>2, LegsMove
<1>6. delivery' # "idle" => Recorded("RefundOpened")'
  <2>1. ASSUME delivery' # "idle" PROVE delivery # "idle" \/ run \in {"PENDING_APPROVAL", "APPROVED_AWAITING_SETTLEMENT"}
    BY <2>1, DeliveryMoves, ExpectedIs
  <2> QED BY <1>1, <2>1, RunIs DEF RunInv
<1>7. ASSUME NEW i \in DOMAIN lane', lane'[i].type = "PaymentRefunded" PROVE Recorded("PaymentRefunded")'
  <2>1. CASE lane' = lane
    BY <1>1, <1>7, <2>1 DEF RunInv
  <2>2. CASE lane # <<>> /\ lane' = Tail(lane)
    BY <1>1, <1>7, <2>2, HeadIsMessage DEF RunInv
  <2>3. CASE SendDecision
    <3>1. PICK m \in [type : {"ApproveRefund"}, amount : Amounts] \union {Plain("DenyRefund")} :
            lane' = Append(lane, m)
      BY <2>3 DEF SendDecision
    <3>2. m.type # "PaymentRefunded"
      BY <3>1 DEF Plain
    <3>3. lane'[i] = m \/ (i \in DOMAIN lane /\ lane'[i] = lane[i])
      BY <1>7, <3>1
    <3> QED BY <1>1, <1>7, <3>2, <3>3 DEF RunInv
  <2>4. CASE RecordFact
    <3>1. PICK f \in reported : /\ AppendUnlessRecorded(f)
                                /\ lane' = IF f.type = "PaymentRefunded" THEN Append(lane, f) ELSE lane
      BY <2>4 DEF RecordFact
    <3>2. CASE f.type = "PaymentRefunded"
      <4>1. AlreadyRecords(f) = (f \in Range(log))
        BY <3>2 DEF AlreadyRecords
      <4>2. f \in Range(log) => Recorded("PaymentRefunded")
        BY <3>2, RecordedIs DEF Range
      <4>3. Recorded("PaymentRefunded") \/ log' = Append(log, f)
        BY <3>1, <4>1, <4>2 DEF AppendUnlessRecorded
      <4> QED BY <1>1, <3>2, <4>3, RecordedAfterAppend
    <3> QED BY <2>1, <3>1, <3>2
  <2>5. LaneActions => SendDecision \/ lane' = lane \/ (lane # <<>> /\ lane' = Tail(lane))
    BY DEF LaneActions, ReadRun, CallRefund, CommitDelivery, Redeliver, DeposedCall, GiveUp,
          EndDelivery, LaneInv
  <2>6. \A r \in Runners : LegActions(r) => lane' = lane
    BY DEF LegActions, Select, ReadRow, LegError, CallStripe, StripeRefuses, CallTimesOut,
        RecordCaptureFailed, Admit, OpenRefund, UpsertRun, CommitLeg, CrashLeg, laneVars
  <2> QED BY <2>1, <2>2, <2>3, <2>4, <2>5, <2>6, EveryStep
          DEF AppendToOrder, Project, Expire, steadyVars, laneVars
<1>8. delivery' = "commit" /\ Head(lane').type = "PaymentRefunded" => Recorded("RefundApproved")'
  <2>1. SUFFICES ASSUME delivery' = "commit", Head(lane').type = "PaymentRefunded"
                 PROVE  Recorded("RefundApproved")
    BY <1>1
  <2>2. Head(lane).type = "PaymentRefunded" /\ delivery # "call"
    BY <2>1, DeliveryMoves DEF LaneInv
  <2>3. delivery = "commit" \/ run = "APPROVED_AWAITING_SETTLEMENT"
    BY <2>1, <2>2, DeliveryMoves, ExpectedIs
  <2> QED BY <2>2, <2>3 DEF RunInv
<1>9. run' = "APPROVED_AWAITING_SETTLEMENT" => Recorded("RefundApproved")'
  <2>1. CASE run' = run
    BY <1>1, <2>1 DEF RunInv
  <2>2. CASE CommitDelivery /\ Head(lane).type = "ApproveRefund"
    <3> DEFINE f == [type |-> "RefundApproved", amount |-> Head(lane).amount]
    <3>1. f \in Fact /\ AppendUnlessRecorded(f) /\ f.type = "RefundApproved"
      BY <2>2, CommitRecords
    <3> HIDE DEF f
    <3> QED BY <3>1, DecidesAs DEF Decisions
  <2>3. CASE CommitDelivery /\ Head(lane).type # "ApproveRefund"
    BY <2>3, CommitRecords
  <2>4. ASSUME NEW r \in Runners, LegActions(r) PROVE run' = run \/ run' = "PENDING_APPROVAL"
    BY <2>4 DEF LegActions, Select, ReadRow, LegError, CallStripe, StripeRefuses, CallTimesOut,
        RecordCaptureFailed, Admit, OpenRefund, UpsertRun, CommitLeg, CrashLeg
  <2>5. LaneActions => CommitDelivery \/ run' = run
    BY DEF LaneActions, SendDecision, ReadRun, CallRefund, Redeliver, DeposedCall, GiveUp
  <2> QED BY <2>1, <2>2, <2>3, <2>4, <2>5, EveryStep DEF AppendToOrder, Project, Expire, RecordFact, steadyVars
<1>10. ~reopened' /\ delivery' # "idle" => run' = Expected'
  <2>1. SUFFICES ASSUME ~reopened', delivery' # "idle" PROVE run' = Expected'
    OBVIOUS
  <2>2. ~reopened /\ lane # <<>> /\ Head(lane') = Head(lane)
    BY <2>1, DeliveryMoves
  <2>3. Expected' = Expected
    BY <2>2 DEF Expected
  <2>4. run = Expected
    BY <2>1, <2>2, DeliveryMoves DEF RunInv
  <2>5. ASSUME NEW r \in Runners, UpsertRun(r) PROVE run' = run
    <3>1. run' = "PENDING_APPROVAL" /\ run \in {"none", "PENDING_APPROVAL"}
      BY <2>1, <2>5 DEF UpsertRun
    <3> QED BY <2>2, <2>4, <3>1, ExpectedIs
  <2> QED BY <2>1, <2>3, <2>4, <2>5, DeliveryMoves
<1> QED BY <1>3, <1>4, <1>5, <1>6, <1>7, <1>8, <1>9, <1>10 DEF RunInv

LEMMA DecisionFrame ==
  ASSUME SettlementTypeOK, SettlementTypeOK', LaneInv, Reports, [SettlementNext]_vars, ~CommitDelivery
  PROVE  /\ Decision' = Decision
         /\ Positions(Decisions)' = Positions(Decisions)
<1> USE DEF SettlementTypeOK
<1>1. CASE UNCHANGED log
  BY <1>1 DEF Decision, Newest, Positions
<1>2. ASSUME NEW f \in Fact, log' = Append(log, f), f.type \notin Decisions
      PROVE  Decision' = Decision /\ Positions(Decisions)' = Positions(Decisions)
  <2>1. Decision' = IF f.type \in Decisions THEN f.type ELSE Decision
    BY <1>2, DecisionAppend
  <2>2. Positions(Decisions)' = Positions(Decisions) \union (IF f.type \in Decisions THEN {Len(log) + 1} ELSE {})
    BY <1>2, AppendPositions
  <2> QED BY <1>2, <2>1, <2>2
<1>3. \A f : f.type \in OrderEvents => f.type \notin Decisions
  BY DEF OrderEvents, Endings, Decisions
<1>4. \A f \in reported : f.type \notin Decisions
  BY DEF Reports, Settlings, Decisions
<1>5. Plain("PaymentCaptureFailed").type \notin Decisions /\ Plain("RefundOpened").type \notin Decisions
  BY PlainType DEF Decisions
<1> QED BY <1>1, <1>2, <1>3, <1>4, <1>5, WhatIsAppended

LEMMA RunMoves ==
  ASSUME [SettlementNext]_vars
  PROVE  \/ UNCHANGED <<run, reopened>>
         \/ \E r \in Runners : UpsertRun(r)
         \/ CommitDelivery
<1>1. ASSUME NEW r \in Runners, LegActions(r) PROVE UpsertRun(r) \/ UNCHANGED <<run, reopened>>
  BY <1>1 DEF LegActions, Select, ReadRow, LegError, CallStripe, StripeRefuses, CallTimesOut,
        RecordCaptureFailed, Admit, OpenRefund, CommitLeg, CrashLeg, historyVars
<1>2. LaneActions => CommitDelivery \/ UNCHANGED <<run, reopened>>
  BY DEF LaneActions, SendDecision, ReadRun, CallRefund, Redeliver, DeposedCall, GiveUp, historyVars
<1> QED BY <1>1, <1>2, EveryStep DEF AppendToOrder, Project, Expire, RecordFact, steadyVars, historyVars

\* What the run's status says, as the property has it.
Told ==
  /\ run = "REFUNDED" => Recorded("RefundApproved") /\ Recorded("PaymentRefunded")
  /\ run \in {"PENDING_APPROVAL", "APPROVED_AWAITING_SETTLEMENT", "DENIED"} => Recorded("RefundOpened")
  /\ ~reopened =>
       /\ run \in {"REFUNDED", "APPROVED_AWAITING_SETTLEMENT"} => Decision = "RefundApproved"
       /\ run = "DENIED" => Decision = "RefundDenied"
       /\ run \notin {"REFUNDED", "APPROVED_AWAITING_SETTLEMENT", "DENIED"} => Decision = "none"

LEMMA ToldIsRun == RunFollowsLog <=> Told
<1>1. CASE run \in {"REFUNDED", "APPROVED_AWAITING_SETTLEMENT"}
  BY <1>1 DEF RunFollowsLog, Told
<1>2. CASE run = "DENIED"
  BY <1>2 DEF RunFollowsLog, Told
<1>3. CASE run \notin {"REFUNDED", "APPROVED_AWAITING_SETTLEMENT", "DENIED"}
  BY <1>3 DEF RunFollowsLog, Told
<1> QED BY <1>1, <1>2, <1>3

LEMMA ToldStep ==
  ASSUME SettlementTypeOK, SettlementTypeOK', LaneInv, LegInv, Reports, RunInv, RunFollowsLog,
         [SettlementNext]_vars
  PROVE  Told'
<1>1. LogGrows /\ \A t : Recorded(t) => Recorded(t)'
  BY LogStep, StillRecorded
<1>2. Told
  BY ToldIsRun
<1>3. CASE CommitDelivery
  <2>1. Recorded("RefundOpened")
    BY <1>3, CommitRecords DEF RunInv
  <2>2. CASE Head(lane).type = "ApproveRefund"
    <3> DEFINE f == [type |-> "RefundApproved", amount |-> Head(lane).amount]
    <3>1. f \in Fact /\ AppendUnlessRecorded(f) /\ f.type = "RefundApproved"
      BY <1>3, <2>2, CommitRecords
    <3>2. Decision' = "RefundApproved"
      <4> HIDE DEF f
      <4> QED BY <3>1, DecidesAs DEF Decisions
    <3>3. run' = "APPROVED_AWAITING_SETTLEMENT"
      BY <1>3, <2>2, CommitRecords
    <3> QED BY <1>1, <2>1, <3>2, <3>3 DEF Told
  <2>3. CASE Head(lane).type = "DenyRefund"
    <3> DEFINE f == Plain("RefundDenied")
    <3>1. f \in Fact /\ AppendUnlessRecorded(f) /\ f.type = "RefundDenied"
      BY <1>3, <2>3, CommitRecords, PlainType
    <3>2. Decision' = "RefundDenied"
      <4> HIDE DEF f
      <4> QED BY <3>1, DecidesAs DEF Decisions
    <3>3. run' = "DENIED"
      BY <1>3, <2>3, CommitRecords
    <3> QED BY <1>1, <2>1, <3>2, <3>3 DEF Told
  <2>4. CASE Head(lane).type = "PaymentRefunded"
    <3>1. run' = "REFUNDED" /\ log' = log /\ reopened' = reopened /\ delivery = "commit" /\ lane # <<>>
      BY <1>3, <2>4, CommitRecords
    <3>2. Recorded("RefundApproved")
      BY <2>4, <3>1 DEF RunInv
    <3>3. Recorded("PaymentRefunded")
      BY <2>4, <3>1, HeadIsMessage DEF RunInv
    <3>4. ~reopened => run = "APPROVED_AWAITING_SETTLEMENT"
      BY <2>4, <3>1, ExpectedIs DEF RunInv
    <3>5. Decision' = Decision
      BY <3>1 DEF Decision, Newest, Positions
    <3>6. ~reopened => Decision = "RefundApproved"
      BY <3>4, RunIs
    <3> QED BY <1>1, <3>1, <3>2, <3>3, <3>5, <3>6 DEF Told
  <2> QED BY <1>3, <2>2, <2>3, <2>4, CommitRecords
<1>4. CASE ~CommitDelivery
  <2>1. Decision' = Decision
    BY <1>4, DecisionFrame
  <2>2. CASE UNCHANGED <<run, reopened>>
    BY <1>1, <1>2, <2>1, <2>2 DEF Told
  <2>3. ASSUME NEW r \in Runners, UpsertRun(r) PROVE Told'
    <3>1. /\ run' = "PENDING_APPROVAL"
          /\ reopened' = (reopened \/ run \notin {"none", "PENDING_APPROVAL"})
          /\ leg[r].at = "upsert"
      BY <2>3 DEF UpsertRun, At
    <3>2. Recorded("RefundOpened")
      BY <3>1 DEF RunInv
    <3>3. ~reopened' => ~reopened /\ run \in {"none", "PENDING_APPROVAL"}
      BY <3>1
    <3> QED BY <1>1, <1>2, <2>1, <3>1, <3>2, <3>3 DEF Told
  <2> QED BY <1>4, <2>2, <2>3, RunMoves
<1> QED BY <1>3, <1>4

LEMMA RunFollowsLogStep ==
  ASSUME SettlementTypeOK, SettlementTypeOK', LaneInv, LegInv, Reports, RunInv, RunFollowsLog,
         [SettlementNext]_vars
  PROVE  RunFollowsLog'
<1>1. Told'
  BY ToldStep
<1>2. CASE run' \in {"REFUNDED", "APPROVED_AWAITING_SETTLEMENT"}
  BY <1>1, <1>2 DEF RunFollowsLog, Told
<1>3. CASE run' = "DENIED"
  BY <1>1, <1>3 DEF RunFollowsLog, Told
<1>4. CASE run' \notin {"REFUNDED", "APPROVED_AWAITING_SETTLEMENT", "DENIED"}
  BY <1>1, <1>4 DEF RunFollowsLog, Told
<1> QED BY <1>2, <1>3, <1>4

-----------------------------------------------------------------------------
(***************************************************************************)
(* One decision, and no money but for it.                                  *)
(***************************************************************************)
LEMMA NothingSums == MapThenSumSet(LAMBDA n : n, {}) = 0
<1> DEFINE iter == CHOOSE iter : iter = [s \in SUBSET {} |->
                     IF s = {} THEN 0 ELSE (CHOOSE x \in s : TRUE) + iter[s \ {CHOOSE x \in s : TRUE}]]
<1>1. \E g : g = [s \in SUBSET {} |->
               IF s = {} THEN 0 ELSE (CHOOSE x \in s : TRUE) + g[s \ {CHOOSE x \in s : TRUE}]]
  <2> DEFINE g == [s \in SUBSET {} |-> 0]
  <2>1. g = [s \in SUBSET {} |-> IF s = {} THEN 0 ELSE (CHOOSE x \in s : TRUE) + g[s \ {CHOOSE x \in s : TRUE}]]
    OBVIOUS
  <2> QED BY <2>1
<1>2. iter = [s \in SUBSET {} |->
        IF s = {} THEN 0 ELSE (CHOOSE x \in s : TRUE) + iter[s \ {CHOOSE x \in s : TRUE}]]
  BY <1>1
<1>3. iter[{}] = 0
  <2> HIDE DEF iter
  <2> QED BY <1>2
<1>4. MapThenSumSet(LAMBDA n : n, {}) = iter[{}]
  BY DEF MapThenSumSet, MapThenFoldSet
<1> QED BY <1>3, <1>4

\* While the run waits for its decision nothing is decided yet.
LEMMA Undecided ==
  ASSUME SettlementTypeOK, RunInv, RunFollowsLog, ~reopened, run = "PENDING_APPROVAL"
  PROVE  /\ Decision = "none" /\ Positions(Decisions) = {}
         /\ \A a : [type |-> "RefundApproved", amount |-> a] \notin Range(log)
<1>1. Decision = "none" /\ Positions(Decisions) = {}
  BY RunIs, DecisionIs DEF Decisions
<1>2. ASSUME NEW a, [type |-> "RefundApproved", amount |-> a] \in Range(log) PROVE FALSE
  <2>1. PICK i \in DOMAIN log : log[i] = [type |-> "RefundApproved", amount |-> a]
    BY <1>2 DEF Range
  <2>2. i \in Positions(Decisions)
    BY <2>1 DEF Positions, Decisions
  <2> QED BY <1>1, <2>2
<1> QED BY <1>1, <1>2

\* The approval in hand is never refused: what was captured covers the one
\* amount anything was refunded for.
LEMMA ApprovalIsRefundable ==
  ASSUME SettlementTypeOK, LaneInv, RunInv, RunFollowsLog, DecisionInv,
         ~reopened, ~givenUp, delivery # "idle", Head(lane).type = "ApproveRefund"
  PROVE  /\ run = "PENDING_APPROVAL"
         /\ Head(lane) = [type |-> "ApproveRefund", amount |-> Head(lane).amount]
         /\ Head(lane).amount \in Amounts
         /\ Approving(Head(lane).amount)
         /\ Refundable(Head(lane).amount)
<1> DEFINE a == Head(lane).amount
<1>1. lane # <<>> /\ Head(lane) \in Message /\ a \in Amounts
  BY HeadIsMessage DEF LaneInv
<1>2. run = "PENDING_APPROVAL"
  BY <1>1, ExpectedIs DEF RunInv
<1>3. Head(lane) = [type |-> "ApproveRefund", amount |-> a]
  BY <1>1 DEF Message
<1>4. Approving(a)
  BY <1>1, <1>2, <1>3 DEF Approving
<1>5. intent = "captured"
  BY DEF RunInv
<1>6. \A b \in refunds : b = a
  <2>1. ASSUME NEW b \in refunds PROVE b = a
    <3>1. Approving(b)
      BY DEF DecisionInv
    <3>2. Head(lane) = [type |-> "ApproveRefund", amount |-> b]
      BY <1>2, <3>1, Undecided DEF Approving
    <3> QED BY <1>3, <3>2
  <2> QED BY <2>1
<1>7. CASE refunds = {}
  <2>1. a \in 1 .. Price /\ Price \in Nat
    BY <1>1, SettlementAssumption
  <2>2. MapThenSumSet(LAMBDA n : n, refunds) = 0
    BY <1>7, NothingSums
  <2>3. MapThenSumSet(LAMBDA n : n, refunds) + a <= Price
    BY <2>1, <2>2
  <2> QED BY <1>1, <1>2, <1>3, <1>4, <1>5, <2>3 DEF Refundable
<1>8. CASE refunds # {}
  <2>1. a \in refunds
    BY <1>6, <1>8
  <2> QED BY <1>1, <1>2, <1>3, <1>4, <1>5, <2>1 DEF Refundable
<1> QED BY <1>7, <1>8

\* What is refunded, or may yet be asked for, after a step was so before, or
\* is the approval in hand.
LEMMA Asked ==
  ASSUME SettlementTypeOK, LaneInv, [SettlementNext]_vars
  PROVE  /\ \A a \in refunds' \union deposed' :
              a \in refunds \union deposed \/ (delivery = "call" /\ a = Head(lane).amount)
         /\ givenUp => givenUp'
         /\ reopened => reopened'
<1> USE DEF stripeVars, laneVars, runnerVars, historyVars
<1>1. CASE UNCHANGED <<refunds, deposed>> /\ UNCHANGED <<givenUp, reopened>>
  BY <1>1
<1>2. CASE CallRefund
  BY <1>2 DEF CallRefund, Refund
<1>3. CASE Redeliver
  BY <1>3 DEF Redeliver
<1>4. CASE DeposedCall
  BY <1>4 DEF DeposedCall, Refund
<1>5. CASE GiveUp
  BY <1>5 DEF GiveUp
<1>6. CASE CommitDelivery
  BY <1>1, <1>6, CommitRecords
<1>7. ASSUME NEW r \in Runners, UpsertRun(r)
      PROVE  UNCHANGED <<refunds, deposed>> /\ (givenUp => givenUp') /\ (reopened => reopened')
  BY <1>7 DEF UpsertRun
<1>8. ASSUME NEW r \in Runners, LegActions(r)
      PROVE  UpsertRun(r) \/ (UNCHANGED <<refunds, deposed>> /\ UNCHANGED <<givenUp, reopened>>)
  BY <1>8 DEF LegActions, Select, ReadRow, LegError, CallStripe, StripeRefuses, CallTimesOut,
        RecordCaptureFailed, Admit, OpenRefund, CommitLeg, CrashLeg
<1>9. CASE \E r \in Runners : LegActions(r)
  BY <1>1, <1>7, <1>8, <1>9
<1>10. CASE LaneActions
  BY <1>1, <1>2, <1>3, <1>4, <1>5, <1>6, <1>10 DEF LaneActions, SendDecision, ReadRun
<1> QED BY <1>1, <1>9, <1>10, EveryStep DEF AppendToOrder, Project, Expire, RecordFact, steadyVars

LEMMA ApprovingLasts ==
  ASSUME SettlementTypeOK, SettlementTypeOK', LaneInv, RunInv, RunFollowsLog, DecisionInv,
         [SettlementNext]_vars, ~reopened', ~givenUp', NEW a, Approving(a)
  PROVE  Approving(a)'
<1> USE DEF SettlementTypeOK
<1> DEFINE fact == [type |-> "RefundApproved", amount |-> a]
           message == [type |-> "ApproveRefund", amount |-> a]
<1>1. ~reopened /\ ~givenUp
  BY Asked
<1>2. CASE fact \in Range(log)
  <2>1. fact \in Range(log)'
    <3> HIDE DEF fact
    <3> QED BY <1>2, LogStep DEF LogGrows, Range
  <2> QED BY <2>1 DEF Approving
<1>3. CASE lane # <<>> /\ Head(lane) = message /\ run = "PENDING_APPROVAL"
  <2>1. ASSUME lane' # <<>>, Head(lane') = Head(lane), ~CommitDelivery PROVE Approving(a)'
    <3>1. run' = "PENDING_APPROVAL"
      BY <1>3, <2>1, RunMoves DEF UpsertRun
    <3> QED BY <1>3, <2>1, <3>1 DEF Approving
  <2>2. CASE lane' = lane /\ ~CommitDelivery
    BY <1>3, <2>1, <2>2
  <2>3. message.type = "ApproveRefund" /\ Expected = "PENDING_APPROVAL"
    BY <1>3, ExpectedIs
  <2>4. CASE ReadRun
    <3>1. lane' = lane /\ delivery' # "idle"
      BY <1>3, <2>3, <2>4 DEF ReadRun
    <3> QED BY <2>2, <3>1 DEF CommitDelivery, EndDelivery
  <2>5. CASE CallRefund
    <3>1. delivery = "call" /\ Head(lane).type = "ApproveRefund"
      BY <1>3, <2>5 DEF CallRefund
    <3>2. Refundable(Head(lane).amount)
      BY <1>1, <3>1, ApprovalIsRefundable
    <3> QED BY <2>2, <2>5, <3>1, <3>2 DEF CallRefund, CommitDelivery
  <2>6. CASE CommitDelivery
    <3>1. Head(lane).amount = a /\ Head(lane).type = "ApproveRefund"
      BY <1>3
    <3>2. fact \in Fact /\ AppendUnlessRecorded(fact)
      BY <2>6, <3>1, CommitRecords
    <3>3. fact.type = "RefundApproved"
      OBVIOUS
    <3>4. Decision = "none"
      BY <1>1, <1>3, Undecided
    <3> HIDE DEF fact
    <3>5. log' = Append(log, fact)
      BY <3>2, <3>3, <3>4, DecidesAs DEF Decisions
    <3>6. fact \in Range(log)'
      BY <3>2, <3>5, Appended DEF Range
    <3> QED BY <3>6 DEF Approving, fact
  <2>7. CASE SendDecision
    <3>1. PICK m \in Message : lane' = Append(lane, m)
      BY <2>7, DecisionIsMessage DEF SendDecision
    <3>2. lane' # <<>> /\ Head(lane') = Head(lane)
      BY <1>3, <3>1, AppendToLane
    <3>3. run' = run
      BY <2>7 DEF SendDecision
    <3> QED BY <1>3, <3>2, <3>3 DEF Approving
  <2>8. CASE RecordFact
    <3>1. PICK f \in Fact : lane' = IF f.type = "PaymentRefunded" THEN Append(lane, f) ELSE lane
      BY <2>8 DEF RecordFact
    <3>2. lane' # <<>> /\ Head(lane') = Head(lane)
      <4>1. f.type = "PaymentRefunded" => f \in Message
        BY DEF Fact, Message
      <4> QED BY <1>3, <3>1, <4>1, AppendToLane
    <3>3. run' = run
      BY <2>8 DEF RecordFact
    <3> QED BY <1>3, <3>2, <3>3 DEF Approving
  <2>9. CASE Redeliver \/ DeposedCall
    <3>1. lane' = lane /\ run' = run
      BY <2>9 DEF Redeliver, DeposedCall
    <3> QED BY <1>3, <3>1 DEF Approving
  <2>10. ~GiveUp
    BY DEF GiveUp
  <2>11. ASSUME NEW r \in Runners, LegActions(r) PROVE lane' = lane
    BY <2>11 DEF LegActions, Select, ReadRow, LegError, CallStripe, StripeRefuses, CallTimesOut,
        RecordCaptureFailed, Admit, OpenRefund, UpsertRun, CommitLeg, CrashLeg, laneVars
  <2>12. CASE lane' = lane
    BY <2>2, <2>6, <2>12
  <2> QED BY <2>4, <2>5, <2>6, <2>7, <2>8, <2>9, <2>10, <2>11, <2>12, EveryStep
          DEF LaneActions, AppendToOrder, Project, Expire, steadyVars, laneVars
<1> QED BY <1>2, <1>3 DEF Approving

LEMMA DecisionStep ==
  ASSUME SettlementTypeOK, SettlementTypeOK', LaneInv, Reports, RunInv, RunFollowsLog, DecisionInv,
         [SettlementNext]_vars
  PROVE  DecisionInv'
<1> USE DEF SettlementTypeOK
<1> SUFFICES ASSUME ~reopened', ~givenUp'
             PROVE  AtMostOne(Decisions)' /\ \A a \in refunds' \union deposed' : Approving(a)'
  BY DEF DecisionInv
<1>1. ~reopened /\ ~givenUp
  BY Asked
<1>2. AtMostOne(Decisions)'
  <2>1. CASE ~CommitDelivery
    BY <1>1, <2>1, DecisionFrame DEF DecisionInv, AtMostOne
  <2>2. CASE CommitDelivery /\ Head(lane).type = "PaymentRefunded"
    <3>1. log' = log
      BY <2>2, CommitRecords
    <3> QED BY <1>1, <3>1 DEF DecisionInv, AtMostOne, Positions
  <2>3. CASE CommitDelivery /\ Head(lane).type # "PaymentRefunded"
    <3>1. PICK f \in Fact : AppendUnlessRecorded(f)
      BY <2>3, CommitRecords
    <3>2. run = "PENDING_APPROVAL"
      BY <1>1, <2>3, CommitRecords, ExpectedIs DEF RunInv
    <3>3. Positions(Decisions) = {}
      BY <1>1, <3>2, Undecided
    <3>4. CASE log' = log
      BY <3>3, <3>4 DEF AtMostOne, Positions
    <3>5. CASE log' = Append(log, f)
      <4>1. Positions(Decisions)' = Positions(Decisions) \union (IF f.type \in Decisions THEN {Len(log) + 1} ELSE {})
        BY <3>5, AppendPositions
      <4> QED BY <3>3, <4>1 DEF AtMostOne
    <3> QED BY <3>1, <3>4, <3>5 DEF AppendUnlessRecorded
  <2> QED BY <2>1, <2>2, <2>3
<1>3. ASSUME NEW a \in refunds' \union deposed' PROVE Approving(a)'
  <2>1. Approving(a)
    <3>1. CASE a \in refunds \union deposed
      BY <1>1, <3>1 DEF DecisionInv
    <3>2. CASE delivery = "call" /\ a = Head(lane).amount
      BY <1>1, <3>2, ApprovalIsRefundable DEF LaneInv
    <3> QED BY <3>1, <3>2, Asked
  <2> QED BY <2>1, ApprovingLasts
<1> QED BY <1>2, <1>3

-----------------------------------------------------------------------------
(***************************************************************************)
(* The invariant, and the theorems.                                        *)
(***************************************************************************)
LEMMA StepKeepsInv ==
  ASSUME SettlementInv, [SettlementNext]_vars
  PROVE  SettlementInv'
<1> USE DEF SettlementInv
<1>1. SettlementTypeOK'
  BY TypeStep
<1>2. LaneInv' /\ LegInv' /\ MoneyFollowsOrder' /\ Reports' /\ Once'
  BY LaneStep, LegStep, MoneyStep, ReportsStep, OnceStep
<1>3. RunInv' /\ RunFollowsLog'
  BY <1>1, RunStep, RunFollowsLogStep
<1>4. DecisionInv'
  BY <1>1, DecisionStep
<1> QED BY <1>1, <1>2, <1>3, <1>4

LEMMA InitInv == SettlementInit => SettlementInv
<1> SUFFICES ASSUME SettlementInit PROVE SettlementInv
  OBVIOUS
<1> USE DEF SettlementInit
<1>1. Plain("OrderPlaced") \in Fact /\ Plain("OrderPlaced").type = "OrderPlaced"
  BY PlainIsFact, PlainType DEF FactTypes
<1>2. SettlementTypeOK
  <2>1. log \in Seq(Fact) /\ lane \in Seq(Message)
    BY <1>1
  <2>2. checkpoint \in [Sagas -> Nat]
    OBVIOUS
  <2>3. leg \in [Runners -> Leg]
    BY IdleLegIsLeg
  <2> QED BY <2>1, <2>2, <2>3 DEF SettlementTypeOK, RunStatuses
<1>3. ASSUME NEW types, "OrderPlaced" \notin types PROVE Positions(types) = {}
  BY <1>1, <1>3 DEF Positions
<1>4. LaneInv /\ LegInv
  BY IdleLegIsLeg DEF LaneInv, LegInv
<1>5. \A t \in OnceFacts \union Endings \union Decisions \union {"RefundOpened"} : ~Recorded(t)
  BY <1>3 DEF Recorded, OnceFacts, Settlings, Endings, Decisions
<1>6. MoneyFollowsOrder /\ Reports
  BY <1>5 DEF MoneyFollowsOrder, Reports, OnceFacts, Settlings
<1>7. Once
  BY <1>3 DEF Once, AtMostOne, OnceFacts, Settlings
<1>8. RunInv
  BY <1>5, IdleLegIsLeg DEF RunInv
<1>9. Positions(Decisions) = {}
  BY <1>3 DEF Decisions
<1>10. Decision = "none"
  BY <1>2, <1>9, DecisionIs, <1>5
<1>11. RunFollowsLog
  BY <1>10, ToldIsRun DEF Told
<1>12. DecisionInv
  BY <1>9 DEF DecisionInv, AtMostOne
<1> QED BY <1>2, <1>4, <1>6, <1>7, <1>8, <1>11, <1>12 DEF SettlementInv

\* The invariant the theorems below rest on holds in every state: of whatever
\* legs, deliveries and reports are in hand, the log has what they rely on.
THEOREM SettlementInvariant == SettlementSpec => []SettlementInv
<1>1. SettlementInit => SettlementInv
  BY InitInv
<1>2. SettlementInv /\ [SettlementNext]_vars => SettlementInv'
  BY StepKeepsInv
<1> QED BY <1>1, <1>2, PTL DEF SettlementSpec

\* Every variable keeps its type: in particular a leg never looks for a first
\* trigger where there is none, and no worker ends a delivery of an empty lane.
THEOREM SettlementTypesHold == SettlementSpec => []SettlementTypeOK
<1>1. SettlementInv => SettlementTypeOK
  BY DEF SettlementInv
<1> QED BY <1>1, SettlementInvariant, PTL

\* The money of an order is captured only after the food was handed over, and
\* a saga lets go of it only of an order that was aborted, whatever legs are
\* replayed by whatever runners and whatever Stripe's answers become of.
THEOREM MoneyFollows == SettlementSpec => []MoneyFollowsOrder
<1>1. SettlementInv => MoneyFollowsOrder
  BY DEF SettlementInv
<1> QED BY <1>1, SettlementInvariant, PTL

LEMMA AtMostOneCounts ==
  ASSUME NEW types, AtMostOne(types)
  PROVE  Cardinality(Positions(types)) <= 1
<1>1. CASE Positions(types) = {}
  BY <1>1, FS_EmptySet
<1>2. CASE Positions(types) # {}
  <2>1. PICK i \in Positions(types) : TRUE
    BY <1>2
  <2>2. Positions(types) = {i}
    BY <2>1 DEF AtMostOne
  <2>3. Cardinality({i}) = 1
    BY FS_Singleton
  <2> QED BY <2>2, <2>3
<1> QED BY <1>1, <1>2

\* What a saga appends is appended once, and so is what Stripe reports of it,
\* although legs and reports are repeated and overlap.
THEOREM AppendedOnce == SettlementSpec => []RecordedOnce
<1>1. SettlementInv => RecordedOnce
  <2>1. SettlementInv => \A t \in OnceFacts : AtMostOne({t})
    BY DEF SettlementInv, Once
  <2> QED BY <2>1, AtMostOneCounts DEF RecordedOnce, OnceFacts, Settlings
<1> QED BY <1>1, SettlementInvariant, PTL

\* The run's row never claims what the log does not say, and says it all
\* unless a leg that was late has opened it again.
THEOREM RunTells == SettlementSpec => []RunFollowsLog
<1>1. SettlementInv => RunFollowsLog
  BY DEF SettlementInv
<1> QED BY <1>1, SettlementInvariant, PTL

LEMMA InvDecidesOnce == ASSUME SettlementInv PROVE OneDecision
<1> USE DEF SettlementInv
<1> SUFFICES ASSUME ~reopened, ~givenUp
             PROVE  /\ Cardinality(Positions({"RefundApproved", "RefundDenied"})) <= 1
                    /\ Recorded("RefundDenied") => refunds = {}
                    /\ Cardinality(refunds) <= 1
                    /\ \A a \in refunds :
                         \/ [type |-> "RefundApproved", amount |-> a] \in Range(log)
                         \/ lane # <<>> /\ Head(lane) = [type |-> "ApproveRefund", amount |-> a]
  BY DEF OneDecision
<1>1. AtMostOne(Decisions) /\ \A a \in refunds : Approving(a)
  BY DEF DecisionInv
<1>2. Cardinality(Positions({"RefundApproved", "RefundDenied"})) <= 1
  BY <1>1, AtMostOneCounts DEF Decisions
<1>3. ASSUME NEW a \in refunds, [type |-> "RefundApproved", amount |-> a] \in Range(log)
      PROVE  \E i \in Positions(Decisions) : log[i] = [type |-> "RefundApproved", amount |-> a]
  BY <1>3 DEF Range, Positions, Decisions
<1>4. ASSUME Recorded("RefundDenied"), NEW a \in refunds PROVE FALSE
  <2>1. PICK j \in Positions(Decisions) : log[j].type = "RefundDenied"
    BY <1>4 DEF Recorded, Positions, Decisions
  <2>2. CASE [type |-> "RefundApproved", amount |-> a] \in Range(log)
    <3>1. PICK i \in Positions(Decisions) : log[i] = [type |-> "RefundApproved", amount |-> a]
      BY <1>3, <2>2
    <3>2. i = j
      BY <1>1 DEF AtMostOne
    <3> QED BY <2>1, <3>1, <3>2
  <2>3. CASE run = "PENDING_APPROVAL"
    BY <2>1, <2>3, Undecided
  <2> QED BY <1>1, <2>2, <2>3 DEF Approving
<1>5. ASSUME NEW a \in refunds, NEW b \in refunds PROVE a = b
  <2>1. CASE run = "PENDING_APPROVAL"
    <3>1. /\ Head(lane) = [type |-> "ApproveRefund", amount |-> a]
          /\ Head(lane) = [type |-> "ApproveRefund", amount |-> b]
      BY <1>1, <2>1, Undecided DEF Approving
    <3> QED BY <3>1
  <2>2. CASE run # "PENDING_APPROVAL"
    <3>1. PICK i \in Positions(Decisions) : log[i] = [type |-> "RefundApproved", amount |-> a]
      BY <1>1, <1>3, <2>2 DEF Approving
    <3>2. PICK j \in Positions(Decisions) : log[j] = [type |-> "RefundApproved", amount |-> b]
      BY <1>1, <1>3, <2>2 DEF Approving
    <3>3. i = j
      BY <1>1 DEF AtMostOne
    <3> QED BY <3>1, <3>2, <3>3
  <2> QED BY <2>1, <2>2
<1>6. Cardinality(refunds) <= 1
  <2>1. CASE refunds = {}
    BY <2>1, FS_EmptySet
  <2>2. CASE refunds # {}
    <3>1. PICK a \in refunds : TRUE
      BY <2>2
    <3>2. refunds = {a}
      BY <1>5, <3>1
    <3>3. Cardinality({a}) = 1
      BY FS_Singleton
    <3> QED BY <3>2, <3>3
  <2> QED BY <2>1, <2>2
<1> QED BY <1>1, <1>2, <1>4, <1>6 DEF Approving

\* As long as no leg reopened the run and the mailbox gave no approval up, the
\* refund is decided once, refunds one amount at most, and none that is not
\* approved.
THEOREM DecidedOnce == SettlementSpec => []OneDecision
<1>1. SettlementInv => OneDecision
  BY InvDecidesOnce
<1> QED BY <1>1, SettlementInvariant, PTL

-----------------------------------------------------------------------------
(***************************************************************************)
(* The promise.                                                            *)
(***************************************************************************)

\* The order ends one way, Stripe paid what is on record as paid or approved,
\* and what is about to be paid was asked for.
EscrowInv ==
  /\ Recorded("OrderDelivered") => Positions(Aborts) = {}
  /\ delivery = "commit" /\ Approves => Head(lane).amount \in refunds
  /\ \A f \in reported : f.type = "PaymentRefunded" => f.amount \in refunds
  /\ deposed # {} => Recorded("RefundOpened")
  /\ \A f \in Range(log) : f.type \in {"PaymentRefunded", "RefundApproved"} => f.amount \in refunds

\* What the promise sees of the log does not change while the log does not.
LEMMA LogMaps ==
  ASSUME log' = log
  PROVE  /\ Outcome' = Outcome /\ Verdict' = Verdict /\ Booked' = Booked /\ Repaid' = Repaid
         /\ Recorded("RefundOpened")' = Recorded("RefundOpened")
BY DEF Outcome, Verdict, Booked, Repaid, Decision, Newest, Recorded, Positions

LEMMA AppendRange ==
  ASSUME SettlementTypeOK, NEW f \in Fact, log' = Append(log, f)
  PROVE  Range(log') = Range(log) \union {f}
<1>1. /\ DOMAIN log' = DOMAIN log \union {Len(log) + 1} /\ log'[Len(log) + 1] = f
      /\ \A i \in DOMAIN log : log'[i] = log[i]
  BY Appended DEF SettlementTypeOK, LogGrows
<1>2. ASSUME NEW x \in Range(log') PROVE x \in Range(log) \union {f}
  <2>1. PICK i \in DOMAIN log' : x = log'[i]
    BY <1>2 DEF Range
  <2>2. CASE i \in DOMAIN log
    BY <1>1, <2>1, <2>2 DEF Range
  <2>3. CASE i = Len(log) + 1
    BY <1>1, <2>1, <2>3
  <2> QED BY <1>1, <2>2, <2>3
<1>3. ASSUME NEW x \in Range(log) PROVE x \in Range(log')
  <2>1. PICK i \in DOMAIN log : x = log[i]
    BY <1>3 DEF Range
  <2> QED BY <1>1, <2>1 DEF Range
<1>4. f \in Range(log')
  BY <1>1 DEF Range
<1> QED BY <1>2, <1>3, <1>4

\* What it sees of a fact appended.
LEMMA AppendMaps ==
  ASSUME SettlementTypeOK, SettlementTypeOK', NEW f \in Fact, log' = Append(log, f)
  PROVE  /\ f.type \notin Endings => Outcome' = Outcome
         /\ f.type \notin Decisions => Verdict' = Verdict
         /\ f.type \notin Settlings => Booked' = Booked
         /\ f.type # "PaymentRefunded" => Repaid' = Repaid
         /\ f.type # "RefundOpened" => Recorded("RefundOpened")' = Recorded("RefundOpened")
<1>a. \A types : Positions(types)' = Positions(types) \union (IF f.type \in types THEN {Len(log) + 1} ELSE {})
  BY AppendPositions DEF SettlementTypeOK
<1>1. ASSUME f.type \notin Endings PROVE Outcome' = Outcome
  <2>1. Positions(Aborts)' = Positions(Aborts)
    BY <1>1, <1>a DEF Aborts
  <2>2. Positions({"OrderDelivered"})' = Positions({"OrderDelivered"})
    BY <1>1, <1>a DEF Endings
  <2> QED BY <2>1, <2>2 DEF Outcome, Recorded
<1>2. ASSUME f.type \notin Decisions PROVE Verdict' = Verdict
  BY <1>2, DecisionAppend DEF Verdict
<1>3. ASSUME f.type \notin Settlings PROVE Booked' = Booked
  <2>1. Positions({"PaymentCaptured"})' = Positions({"PaymentCaptured"})
    BY <1>3, <1>a DEF Settlings
  <2>2. Positions({"PaymentReleased"})' = Positions({"PaymentReleased"})
    BY <1>3, <1>a DEF Settlings
  <2> QED BY <2>1, <2>2 DEF Booked, Recorded
<1>4. ASSUME f.type # "PaymentRefunded" PROVE Repaid' = Repaid
  <2>1. \A a : [type |-> "PaymentRefunded", amount |-> a] # f
    BY <1>4
  <2>2. Range(log') = Range(log) \union {f}
    BY AppendRange
  <2> QED BY <2>1, <2>2 DEF Repaid
<1>5. ASSUME f.type # "RefundOpened" PROVE Recorded("RefundOpened")' = Recorded("RefundOpened")
  BY <1>5, <1>a DEF Recorded
<1> QED BY <1>1, <1>2, <1>3, <1>4, <1>5

\* Only an order that has not ended comes to an end.
LEMMA Ends ==
  ASSUME SettlementTypeOK, LaneInv, Reports, [SettlementNext]_vars
  PROVE  \/ \A types \in SUBSET Endings : Positions(types)' = Positions(types)
         \/ \E t \in Endings : AppendToOrder(t) /\ Positions(Endings) = {}
<1> DEFINE Stand == \A types \in SUBSET Endings : Positions(types)' = Positions(types)
<1>1. CASE log' = log
  BY <1>1 DEF Positions
<1>2. ASSUME NEW f \in Fact, log' = Append(log, f), f.type \notin Endings PROVE Stand
  <2> SUFFICES ASSUME NEW types \in SUBSET Endings PROVE Positions(types)' = Positions(types)
    OBVIOUS
  <2>1. Positions(types)' = Positions(types) \union (IF f.type \in types THEN {Len(log) + 1} ELSE {})
    BY <1>2, AppendPositions DEF SettlementTypeOK
  <2> QED BY <1>2, <2>1
<1>3. \A f \in reported : f.type \notin Endings
  BY DEF Reports, Settlings, Endings
<1>4. Plain("PaymentCaptureFailed").type \notin Endings /\ Plain("RefundOpened").type \notin Endings
  BY DEF Plain, Endings
<1>5. \A t \in Decisions : t \notin Endings
  BY DEF Decisions, Endings
<1> HIDE DEF Stand
<1> QED BY <1>1, <1>2, <1>3, <1>4, <1>5, WhatIsAppended DEF Stand

LEMMA OrderAppends ==
  ASSUME SettlementTypeOK, NEW t \in Endings, AppendToOrder(t)
  PROVE  \A types : Positions(types)' = Positions(types) \union (IF t \in types THEN {Len(log) + 1} ELSE {})
<1>1. Plain(t) \in Fact /\ Plain(t).type = t /\ log' = Append(log, Plain(t))
  BY PlainIsFact DEF Plain, AppendToOrder, FactTypes
<1> QED BY <1>1, AppendPositions DEF SettlementTypeOK

\* Whoever calls Stripe for a refund, and what comes of the call.
LEMMA RefundMoves ==
  ASSUME SettlementTypeOK, LaneInv, LegInv, [SettlementNext]_vars
  PROVE  \/ UNCHANGED refunds /\ \A f \in reported' : f \in reported \/ f.type \in Settlings
         \/ \E a \in Amounts :
              /\ Refundable(a) /\ refunds' = refunds \union {a}
              /\ \A f \in reported' : f \in reported \/ f = [type |-> "PaymentRefunded", amount |-> a]
              /\ UNCHANGED <<log, intent, reopened, givenUp>>
              /\ (delivery = "call" /\ a = Head(lane).amount) \/ a \in deposed
<1> DEFINE None == UNCHANGED refunds /\ \A f \in reported' : f \in reported \/ f.type \in Settlings
           Some(a) == /\ Refundable(a) /\ refunds' = refunds \union {a}
                      /\ \A f \in reported' : f \in reported \/ f = [type |-> "PaymentRefunded", amount |-> a]
                      /\ UNCHANGED <<log, intent, reopened, givenUp>>
                      /\ (delivery = "call" /\ a = Head(lane).amount) \/ a \in deposed
<1>1. CASE UNCHANGED <<refunds, reported>>
  BY <1>1
<1>2. ASSUME NEW r \in Runners, LegActions(r) PROVE None
  <2>1. SettledFact(r).type \in Settlings
    BY DEF SettledFact, Plain, Settlings
  <2>2. UNCHANGED refunds /\ (reported' = reported \/ reported' = reported \union {SettledFact(r)})
    BY <1>2 DEF LegActions, Select, ReadRow, LegError, CallStripe, StripeRefuses, CallTimesOut,
         RecordCaptureFailed, Admit, OpenRefund, UpsertRun, CommitLeg, CrashLeg, stripeVars
  <2> HIDE DEF LegActions
  <2> QED BY <2>1, <2>2
<1>3. ASSUME CallRefund PROVE None \/ \E a \in Amounts : Some(a)
  <2>1. Head(lane).amount \in Amounts
    BY <1>3, HeadIsMessage DEF CallRefund, LaneInv
  <2>2. CASE Refundable(Head(lane).amount)
    <3>1. Some(Head(lane).amount)
      BY <1>3, <2>2 DEF CallRefund, Refund, historyVars
    <3> QED BY <2>1, <3>1
  <2>3. CASE ~Refundable(Head(lane).amount)
    BY <1>3, <2>3 DEF CallRefund, stripeVars
  <2> QED BY <2>2, <2>3
<1>4. ASSUME DeposedCall PROVE None \/ \E a \in Amounts : Some(a)
  <2>1. PICK a \in deposed : IF Refundable(a) THEN Refund(a) ELSE UNCHANGED stripeVars
    BY <1>4 DEF DeposedCall
  <2>2. a \in Amounts
    BY DEF SettlementTypeOK
  <2>3. CASE Refundable(a)
    <3>1. Some(a)
      BY <1>4, <2>1, <2>3 DEF DeposedCall, Refund, historyVars
    <3> QED BY <2>2, <3>1
  <2>4. CASE ~Refundable(a)
    BY <2>1, <2>4 DEF stripeVars
  <2> QED BY <2>3, <2>4
<1>5. CASE Expire
  BY <1>5 DEF Expire, Plain, Settlings
<1>6. CASE RecordFact
  BY <1>6 DEF RecordFact
<1>7. CASE LaneActions
  <2>1. CallRefund \/ DeposedCall \/ UNCHANGED <<refunds, reported>>
    BY <1>7 DEF LaneActions, SendDecision, ReadRun, CommitDelivery, Redeliver, GiveUp, stripeVars
  <2> QED BY <1>1, <1>3, <1>4, <2>1
<1>8. ASSUME (\E t \in OrderEvents : AppendToOrder(t)) \/ Project \/ UNCHANGED steadyVars
      PROVE  UNCHANGED <<refunds, reported>>
  BY <1>8 DEF AppendToOrder, Project, steadyVars, stripeVars
<1> QED BY <1>1, <1>2, <1>5, <1>6, <1>7, <1>8, EveryStep

\* A delivery comes to its commit from the read, if it is no approval, or from
\* the call, which then refunded the amount.
LEMMA ComesToCommit ==
  ASSUME [SettlementNext]_vars, delivery' = "commit"
  PROVE  \/ delivery = "commit"
         \/ ~Approves
         \/ Head(lane).amount \in refunds'
<1> USE DEF stripeVars, laneVars, runnerVars, historyVars
<1>1. ASSUME NEW r \in Runners, LegActions(r) PROVE delivery' = delivery
  BY <1>1 DEF LegActions, Select, ReadRow, LegError, CallStripe, StripeRefuses, CallTimesOut,
        RecordCaptureFailed, Admit, OpenRefund, UpsertRun, CommitLeg, CrashLeg
<1>2. CASE ReadRun
  BY <1>2 DEF ReadRun, EndDelivery
<1>3. CASE CallRefund
  BY <1>3 DEF CallRefund, EndDelivery, Refund
<1>4. LaneActions => ReadRun \/ CallRefund \/ delivery' = delivery
  BY DEF LaneActions, SendDecision, CommitDelivery, Redeliver, DeposedCall, GiveUp, EndDelivery
<1>5. (\E t \in OrderEvents : AppendToOrder(t)) \/ Project \/ Expire \/ RecordFact \/ UNCHANGED steadyVars
        => delivery' = delivery
  BY DEF AppendToOrder, Project, Expire, RecordFact, steadyVars
<1> QED BY <1>1, <1>2, <1>3, <1>4, <1>5, EveryStep

LEMMA EscrowStep ==
  ASSUME SettlementInv, SettlementTypeOK', EscrowInv, [SettlementNext]_vars
  PROVE  EscrowInv'
<1> USE DEF SettlementInv
<1>1. refunds \subseteq refunds'
  BY RefundMoves
<1>2. LogGrows /\ (Recorded("RefundOpened") => Recorded("RefundOpened")')
  BY LogStep, StillRecorded
<1>3. Recorded("OrderDelivered")' => Positions(Aborts)' = {}
  <2>1. {"OrderDelivered"} \in SUBSET Endings /\ Aborts \in SUBSET Endings
    BY DEF Endings, Aborts
  <2>2. CASE \A types \in SUBSET Endings : Positions(types)' = Positions(types)
    <3>1. Positions({"OrderDelivered"})' = Positions({"OrderDelivered"}) /\ Positions(Aborts)' = Positions(Aborts)
      BY <2>1, <2>2
    <3> QED BY <3>1 DEF EscrowInv, Recorded
  <2>3. ASSUME NEW t \in Endings, AppendToOrder(t), Positions(Endings) = {}
        PROVE  Recorded("OrderDelivered")' => Positions(Aborts)' = {}
    <3>1. Positions({"OrderDelivered"}) = {} /\ Positions(Aborts) = {}
      BY <2>1, <2>3 DEF Positions
    <3>2. /\ Positions({"OrderDelivered"})' = Positions({"OrderDelivered"}) \union
                (IF t \in {"OrderDelivered"} THEN {Len(log) + 1} ELSE {})
          /\ Positions(Aborts)' = Positions(Aborts) \union (IF t \in Aborts THEN {Len(log) + 1} ELSE {})
      BY <2>3, OrderAppends
    <3>3. CASE t \in Aborts
      BY <3>1, <3>2, <3>3 DEF Recorded, Aborts
    <3>4. CASE t \notin Aborts
      BY <3>1, <3>2, <3>4
    <3> QED BY <3>3, <3>4
  <2> QED BY <2>2, <2>3, Ends
<1>4. ASSUME delivery' = "commit", Approves' PROVE Head(lane').amount \in refunds'
  <2>1. Head(lane') = Head(lane) /\ Approves
    BY <1>4, DeliveryMoves DEF Approves
  <2>2. delivery = "commit" \/ Head(lane).amount \in refunds'
    BY <1>4, <2>1, ComesToCommit
  <2> QED BY <1>1, <2>1, <2>2 DEF EscrowInv
<1>5. ASSUME NEW f \in reported', f.type = "PaymentRefunded" PROVE f.amount \in refunds'
  <2>1. f \in reported \/ f.amount \in refunds'
    <3>1. CASE \A g \in reported' : g \in reported \/ g.type \in Settlings
      BY <1>5, <3>1 DEF Settlings
    <3>2. ASSUME NEW a \in Amounts, refunds' = refunds \union {a},
                 \A g \in reported' : g \in reported \/ g = [type |-> "PaymentRefunded", amount |-> a]
          PROVE  f \in reported \/ f.amount \in refunds'
      BY <1>5, <3>2
    <3> QED BY <3>1, <3>2, RefundMoves
  <2> QED BY <1>1, <1>5, <2>1 DEF EscrowInv
<1>6. deposed' # {} => Recorded("RefundOpened")'
  <2>1. deposed' # {} => deposed # {} \/ delivery = "call"
    <3>1. ASSUME NEW r \in Runners, LegActions(r) PROVE deposed' = deposed
      BY <3>1 DEF LegActions, Select, ReadRow, LegError, CallStripe, StripeRefuses, CallTimesOut,
            RecordCaptureFailed, Admit, OpenRefund, UpsertRun, CommitLeg, CrashLeg, laneVars
    <3>2. LaneActions => deposed' = deposed \/ deposed # {} \/ delivery = "call"
      BY DEF LaneActions, SendDecision, ReadRun, CallRefund, CommitDelivery, Redeliver, DeposedCall, GiveUp
    <3>3. (\E t \in OrderEvents : AppendToOrder(t)) \/ Project \/ Expire \/ RecordFact \/ UNCHANGED steadyVars
            => deposed' = deposed
      BY DEF AppendToOrder, Project, Expire, RecordFact, steadyVars, laneVars
    <3> QED BY <3>1, <3>2, <3>3, EveryStep
  <2> QED BY <1>2, <2>1 DEF EscrowInv, RunInv
<1>7. ASSUME NEW f \in Range(log'), f.type \in {"PaymentRefunded", "RefundApproved"}
      PROVE  f.amount \in refunds'
  <2>1. CASE f \in Range(log)
    BY <1>1, <1>7, <2>1 DEF EscrowInv
  <2>2. ASSUME f \notin Range(log) PROVE f.amount \in refunds'
    <3>1. ASSUME NEW g \in Fact, log' = Append(log, g) PROVE f = g
      BY <1>7, <2>2, <3>1, AppendRange
    <3>2. ASSUME f \in reported PROVE f.amount \in refunds'
      BY <1>1, <1>7, <3>2 DEF EscrowInv, Reports, Settlings
    <3>3. ASSUME CommitDelivery, f.type \in Decisions PROVE f.amount \in refunds'
      <4>1. f.type = "RefundApproved"
        BY <1>7, <3>3 DEF Decisions
      <4>2. f \in Fact
        BY <1>7, SettlementTypeOK' DEF SettlementTypeOK, Range
      <4>3. Head(lane).type = "ApproveRefund" /\ f.amount = Head(lane).amount
        <5>1. ASSUME NEW g \in Fact, AppendUnlessRecorded(g) PROVE f = g
          <6>1. log' # log
            BY <1>7, <2>2
          <6> QED BY <3>1, <5>1, <6>1 DEF AppendUnlessRecorded
        <5>2. CASE Head(lane).type = "DenyRefund"
          BY <3>3, <4>1, <5>1, <5>2, CommitRecords, PlainType
        <5>3. CASE Head(lane).type = "PaymentRefunded"
          BY <1>7, <2>2, <3>3, <5>3, CommitRecords
        <5>4. CASE Head(lane).type = "ApproveRefund"
          BY <3>3, <5>1, <5>4, CommitRecords
        <5> QED BY <3>3, <5>2, <5>3, <5>4, CommitRecords
      <4>4. delivery = "commit"
        BY <3>3 DEF CommitDelivery
      <4> QED BY <1>1, <4>3, <4>4 DEF EscrowInv, Approves
    <3>4. ASSUME NEW g \in Fact, log' = Append(log, g),
                 \/ g.type \in OrderEvents
                 \/ g = Plain("PaymentCaptureFailed") \/ g = Plain("RefundOpened")
          PROVE  FALSE
      <4>1. g = f
        BY <3>1, <3>4
      <4>2. f.type \in OrderEvents \union {"PaymentCaptureFailed", "RefundOpened"}
        BY <3>4, <4>1, PlainType
      <4> QED BY <1>7, <4>2 DEF OrderEvents, Endings
    <3>5. log' # log
      BY <1>7, <2>2
    <3> QED BY <3>1, <3>2, <3>3, <3>4, <3>5, WhatIsAppended
  <2> QED BY <2>1, <2>2
<1> QED BY <1>3, <1>4, <1>5, <1>6, <1>7 DEF EscrowInv

LEMMA EscrowInitially == SettlementInit => EscrowInv
<1> SUFFICES ASSUME SettlementInit PROVE EscrowInv
  OBVIOUS
<1>1. log = <<Plain("OrderPlaced")>> /\ Plain("OrderPlaced").type = "OrderPlaced"
  BY PlainType DEF SettlementInit
<1>2. ~Recorded("OrderDelivered")
  BY <1>1, RecordedIs
<1>3. \A f \in Range(log) : f.type = "OrderPlaced"
  BY <1>1 DEF Range
<1> QED BY <1>2, <1>3 DEF SettlementInit, EscrowInv

\* What may decide the refund another time, and that it changes nothing else
\* of what the promise sees.
LEMMA AgainMoves ==
  ASSUME SettlementInv, [SettlementNext]_vars
  PROVE  \/ UNCHANGED <<reopened, givenUp>>
         \/ /\ Recorded("RefundOpened")
            /\ UNCHANGED <<log, intent, refunds>>
            /\ (reopened' \/ givenUp') /\ (reopened => reopened')
<1> USE DEF stripeVars, historyVars, SettlementInv
<1> DEFINE Again == \/ UNCHANGED <<reopened, givenUp>>
                    \/ /\ Recorded("RefundOpened")
                       /\ UNCHANGED <<log, intent, refunds>>
                       /\ (reopened' \/ givenUp') /\ (reopened => reopened')
<1>1. ASSUME NEW r \in Runners, UpsertRun(r) PROVE Again
  <2>1. UNCHANGED <<log, intent, refunds, givenUp>> /\ leg[r].at = "upsert"
    BY <1>1 DEF UpsertRun, At
  <2>2. Recorded("RefundOpened")
    BY <2>1 DEF RunInv
  <2>3. reopened' = (reopened \/ run \notin {"none", "PENDING_APPROVAL"})
    BY <1>1 DEF UpsertRun
  <2>4. reopened \in BOOLEAN
    BY DEF SettlementTypeOK
  <2> QED BY <2>1, <2>2, <2>3, <2>4
<1>2. CASE GiveUp
  BY <1>2 DEF GiveUp, RunInv
<1>3. ASSUME NEW r \in Runners, LegActions(r) PROVE UpsertRun(r) \/ UNCHANGED <<reopened, givenUp>>
  BY <1>3 DEF LegActions, Select, ReadRow, LegError, CallStripe, StripeRefuses, CallTimesOut,
        RecordCaptureFailed, Admit, OpenRefund, CommitLeg, CrashLeg
<1>4. LaneActions => GiveUp \/ UNCHANGED <<reopened, givenUp>>
  BY DEF LaneActions, SendDecision, ReadRun, CallRefund, CommitDelivery, Redeliver, DeposedCall
<1>5. (\E t \in OrderEvents : AppendToOrder(t)) \/ Project \/ Expire \/ RecordFact \/ UNCHANGED steadyVars
        => UNCHANGED <<reopened, givenUp>>
  BY DEF AppendToOrder, Project, Expire, RecordFact, steadyVars
<1> QED BY <1>1, <1>2, <1>3, <1>4, <1>5, EveryStep

\* While the run waits for its decision, whatever was refunded is the amount of
\* the approval in hand.
LEMMA OnlyTheHead ==
  ASSUME SettlementInv, ~reopened, ~givenUp, run = "PENDING_APPROVAL", NEW b \in refunds \union deposed
  PROVE  lane # <<>> /\ Head(lane) = [type |-> "ApproveRefund", amount |-> b]
BY Undecided DEF SettlementInv, DecisionInv, Approving

\* What a refund rests on: the promise's guard of a payment.
LEMMA PaysUndecided ==
  ASSUME SettlementInv, EscrowInv, ~reopened, ~givenUp, NEW a \in Amounts, a \notin refunds,
         (delivery = "call" /\ a = Head(lane).amount) \/ a \in deposed
  PROVE  Verdict = "none" /\ refunds = {}
<1> USE DEF SettlementInv
<1>1. Approving(a)
  <2>1. CASE delivery = "call" /\ a = Head(lane).amount
    BY <2>1, ApprovalIsRefundable DEF LaneInv
  <2>2. CASE a \in deposed
    BY <2>2 DEF DecisionInv
  <2> QED BY <2>1, <2>2
<1>2. [type |-> "RefundApproved", amount |-> a] \notin Range(log)
  <2> DEFINE f == [type |-> "RefundApproved", amount |-> a]
  <2>1. f.type = "RefundApproved" /\ f.amount = a
    OBVIOUS
  <2> HIDE DEF f
  <2>2. f \notin Range(log)
    BY <2>1 DEF EscrowInv
  <2> QED BY <2>2 DEF f
<1>3. run = "PENDING_APPROVAL" /\ Head(lane) = [type |-> "ApproveRefund", amount |-> a]
  BY <1>1, <1>2 DEF Approving
<1>4. Verdict = "none"
  BY <1>3, Undecided DEF Verdict
<1>5. ASSUME NEW b \in refunds PROVE FALSE
  <2>1. Head(lane) = [type |-> "ApproveRefund", amount |-> b]
    BY <1>3, OnlyTheHead
  <2>2. a = b
    BY <1>3, <2>1
  <2> QED BY <1>5, <2>2
<1> QED BY <1>4, <1>5

\* The promise sums as the model does.
LEMMA SameSum ==
  ASSUME NEW S
  PROVE  Promise!MapThenSumSet(LAMBDA n : n, S) = MapThenSumSet(LAMBDA n : n, S)
BY DEF MapThenSumSet, MapThenFoldSet, Promise!MapThenSumSet, Promise!MapThenFoldSet

\* A step that records nothing settles the money, pays a refund back, lets it
\* be decided again, or is none of the promise's.
LEMMA UnrecordedStepRefines ==
  ASSUME SettlementInv, EscrowInv, [SettlementNext]_vars, log' = log
  PROVE  [Promise!EscrowNext]_(Promise!escrowVars)
<1> USE DEF SettlementInv
<1> DEFINE Seen == /\ Outcome' = Outcome /\ Verdict' = Verdict /\ Booked' = Booked /\ Repaid' = Repaid
                   /\ Recorded("RefundOpened")' = Recorded("RefundOpened")
<1>1. Seen
  BY LogMaps
<1>2. CASE intent' # intent
  <2>1. /\ intent = "held"
        /\ \/ intent' = "captured" /\ Recorded("OrderDelivered")
           \/ intent' = "released" /\ Positions(Aborts) # {}
           \/ intent' = "expired"
    BY <1>2, WhatIsReported DEF SettlesAs, RecordFact
  <2>2. UNCHANGED refunds
    BY <1>2, RefundMoves
  <2>3. UNCHANGED <<reopened, givenUp>>
    BY <1>2, AgainMoves
  <2>4. /\ Recorded("OrderDelivered") => Outcome = "served"
        /\ Positions(Aborts) # {} => Outcome = "aborted"
    BY DEF Outcome, EscrowInv
  <2>5. Promise!Settle
    BY <1>1, <2>1, <2>2, <2>3, <2>4 DEF Promise!Settle
  <2> QED BY <2>5 DEF Promise!EscrowNext
<1>3. CASE refunds' # refunds
  <2>1. PICK a \in Amounts :
          /\ Refundable(a) /\ refunds' = refunds \union {a}
          /\ UNCHANGED <<intent, reopened, givenUp>>
          /\ (delivery = "call" /\ a = Head(lane).amount) \/ a \in deposed
    BY <1>3, RefundMoves
  <2>2. a \notin refunds
    BY <1>3, <2>1
  <2>3. Recorded("RefundOpened")
    BY <2>1 DEF RunInv, EscrowInv
  <2>4. (Verdict = "none" /\ refunds = {}) \/ reopened \/ givenUp
    BY <2>1, <2>2, PaysUndecided
  <2>5. intent = "captured" /\ MapThenSumSet(LAMBDA n : n, refunds) + a <= Price
    BY <2>1, <2>2 DEF Refundable
  <2>6. Promise!PayBack(a)
    BY <1>1, <2>1, <2>2, <2>3, <2>4, <2>5, SameSum DEF Promise!PayBack, Promise!Undecided
  <2> QED BY <2>6 DEF Promise!EscrowNext
<1>4. CASE UNCHANGED <<intent, refunds>>
  <2>1. CASE (reopened' \/ givenUp') = (reopened \/ givenUp)
    BY <1>1, <1>4, <2>1 DEF Promise!escrowVars
  <2>2. CASE (reopened' \/ givenUp') # (reopened \/ givenUp)
    <3>1. /\ Recorded("RefundOpened")
          /\ ~(reopened \/ givenUp)
          /\ (reopened' \/ givenUp') = TRUE
      BY <2>2, AgainMoves, Asked DEF SettlementTypeOK
    <3>2. Promise!Reopen
      BY <1>1, <1>4, <3>1 DEF Promise!Reopen
    <3> QED BY <3>2 DEF Promise!EscrowNext
  <2> QED BY <2>1, <2>2
<1> QED BY <1>2, <1>3, <1>4

\* A step that records something changes nothing else the promise sees.
LEMMA RecordingFrame ==
  ASSUME SettlementInv, [SettlementNext]_vars, log' # log
  PROVE  UNCHANGED <<intent, refunds, reopened, givenUp>>
<1> USE DEF SettlementInv
<1>1. UNCHANGED refunds
  BY RefundMoves
<1>2. UNCHANGED <<reopened, givenUp>>
  BY AgainMoves
<1>3. UNCHANGED intent
  BY WhatIsReported DEF RecordFact
<1> QED BY <1>1, <1>2, <1>3

\* The end of the order is the promise's.
LEMMA OrderEventRefines ==
  ASSUME SettlementInv, SettlementTypeOK', [SettlementNext]_vars, log' # log,
         NEW f \in Fact, log' = Append(log, f), f.type \in OrderEvents,
         f.type \in Endings => Positions(Endings) = {}
  PROVE  [Promise!EscrowNext]_(Promise!escrowVars)
<1> USE DEF SettlementInv
<1>1. UNCHANGED <<intent, refunds, reopened, givenUp>>
  BY RecordingFrame
<1>2. f.type \notin Decisions \union Settlings /\ f.type \notin {"PaymentRefunded", "RefundOpened"}
  BY DEF OrderEvents, Endings, Decisions, Settlings
<1>3. Verdict' = Verdict /\ Booked' = Booked /\ Repaid' = Repaid /\ Recorded("RefundOpened")' = Recorded("RefundOpened")
  BY <1>2, AppendMaps
<1>4. CASE f.type \notin Endings
  <2>1. Outcome' = Outcome
    BY <1>4, AppendMaps
  <2> QED BY <1>1, <1>3, <2>1 DEF Promise!escrowVars
<1>5. CASE f.type \in Endings
  <2>1. Positions({"OrderDelivered"}) = {} /\ Positions(Aborts) = {}
    BY <1>5 DEF Positions, Endings, Aborts
  <2>2. Outcome = "open"
    BY <2>1 DEF Outcome, Recorded
  <2>3. \A types : Positions(types)' = Positions(types) \union (IF f.type \in types THEN {Len(log) + 1} ELSE {})
    BY AppendPositions DEF SettlementTypeOK
  <2>4. Positions({"OrderDelivered"})' # {} \/ Positions(Aborts)' # {}
    BY <1>5, <2>3 DEF Aborts
  <2>5. Outcome' \in {"served", "aborted"}
    BY <2>4 DEF Outcome, Recorded
  <2>6. Promise!EndOrder
    BY <1>1, <1>3, <2>2, <2>5 DEF Promise!EndOrder
  <2> QED BY <2>6 DEF Promise!EscrowNext
<1> QED BY <1>4, <1>5

\* The decision is recorded of a refund undecided, an approval of one that was
\* paid.
LEMMA DecisionRefines ==
  ASSUME SettlementInv, SettlementTypeOK', EscrowInv, EscrowInv', [SettlementNext]_vars, log' # log,
         NEW f \in Fact, log' = Append(log, f), CommitDelivery, f.type \in Decisions
  PROVE  [Promise!EscrowNext]_(Promise!escrowVars)
<1> USE DEF SettlementInv
<1>1. UNCHANGED <<intent, refunds, reopened, givenUp>>
  BY RecordingFrame
<1>2. f.type \notin Endings \union Settlings /\ f.type \notin {"PaymentRefunded", "RefundOpened"}
  BY DEF Endings, Decisions, Settlings
<1>3. Outcome' = Outcome /\ Booked' = Booked /\ Repaid' = Repaid /\ Recorded("RefundOpened")' = Recorded("RefundOpened")
  BY <1>2, AppendMaps
<1>4. Decision' = f.type
  BY DecisionAppend
<1>5. Recorded("RefundOpened") /\ delivery # "idle" /\ lane # <<>>
  BY CommitRecords DEF RunInv
<1>6. ASSUME NEW g \in Fact, AppendUnlessRecorded(g) PROVE f = g
  <2>1. log' = Append(log, g)
    BY <1>6 DEF AppendUnlessRecorded
  <2>2. log \in Seq(Fact)
    BY DEF SettlementTypeOK
  <2>3. log'[Len(log) + 1] = g /\ log'[Len(log) + 1] = f
    BY <2>1, <2>2, Appended
  <2> QED BY <2>3
<1>7. /\ f.type = "RefundApproved" => Head(lane).type = "ApproveRefund"
      /\ f.type = "RefundDenied" => Head(lane).type = "DenyRefund"
  <2>1. CASE Head(lane).type = "ApproveRefund"
    BY <1>6, <2>1, CommitRecords
  <2>2. CASE Head(lane).type = "DenyRefund"
    BY <1>6, <2>2, CommitRecords, PlainType
  <2>3. Head(lane).type # "PaymentRefunded"
    BY CommitRecords
  <2> QED BY <2>1, <2>2, <2>3, CommitRecords
<1>8. ASSUME ~reopened PROVE run = "PENDING_APPROVAL" /\ Verdict = "none"
  <2>1. run = "PENDING_APPROVAL"
    BY <1>5, <1>7, <1>8, ExpectedIs DEF RunInv, Decisions
  <2> QED BY <1>8, <2>1, Undecided DEF Verdict
<1>9. CASE f.type = "RefundApproved"
  <2>1. f \in Range(log')
    BY AppendRange
  <2>2. f.amount \in refunds
    BY <1>1, <1>9, <2>1 DEF EscrowInv
  <2>3. Verdict' = "approved"
    BY <1>4, <1>9 DEF Verdict
  <2>4. Promise!Decide
    BY <1>1, <1>3, <1>8, <2>2, <2>3 DEF Promise!Decide, Promise!Approve
  <2> QED BY <2>4 DEF Promise!EscrowNext
<1>10. CASE f.type = "RefundDenied"
  <2>1. Verdict' = "denied"
    BY <1>4, <1>10 DEF Verdict
  <2>2. ASSUME ~reopened, ~givenUp PROVE refunds = {}
    <3>1. ASSUME NEW b \in refunds PROVE FALSE
      <4>1. Head(lane) = [type |-> "ApproveRefund", amount |-> b]
        BY <1>8, <2>2, <3>1, OnlyTheHead
      <4> QED BY <1>7, <1>10, <4>1
    <3> QED BY <3>1
  <2>3. Promise!Decide
    BY <1>1, <1>3, <1>5, <1>8, <2>1, <2>2 DEF Promise!Decide, Promise!Deny, Promise!Undecided
  <2> QED BY <2>3 DEF Promise!EscrowNext
<1> QED BY <1>9, <1>10 DEF Decisions

\* What is recorded of Stripe's reports is what Stripe did.
LEMMA ReportRefines ==
  ASSUME SettlementInv, SettlementTypeOK', EscrowInv, [SettlementNext]_vars, log' # log,
         NEW f \in Fact, log' = Append(log, f), f \in reported
  PROVE  [Promise!EscrowNext]_(Promise!escrowVars)
<1> USE DEF SettlementInv
<1>1. UNCHANGED <<intent, refunds, reopened, givenUp>>
  BY RecordingFrame
<1>2. f.type \in Settlings \union {"PaymentRefunded"}
  BY DEF Reports
<1>3. f.type \notin Endings \union Decisions /\ f.type # "RefundOpened"
  BY <1>2 DEF Endings, Decisions, Settlings
<1>4. Outcome' = Outcome /\ Verdict' = Verdict /\ Recorded("RefundOpened")' = Recorded("RefundOpened")
  BY <1>3, AppendMaps
<1>5. CASE f.type \in Settlings
  <2>1. Repaid' = Repaid
    BY <1>5, AppendMaps DEF Settlings
  <2>2. f = Plain(f.type) /\ ~Recorded(f.type)
    BY <1>5 DEF Reports
  <2>3. \A t : Recorded(t)' <=> Recorded(t) \/ f.type = t
    BY RecordedAfterAppend
  <2>4. CASE f.type = "PaymentCaptured"
    <3>1. intent = "captured" /\ ~Recorded("PaymentReleased")
      BY <2>2, <2>4 DEF Reports
    <3>2. Booked = "held" /\ Booked' = "captured"
      BY <2>2, <2>3, <2>4, <3>1 DEF Booked
    <3>3. Promise!BookMoney
      BY <1>1, <1>4, <2>1, <3>1, <3>2 DEF Promise!BookMoney
    <3> QED BY <3>3 DEF Promise!EscrowNext
  <2>5. CASE f.type = "PaymentReleased"
    <3>1. intent \in {"released", "expired"} /\ ~Recorded("PaymentCaptured")
      BY <2>2, <2>5 DEF Reports
    <3>2. Recorded("PaymentReleased")' /\ ~Recorded("PaymentCaptured")'
      BY <2>3, <2>5, <3>1
    <3>3. Booked = "held"
      BY <2>2, <2>5, <3>1 DEF Booked
    <3>4. Booked' = "released"
      BY <3>2 DEF Booked
    <3>5. Promise!BookMoney
      BY <1>1, <1>4, <2>1, <3>1, <3>3, <3>4 DEF Promise!BookMoney
    <3> QED BY <3>5 DEF Promise!EscrowNext
  <2> QED BY <1>5, <2>4, <2>5 DEF Settlings
<1>6. CASE f.type = "PaymentRefunded"
  <2>1. Booked' = Booked
    BY <1>6, AppendMaps DEF Settlings
  <2>2. f.amount \in refunds /\ f.amount \in Amounts
    BY <1>6 DEF EscrowInv, SettlementTypeOK
  <2>3. f = [type |-> "PaymentRefunded", amount |-> f.amount]
    BY <1>6 DEF Fact
  <2>4. Range(log') = Range(log) \union {f}
    BY AppendRange
  <2>5. Repaid' = Repaid \union {f.amount}
    <3>1. \A a : [type |-> "PaymentRefunded", amount |-> a] = f <=> a = f.amount
      BY <2>3
    <3> QED BY <2>2, <2>4, <3>1 DEF Repaid
  <2>6. CASE f.amount \in Repaid
    <3>1. Repaid' = Repaid
      BY <2>5, <2>6
    <3> QED BY <1>1, <1>4, <2>1, <3>1 DEF Promise!escrowVars
  <2>7. CASE f.amount \notin Repaid
    <3>1. Promise!BookRepayment(f.amount)
      BY <1>1, <1>4, <2>1, <2>2, <2>5, <2>7 DEF Promise!BookRepayment
    <3> QED BY <2>2, <3>1 DEF Promise!EscrowNext
  <2> QED BY <2>6, <2>7
<1> QED BY <1>2, <1>5, <1>6

\* What the legs record: a refund is opened of money that was taken, and a
\* failed capture is not the promise's.
LEMMA LegFactRefines ==
  ASSUME SettlementInv, SettlementTypeOK', [SettlementNext]_vars, log' # log,
         NEW f \in Fact, log' = Append(log, f),
         \/ f = Plain("PaymentCaptureFailed")
         \/ f = Plain("RefundOpened") /\ \E r \in Runners : leg[r].at = "open"
  PROVE  [Promise!EscrowNext]_(Promise!escrowVars)
<1> USE DEF SettlementInv
<1>1. UNCHANGED <<intent, refunds, reopened, givenUp>>
  BY RecordingFrame
<1>2. f.type \in {"PaymentCaptureFailed", "RefundOpened"}
  BY PlainType
<1>3. f.type \notin Endings \union Decisions \union Settlings /\ f.type # "PaymentRefunded"
  BY <1>2 DEF Endings, Decisions, Settlings
<1>4. Outcome' = Outcome /\ Verdict' = Verdict /\ Booked' = Booked /\ Repaid' = Repaid
  BY <1>3, AppendMaps
<1>5. CASE f.type = "PaymentCaptureFailed"
  <2>1. Recorded("RefundOpened")' = Recorded("RefundOpened")
    BY <1>5, AppendMaps
  <2> QED BY <1>1, <1>4, <2>1 DEF Promise!escrowVars
<1>6. CASE f.type = "RefundOpened"
  <2>1. intent = "captured"
    BY <1>6, PlainType DEF RunInv
  <2>2. Recorded("RefundOpened")' = TRUE
    BY <1>6, RecordedAfterAppend DEF Recorded
  <2>3. Promise!Open
    BY <1>1, <1>4, <2>1, <2>2 DEF Promise!Open
  <2> QED BY <2>3 DEF Promise!EscrowNext
<1> QED BY <1>2, <1>5, <1>6

LEMMA StepRefines ==
  ASSUME SettlementInv, SettlementTypeOK', EscrowInv, EscrowInv', [SettlementNext]_vars
  PROVE  [Promise!EscrowNext]_(Promise!escrowVars)
<1>1. CASE log' = log
  BY <1>1, UnrecordedStepRefines
<1>2. CASE log' # log
  <2> USE DEF SettlementInv
  <2>1. PICK f \in Fact :
          /\ log' = Append(log, f)
          /\ \/ f.type \in OrderEvents /\ (f.type \in Endings => Positions(Endings) = {})
             \/ f = Plain("PaymentCaptureFailed")
             \/ f = Plain("RefundOpened") /\ \E r \in Runners : leg[r].at = "open"
             \/ CommitDelivery /\ f.type \in Decisions
             \/ f \in reported
    BY <1>2, WhatIsAppended
  <2>2. CASE f.type \in OrderEvents /\ (f.type \in Endings => Positions(Endings) = {})
    BY <1>2, <2>1, <2>2, OrderEventRefines
  <2>3. CASE f = Plain("PaymentCaptureFailed")
    BY <1>2, <2>1, <2>3, LegFactRefines
  <2>4. CASE f = Plain("RefundOpened") /\ \E r \in Runners : leg[r].at = "open"
    BY <1>2, <2>1, <2>4, LegFactRefines
  <2>5. CASE CommitDelivery /\ f.type \in Decisions
    BY <1>2, <2>1, <2>5, DecisionRefines
  <2>6. CASE f \in reported
    BY <1>2, <2>1, <2>6, ReportRefines
  <2> QED BY <2>1, <2>2, <2>3, <2>4, <2>5, <2>6
<1> QED BY <1>1, <1>2

LEMMA InitRefines == SettlementInit => Promise!EscrowInit
<1> SUFFICES ASSUME SettlementInit PROVE Promise!EscrowInit
  OBVIOUS
<1>1. SettlementTypeOK
  BY InitInv DEF SettlementInv
<1>2. log = <<Plain("OrderPlaced")>> /\ Plain("OrderPlaced").type = "OrderPlaced"
  BY PlainType DEF SettlementInit
<1>3. ASSUME NEW types, "OrderPlaced" \notin types PROVE Positions(types) = {}
  BY <1>2, <1>3 DEF Positions
<1>4. Outcome = "open"
  BY <1>3 DEF Outcome, Recorded, Aborts, Endings
<1>5. Booked = "held" /\ Recorded("RefundOpened") = FALSE
  BY <1>3 DEF Booked, Recorded
<1>6. Positions(Decisions) = {}
  BY <1>3 DEF Decisions
<1>7. Decision = "none"
  BY <1>1, <1>3, <1>6, DecisionIs DEF Decisions, Recorded
<1>8. Verdict = "none"
  BY <1>7 DEF Verdict
<1>9. Repaid = {}
  <2>1. \A f \in Range(log) : f.type = "OrderPlaced"
    BY <1>2 DEF Range
  <2> QED BY <2>1 DEF Repaid
<1> QED BY <1>4, <1>5, <1>8, <1>9 DEF SettlementInit, Promise!EscrowInit

\* The sagas keep the promise: every statement of a leg, of the lane, of Stripe
\* and of a webhook, a crash and a stale worker's call included, is one step of
\* the escrow or none of it.
THEOREM SettlementKeepsEscrow == SettlementSpec => KeepsEscrow
<1>1. SettlementInit => Promise!EscrowInit
  BY InitRefines
<1>2. SettlementInv /\ EscrowInv /\ [SettlementNext]_vars => EscrowInv'
  BY StepKeepsInv, EscrowStep DEF SettlementInv
<1>3. SettlementInv /\ SettlementInv' /\ EscrowInv /\ EscrowInv' /\ [SettlementNext]_vars
        => [Promise!EscrowNext]_(Promise!escrowVars)
  BY StepRefines DEF SettlementInv
<1> QED BY <1>1, <1>2, <1>3, EscrowInitially, SettlementInvariant, PTL
        DEF SettlementSpec, KeepsEscrow, Promise!EscrowSpec
=============================================================================
