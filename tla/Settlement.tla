----------------------------- MODULE Settlement -----------------------------
(***************************************************************************)
(* What happens to the money of one placed order: the settlement and the   *)
(* refund saga (crates/application/src/generated/process_managers.rs,      *)
(* process_managers/payment_settlement.rs, refund.rs), the saga runner     *)
(* that drains the log for them (infrastructure/src/process_manager/       *)
(* runner.rs), the Payment stream, the OrderTracking row the legs read,    *)
(* the RefundProcess lane (mailbox/pm_delivery.rs) and Stripe.             *)
(*                                                                         *)
(* The order starts out placed, its payment authorised.  A leg of a saga   *)
(* is several statements: it selects a trigger, reads the projected row,   *)
(* calls Stripe or writes, and moves the checkpoint in a last transaction. *)
(* Any other runner, the projector, the lane, Stripe or a crash may come   *)
(* between two of them.  The log holds the facts of this order and of its  *)
(* payment, as they commit.                                                *)
(*                                                                         *)
(* The runner scans the triggers of all orders behind one checkpoint, and  *)
(* a position is drawn at the INSERT and seen at the COMMIT: a fact of     *)
(* this order may be late, below a position a reader has been at, and the  *)
(* leg of another order then takes the checkpoint past it.  The projector  *)
(* of the OrderTracking row is taken to miss nothing here.                 *)
(***************************************************************************)
EXTENDS Naturals, Sequences, FiniteSets, FiniteSetsExt, Functions

CONSTANTS
  Runners,      \* saga runner processes
  Drains,       \* the process managers each runner drains (with_only)
  Price,        \* the amount authorised
  Amounts,      \* amounts a refund may be approved for
  MaxRequests,  \* bound on refund requests of the customer
  MaxDecisions, \* bound on decisions sent by the restaurant
  MaxFaults     \* bound on crashes, failed calls, lost lanes and late commits

Sagas == {"Settlement", "Refund"}

ASSUME SettlementAssumption ==
  /\ IsFiniteSet(Runners)
  /\ Drains \in [Runners -> SUBSET Sagas]
  /\ Price \in Nat
  /\ Amounts \in SUBSET (1 .. Price)
  /\ {MaxRequests, MaxDecisions, MaxFaults} \subseteq Nat

VARIABLES
  log,         \* the facts of the order and of its payment, as they commit
  late,        \* places of those that committed below a position already read
  folded,      \* how many of them the OrderTracking row reflects
  checkpoint,  \* projection_checkpoint of each saga
  leg,         \* what each runner is doing
  run,         \* process_status of the row of refund_process_manager
  lane,        \* messages of the RefundProcess lane, by position
  delivery,    \* how far the delivery of the lane's head has come
  intent,      \* Stripe: the state of the payment intent (released and expired: canceled)
  refunds,     \* Stripe: the amounts refunded; the idempotency key is the amount
  reported,    \* webhooks accepted and not yet recorded
  deposed,     \* refund calls a worker that lost the lane is still to make
  decisions,   \* number of decisions sent
  faults,      \* number of faults so far
  unheard,     \* history: triggers consumed although nothing came of them
  reopened,    \* history: a decided run was written PENDING_APPROVAL again
  givenUp      \* history: the mailbox gave up an approval

stripeVars == <<intent, refunds, reported>>
laneVars == <<lane, delivery, deposed, decisions>>
runnerVars == <<checkpoint, leg, late, unheard>>
historyVars == <<reopened, givenUp>>
vars == <<log, folded, run, faults, stripeVars, laneVars, runnerVars, historyVars>>

Endings == {"OrderDelivered", "OrderRejectedByRestaurant", "OrderCancelledByCustomer",
            "OrderCancelledByRestaurant"}
Aborts == Endings \ {"OrderDelivered"}
PaymentFacts == {"PaymentCaptured", "PaymentCaptureFailed", "PaymentReleased",
                 "PaymentRefunded", "RefundOpened", "RefundApproved", "RefundDenied"}
FactTypes == Endings \union PaymentFacts
               \union {"OrderPlaced", "OrderAcceptedByRestaurant", "RefundRequested"}
Fact == [type : FactTypes, amount : 0 .. Price]
Message == [type : {"ApproveRefund", "DenyRefund", "PaymentRefunded"}, amount : 0 .. Price]

RunStatuses == {"none", "PENDING_APPROVAL", "APPROVED_AWAITING_SETTLEMENT", "DENIED", "REFUNDED"}

LegSteps == {"idle", "read", "call", "failed", "admit", "open", "upsert", "commit"}
Leg == [saga : Sagas, pos : Nat, rest : SUBSET Nat, at : LegSteps]
IdleLeg == [saga |-> "Settlement", pos |-> 0, rest |-> {}, at |-> "idle"]

Plain(t) == [type |-> t, amount |-> 0]

SettlementTypeOK ==
  /\ log \in Seq(Fact)
  /\ folded \in Nat
  /\ late \subseteq Nat
  /\ checkpoint \in [Sagas -> Nat]
  /\ leg \in [Runners -> Leg]
  /\ run \in RunStatuses
  /\ lane \in Seq(Message)
  /\ delivery \in {"idle", "call", "commit"}
  /\ intent \in {"held", "captured", "released", "expired"}
  /\ refunds \subseteq Amounts
  /\ reported \subseteq Fact
  /\ deposed \subseteq Amounts
  /\ decisions \in Nat
  /\ faults \in Nat
  /\ unheard \subseteq Nat
  /\ reopened \in BOOLEAN
  /\ givenUp \in BOOLEAN

SettlementInit ==
  /\ log = <<Plain("OrderPlaced")>>
  /\ folded = 0
  /\ late = {}
  /\ checkpoint = [p \in Sagas |-> 0]
  /\ leg = [r \in Runners |-> IdleLeg]
  /\ run = "none"
  /\ lane = <<>>
  /\ delivery = "idle"
  /\ intent = "held"
  /\ refunds = {}
  /\ reported = {}
  /\ deposed = {}
  /\ decisions = 0
  /\ faults = 0
  /\ unheard = {}
  /\ reopened = FALSE
  /\ givenUp = FALSE

(***************************************************************************)
(* Helpers.                                                                *)
(***************************************************************************)
Positions(types) == {i \in DOMAIN log : log[i].type \in types}
Recorded(t) == Positions({t}) # {}

\* The newest of these facts among the first n, or a default.
Newest(types, n, default) ==
  LET seen == {i \in Positions(types) : i <= n}
  IN  IF seen = {} THEN default ELSE log[Max(seen)].type

\* payment_status of the OrderTracking row; none while OrderPlaced is unfolded.
TrackedStatus ==
  IF folded = 0 THEN "no row"
  ELSE Newest({"PaymentCaptured", "PaymentReleased", "PaymentRefunded"}, folded, "AUTHORIZED")

\* domain::payment::fold: the status, and the decision recorded last.
PaymentStatus ==
  Newest({"PaymentCaptured", "PaymentReleased", "PaymentRefunded"}, Len(log), "AUTHORIZED")
Decision == Newest({"RefundApproved", "RefundDenied"}, Len(log), "none")

\* Mutation: what the leg itself records is not absorbed.
AlreadyRecordsNoLegFact(f) ==
  CASE f.type \in {"PaymentCaptured", "PaymentReleased"} -> PaymentStatus = f.type
    [] f.type \in {"RefundApproved", "RefundDenied"}     -> Decision = f.type
    [] f.type = "PaymentRefunded"                        -> f \in Range(log)
    [] OTHER                                             -> FALSE

\* domain::payment::already_records.
AlreadyRecords(f) ==
  CASE f.type \in {"PaymentCaptured", "PaymentReleased"} -> PaymentStatus = f.type
    [] f.type \in {"RefundApproved", "RefundDenied"}     -> Decision = f.type
    [] f.type = "PaymentRefunded"                        -> f \in Range(log)
    [] OTHER                                             -> Recorded(f.type)

\* Load the stream, fold it, and append at the version loaded.  A lost race
\* leaves nothing behind: it is the crash of the leg, or the redelivery.
AppendUnlessRecorded(f) == log' = IF AlreadyRecords(f) THEN log ELSE Append(log, f)

Fault == faults < MaxFaults /\ faults' = faults + 1

(***************************************************************************)
(* The order's commands and the projector.                                 *)
(***************************************************************************)

\* order::lifecycle; ACCEPTED stands for ACCEPTED, PREPARING and READY too.
IsPlaced == Positions(Endings \union {"OrderAcceptedByRestaurant"}) = {}
IsAccepted == Recorded("OrderAcceptedByRestaurant") /\ Positions(Endings) = {}

\* Only a trigger is late for anybody.
MayBeLate(t) ==
  \/ UNCHANGED <<late, faults>>
  \/ t # "OrderAcceptedByRestaurant" /\ Fault /\ late' = late \union {Len(log) + 1}

AppendToOrder(t) ==
  /\ log' = Append(log, Plain(t))
  /\ MayBeLate(t)
  /\ UNCHANGED <<folded, run, checkpoint, leg, unheard, stripeVars, laneVars, historyVars>>

AcceptOrder == IsPlaced /\ AppendToOrder("OrderAcceptedByRestaurant")
AbortPlacedOrder ==
  IsPlaced /\ \E t \in {"OrderRejectedByRestaurant", "OrderCancelledByCustomer"} : AppendToOrder(t)
EndAcceptedOrder ==
  IsAccepted /\ \E t \in {"OrderDelivered", "OrderCancelledByRestaurant"} : AppendToOrder(t)

\* Any number of requests, as long as the order is DELIVERED.
RequestRefund ==
  /\ Recorded("OrderDelivered")
  /\ Cardinality(Positions({"RefundRequested"})) < MaxRequests
  /\ AppendToOrder("RefundRequested")

\* The projector folds the next fact into the OrderTracking row.
Project ==
  /\ folded < Len(log)
  /\ folded' = folded + 1
  /\ UNCHANGED <<log, run, faults, stripeVars, laneVars, runnerVars, historyVars>>

(***************************************************************************)
(* The saga runner.  drain_group reads the checkpoint and every trigger    *)
(* behind it once; the legs then run one after the other.                  *)
(***************************************************************************)
Triggers == [Settlement |-> Endings, Refund |-> Aborts \union {"RefundRequested"}]

Pending(s) == {i \in Positions(Triggers[s]) : i > checkpoint[s]}
At(r, step) == leg[r].at = step
GoTo(r, step) == leg' = [leg EXCEPT ![r].at = step]
Unheard(r) == unheard' = unheard \union {leg[r].pos}

FirstOf(s, pending) == [saga |-> s, pos |-> Min(pending), rest |-> pending \ {Min(pending)}, at |-> "read"]

Select(r) ==
  /\ At(r, "idle")
  /\ \E s \in Drains[r] :
       /\ Pending(s) # {}
       /\ leg' = [leg EXCEPT ![r] = FirstOf(s, Pending(s))]
  /\ UNCHANGED <<log, folded, run, faults, checkpoint, late, unheard, stripeVars, laneVars, historyVars>>

\* The leg of another order takes the checkpoint past this one's oldest pending
\* trigger, which committed too late for the scan that leg came from.  What
\* committed in time is in every scan that goes beyond it.
PassOver(r) ==
  /\ At(r, "idle")
  /\ \E s \in Drains[r] : \E i \in Pending(s) \intersect late :
       /\ \A j \in Pending(s) : i <= j
       /\ checkpoint' = [checkpoint EXCEPT ![s] = i]
  /\ UNCHANGED <<log, folded, run, faults, leg, late, unheard, stripeVars, laneVars, historyVars>>

\* The row is read, and the leg skips when the payment is not in the state it
\* acts on: AUTHORIZED for the settlement, CAPTURED for a refund.
ReadRow(r) ==
  LET settles == leg[r].saga = "Settlement"
      acts == TrackedStatus = IF settles THEN "AUTHORIZED" ELSE "PaymentCaptured"
      overlooked == folded = 0 \/ (~settles /\ ~acts)
  IN
  /\ At(r, "read")
  /\ GoTo(r, IF ~acts THEN "commit" ELSE IF settles THEN "call" ELSE "admit")
  /\ IF overlooked THEN Unheard(r) ELSE UNCHANGED unheard
  /\ UNCHANGED <<log, folded, run, faults, checkpoint, late, stripeVars, laneVars, historyVars>>

\* A statement of the leg fails: the error is surfaced, and the leg ends.
LegError(r) ==
  /\ Fault
  /\ leg[r].at \in {"read", "failed", "admit", "open", "upsert"}
  /\ GoTo(r, "commit")
  /\ Unheard(r)
  /\ UNCHANGED <<log, folded, run, checkpoint, late, stripeVars, laneVars, historyVars>>

\* Mutation: whatever the restaurant decided is billed.
CapturesForRestaurant(r) == log[leg[r].pos].type \in {"OrderDelivered", "OrderCancelledByRestaurant"}

Captures(r) == log[leg[r].pos].type = "OrderDelivered"

Settled(r) == IF Captures(r) THEN "captured" ELSE "released"
SettledFact(r) == Plain(IF Captures(r) THEN "PaymentCaptured" ELSE "PaymentReleased")

\* Stripe captures or cancels the held intent; the idempotency key makes a
\* second identical call answer as the first.
CallStripe(r) ==
  /\ At(r, "call")
  /\ intent \in {"held", Settled(r)}
  /\ intent' = Settled(r)
  /\ reported' = IF intent = "held" THEN reported \union {SettledFact(r)} ELSE reported
  /\ GoTo(r, "commit")
  /\ UNCHANGED <<log, folded, run, faults, refunds, checkpoint, late, unheard, laneVars, historyVars>>

\* Mutation: a call that ends badly is only surfaced in the log of the process.
CallEndsUnrecorded(r) == GoTo(r, "commit") /\ UNCHANGED unheard

\* A capture that failed is recorded; a release that failed is only surfaced.
CallEndsBadly(r) ==
  IF Captures(r) THEN GoTo(r, "failed") /\ UNCHANGED unheard ELSE GoTo(r, "commit") /\ Unheard(r)

StripeRefuses(r) ==
  /\ At(r, "call")
  /\ intent \notin {"held", Settled(r)}
  /\ CallEndsBadly(r)
  /\ UNCHANGED <<log, folded, run, faults, checkpoint, late, stripeVars, laneVars, historyVars>>

\* A call that times out may have been executed.
CallTimesOut(r) ==
  /\ At(r, "call")
  /\ Fault
  /\ \/ UNCHANGED <<intent, reported>>
     \/ /\ intent = "held"
        /\ intent' = Settled(r)
        /\ reported' = reported \union {SettledFact(r)}
  /\ CallEndsBadly(r)
  /\ UNCHANGED <<log, folded, run, refunds, checkpoint, late, laneVars, historyVars>>

RecordCaptureFailed(r) ==
  /\ At(r, "failed")
  /\ AppendUnlessRecorded(Plain("PaymentCaptureFailed"))
  /\ GoTo(r, "commit")
  /\ UNCHANGED <<folded, run, faults, checkpoint, late, unheard, stripeVars, laneVars, historyVars>>

\* Mutation: the row is written before the fact.
AdmitUnrecorded(r) ==
  /\ At(r, "admit")
  /\ GoTo(r, IF run \in {"none", "PENDING_APPROVAL"} THEN "upsert" ELSE "commit")
  /\ UNCHANGED <<log, folded, run, faults, checkpoint, late, unheard, stripeVars, laneVars, historyVars>>

\* admit_only_pending, over the row as it is now.
Admit(r) ==
  /\ At(r, "admit")
  /\ GoTo(r, IF run \in {"none", "PENDING_APPROVAL"} THEN "open" ELSE "commit")
  /\ UNCHANGED <<log, folded, run, faults, checkpoint, late, unheard, stripeVars, laneVars, historyVars>>

OpenRefund(r) ==
  /\ At(r, "open")
  /\ AppendUnlessRecorded(Plain("RefundOpened"))
  /\ GoTo(r, "upsert")
  /\ UNCHANGED <<folded, run, faults, checkpoint, late, unheard, stripeVars, laneVars, historyVars>>

\* The upsert has no condition on the row it replaces.
UpsertRun(r) ==
  /\ At(r, "upsert")
  /\ run' = "PENDING_APPROVAL"
  /\ reopened' = (reopened \/ run \notin {"none", "PENDING_APPROVAL"})
  /\ GoTo(r, "commit")
  /\ UNCHANGED <<log, folded, faults, checkpoint, late, unheard, givenUp, stripeVars, laneVars>>

\* commit_leg writes the position, be it behind the checkpoint already there.
CommitLeg(r) ==
  /\ At(r, "commit")
  /\ checkpoint' = [checkpoint EXCEPT ![leg[r].saga] = leg[r].pos]
  /\ leg' = [leg EXCEPT ![r] = IF leg[r].rest = {} THEN IdleLeg ELSE FirstOf(leg[r].saga, leg[r].rest)]
  /\ UNCHANGED <<log, folded, run, faults, late, unheard, stripeVars, laneVars, historyVars>>

\* The process dies, its commit fails or its append loses a race: the slice is
\* dropped, and read again behind the checkpoint.
CrashLeg(r) ==
  /\ ~At(r, "idle")
  /\ Fault
  /\ leg' = [leg EXCEPT ![r] = IdleLeg]
  /\ UNCHANGED <<log, folded, run, checkpoint, late, unheard, stripeVars, laneVars, historyVars>>

RunnerSteps(r) ==
  \/ Select(r) \/ ReadRow(r) \/ CallStripe(r) \/ StripeRefuses(r) \/ RecordCaptureFailed(r)
  \/ Admit(r) \/ OpenRefund(r) \/ UpsertRun(r) \/ CommitLeg(r)

\* A pass over the log is owed for a fact that moved the head of the log when it
\* committed, and not for a late one: the runner compares the head with the one
\* it drained last, and is idle if they are equal.
Owed(r) == At(r, "idle") => \E s \in Drains[r] : ~(Pending(s) \subseteq late)

(***************************************************************************)
(* The RefundProcess lane: decisions of the restaurant, and the copy of    *)
(* PaymentRefunded the recording of the fact chains to it.                 *)
(***************************************************************************)
SendDecision ==
  /\ decisions < MaxDecisions
  /\ decisions' = decisions + 1
  /\ \E m \in [type : {"ApproveRefund"}, amount : Amounts] \union {Plain("DenyRefund")} :
       lane' = Append(lane, m)
  /\ UNCHANGED <<log, folded, run, faults, delivery, deposed, stripeVars, runnerVars, historyVars>>

Approves == Head(lane).type = "ApproveRefund"

\* Mutation: a run in any status is acted on.
ExpectedAny == run

Expected == IF Head(lane).type = "PaymentRefunded" THEN "APPROVED_AWAITING_SETTLEMENT" ELSE "PENDING_APPROVAL"
EndDelivery == lane' = Tail(lane) /\ delivery' = "idle"

\* Mutation: an approval is committed without the call.
ReadRunUncalled ==
  /\ lane # <<>>
  /\ delivery = "idle"
  /\ IF run # Expected THEN EndDelivery ELSE lane' = lane /\ delivery' = "commit"
  /\ UNCHANGED <<log, folded, run, faults, decisions, deposed, stripeVars, runnerVars, historyVars>>

\* The row is read first; a decision the run does not expect is rejected, and
\* the copy of a settlement it does not expect is skipped.
ReadRun ==
  /\ lane # <<>>
  /\ delivery = "idle"
  /\ IF run # Expected THEN EndDelivery
     ELSE lane' = lane /\ delivery' = IF Approves THEN "call" ELSE "commit"
  /\ UNCHANGED <<log, folded, run, faults, decisions, deposed, stripeVars, runnerVars, historyVars>>

\* Stripe: one refund for each amount, up to what was captured.
Refundable(a) ==
  /\ intent = "captured"
  /\ a \in refunds \/ MapThenSumSet(LAMBDA n : n, refunds) + a <= Price

Refund(a) ==
  /\ refunds' = refunds \union {a}
  /\ reported' = IF a \in refunds THEN reported
                 ELSE reported \union {[type |-> "PaymentRefunded", amount |-> a]}
  /\ UNCHANGED intent

CallRefund ==
  /\ delivery = "call"
  /\ IF Refundable(Head(lane).amount)
     THEN Refund(Head(lane).amount) /\ delivery' = "commit" /\ UNCHANGED lane
     ELSE EndDelivery /\ UNCHANGED stripeVars
  /\ UNCHANGED <<log, folded, run, faults, decisions, deposed, runnerVars, historyVars>>

\* The completion transaction: the fact, the row and the end of the delivery.
CommitDelivery ==
  LET m == Head(lane) IN
  /\ delivery = "commit"
  /\ CASE m.type = "ApproveRefund" ->
            /\ AppendUnlessRecorded([type |-> "RefundApproved", amount |-> m.amount])
            /\ run' = "APPROVED_AWAITING_SETTLEMENT"
       [] m.type = "DenyRefund" ->
            /\ AppendUnlessRecorded(Plain("RefundDenied"))
            /\ run' = "DENIED"
       [] m.type = "PaymentRefunded" ->
            /\ run' = "REFUNDED"
            /\ UNCHANGED log
  /\ EndDelivery
  /\ UNCHANGED <<folded, faults, decisions, deposed, stripeVars, runnerVars, historyVars>>

\* A failure redelivers the head.  The worker that lost the lane may still be
\* about to make its call.
Redeliver ==
  /\ delivery # "idle"
  /\ Fault
  /\ delivery' = "idle"
  /\ \/ UNCHANGED deposed
     \/ delivery = "call" /\ deposed' = deposed \union {Head(lane).amount}
  /\ UNCHANGED <<log, folded, run, lane, decisions, stripeVars, runnerVars, historyVars>>

DeposedCall ==
  /\ \E a \in deposed :
       /\ deposed' = deposed \ {a}
       /\ IF Refundable(a) THEN Refund(a) ELSE UNCHANGED stripeVars
  /\ UNCHANGED <<log, folded, run, faults, lane, delivery, decisions, runnerVars, historyVars>>

\* The mailbox fails a message for good after too many attempts.
GiveUp ==
  /\ delivery # "idle"
  /\ Fault
  /\ EndDelivery
  /\ givenUp' = TRUE
  /\ UNCHANGED <<log, folded, run, decisions, deposed, reopened, stripeVars, runnerVars>>

(***************************************************************************)
(* Stripe's webhooks, on the Payment lane.                                 *)
(***************************************************************************)

\* The hold lapses after seven days.
Expire ==
  /\ intent = "held"
  /\ intent' = "expired"
  /\ reported' = reported \union {Plain("PaymentReleased")}
  /\ UNCHANGED <<log, folded, run, faults, refunds, laneVars, runnerVars, historyVars>>

\* Mutation: the fact is recorded and not chained.
RecordFactUnchained ==
  /\ \E f \in reported :
       /\ reported' = reported \ {f}
       /\ AppendUnlessRecorded(f)
  /\ UNCHANGED <<folded, run, faults, intent, refunds, lane, delivery, decisions, deposed,
                 runnerVars, historyVars>>

\* The fact is recorded, in any order, and a refund is chained in the same
\* transaction to the lane of the order.
RecordFact ==
  /\ \E f \in reported :
       /\ reported' = reported \ {f}
       /\ AppendUnlessRecorded(f)
       /\ lane' = IF f.type = "PaymentRefunded" THEN Append(lane, f) ELSE lane
  /\ UNCHANGED <<folded, run, faults, intent, refunds, delivery, decisions, deposed,
                 runnerVars, historyVars>>

SettlementNext ==
  \/ AcceptOrder \/ AbortPlacedOrder \/ EndAcceptedOrder \/ RequestRefund
  \/ Project
  \/ \E r \in Runners : RunnerSteps(r) \/ PassOver(r) \/ LegError(r) \/ CallTimesOut(r) \/ CrashLeg(r)
  \/ SendDecision \/ ReadRun \/ CallRefund \/ CommitDelivery
  \/ Redeliver \/ DeposedCall \/ GiveUp
  \/ Expire \/ RecordFact

\* Every loop runs for ever: the runners poll, the projector and the lanes
\* drain, and a webhook accepted is delivered.  Nobody owes a command, and no
\* runner owes anything to a trigger that committed late.
SettlementFairness ==
  /\ \A r \in Runners : WF_vars(Owed(r) /\ RunnerSteps(r))
  /\ WF_vars(Project)
  /\ WF_vars(RecordFact)
  /\ WF_vars(ReadRun \/ CallRefund \/ CommitDelivery)

SettlementSpec == SettlementInit /\ [][SettlementNext]_vars /\ SettlementFairness

(***************************************************************************)
(* Safety.                                                                 *)
(***************************************************************************)

\* The money follows the order: it is captured only once the food was handed
\* over, and a saga releases the hold only of an order that was aborted.
MoneyFollowsOrder ==
  /\ intent = "captured" => Recorded("OrderDelivered")
  /\ intent = "released" => Positions(Aborts) # {}

\* However often runners replay a leg, and whatever runs between its
\* statements, what a saga appends to the Payment stream is appended once.
RecordedOnce ==
  \A t \in {"PaymentCaptureFailed", "RefundOpened", "PaymentCaptured", "PaymentReleased"} :
    Cardinality(Positions({t})) <= 1

\* One decision for one refund run, however deliveries are repeated and by
\* whatever worker: it is not both approved and denied, a denied one moves no
\* money, no second amount is refunded, and Stripe refunds no amount that is
\* neither recorded as approved nor being approved.  It is so as long as the
\* run was not reopened and the mailbox gave no approval up.
OneDecision ==
  ~reopened /\ ~givenUp =>
    /\ Cardinality(Positions({"RefundApproved", "RefundDenied"})) <= 1
    /\ Recorded("RefundDenied") => refunds = {}
    /\ Cardinality(refunds) <= 1
    /\ \A a \in refunds :
         \/ [type |-> "RefundApproved", amount |-> a] \in Range(log)
         \/ lane # <<>> /\ Head(lane) = [type |-> "ApproveRefund", amount |-> a]

\* The row tells what the log tells.
RunFollowsLog ==
  /\ run = "REFUNDED" => Recorded("RefundApproved") /\ Recorded("PaymentRefunded")
  /\ run \in {"PENDING_APPROVAL", "APPROVED_AWAITING_SETTLEMENT", "DENIED"} => Recorded("RefundOpened")
  /\ ~reopened => Decision = CASE run \in {"REFUNDED", "APPROVED_AWAITING_SETTLEMENT"} -> "RefundApproved"
                               [] run = "DENIED" -> "RefundDenied"
                               [] OTHER -> "none"

(***************************************************************************)
(* The promise.                                                            *)
(***************************************************************************)
Outcome ==
  IF Recorded("OrderDelivered") THEN "served" ELSE IF Positions(Aborts) # {} THEN "aborted" ELSE "open"
Verdict == CASE Decision = "RefundApproved" -> "approved" [] Decision = "RefundDenied" -> "denied"
             [] OTHER -> "none"
Booked ==
  IF Recorded("PaymentCaptured") THEN "captured" ELSE IF Recorded("PaymentReleased") THEN "released" ELSE "held"
Repaid == {a \in Amounts : [type |-> "PaymentRefunded", amount |-> a] \in Range(log)}

Promise == INSTANCE Escrow WITH
  order <- Outcome, money <- intent, opened <- Recorded("RefundOpened"), paid <- refunds,
  verdict <- Verdict, booked <- Booked, repaid <- Repaid, again <- reopened \/ givenUp

\* Every statement of the sagas, the lane, Stripe and the webhooks, a crash and
\* a stale worker's call included, is one step of the promise, or none: neither
\* the capture nor a payment is undone or repeated, an approval is recorded only
\* of what Stripe paid, and nothing is recorded that did not happen.
KeepsEscrow == Promise!EscrowSpec

(***************************************************************************)
(* Liveness.                                                               *)
(***************************************************************************)

\* The money of an order that ended is settled, or its failure recorded: the
\* only endings nothing comes of are those a leg consumed without acting and
\* those that committed late.
EndedIsSettled ==
  Positions(Endings) # {} ~>
    \/ Positions({"PaymentCaptured", "PaymentReleased", "PaymentCaptureFailed"}) # {}
    \/ Positions(Endings) \intersect (unheard \union late) # {}

\* An approved refund is seen through to the end of its run.
ApprovedIsRefunded ==
  Recorded("RefundApproved") ~> (run = "REFUNDED" \/ reopened \/ givenUp)
=============================================================================
