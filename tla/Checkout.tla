------------------------------ MODULE Checkout ------------------------------
(***************************************************************************)
(* The checkout of one cart, from PlaceOrder to the birth of the order:    *)
(* application/src/commands.rs (place_order), the PlaceOrderProcess lanes  *)
(* (infrastructure/src/mailbox/pm_delivery.rs, handler.rs), its legs       *)
(* (application/src/process_managers/place_order.rs and generated code),   *)
(* the Payment streams, Stripe, and the run row of the cart.               *)
(*                                                                         *)
(* A client makes up an order id for each attempt; the id chooses the lane *)
(* the attempt is delivered on, and names its payment intent.  The run row *)
(* has one line for the cart.  A delivery is several statements, each on a *)
(* connection of its own until the last transaction, and other lanes run   *)
(* between them.                                                           *)
(***************************************************************************)
EXTENDS Naturals, Sequences, FiniteSets

CONSTANTS
  Orders,      \* order ids clients use for this cart
  Lanes,       \* lanes of PlaceOrderProcess
  LaneOf,      \* partition of the order id
  NoOrder,     \* no run row; a cart nobody checked out
  Routed,      \* ROUTE_ORDER_BIRTH_THROUGH_LANE
  MaxSends,    \* bound on PlaceOrder commands
  MaxDeclines, \* bound on declined cards
  MaxFaults    \* bound on failed deliveries

ASSUME CheckoutAssumption ==
  /\ IsFiniteSet(Orders)
  /\ LaneOf \in [Orders -> Lanes]
  /\ NoOrder \notin Orders
  /\ Routed \in BOOLEAN
  /\ {MaxSends, MaxDeclines, MaxFaults} \subseteq Nat

VARIABLES
  lane,      \* messages of each lane, by position
  delivery,  \* how far the delivery of each lane's head has come
  cart,      \* the order that checked the cart out; NoOrder while OPEN
  run,       \* the row of payment_process_manager: the order, and its status
  payment,   \* status of the Payment stream of each order's intent
  births,    \* OrderPlaced facts on the lanes of the Order actor
  born,      \* orders with OrderPlaced in their stream
  intent,    \* Stripe: the payment intent of each order
  reported,  \* webhooks accepted and not yet recorded
  answered,  \* orders whose client was given the secret of the intent
  sent,      \* number of PlaceOrder commands
  declines,  \* number of declined cards
  faults,    \* number of failed deliveries
  orphaned,  \* history: orders whose authorization found no run of theirs
  resolved,  \* history: orders whose authorization found the run resolved
  givenUp    \* history: orders whose authorization the mailbox gave up

laneVars == <<lane, delivery>>
stripeVars == <<intent, reported, declines>>
clientVars == <<answered, sent>>
orderVars == <<cart, births, born>>
historyVars == <<orphaned, resolved, givenUp>>
vars == <<laneVars, orderVars, run, payment, stripeVars, clientVars, faults, historyVars>>

Message == [type : {"PlaceOrder", "PaymentAuthorized", "PaymentFailed"}, order : Orders]
Run == [order : Orders \union {NoOrder},
        status : {"none", "AWAITING_PAYMENT_RESULT", "ORDER_PLACED", "FAILED"}]

CheckoutTypeOK ==
  /\ lane \in [Lanes -> Seq(Message)]
  /\ delivery \in [Lanes -> {"idle", "run", "call", "commit"}]
  /\ cart \in Orders \union {NoOrder}
  /\ run \in Run
  /\ payment \in [Orders -> {"none", "PENDING", "AUTHORIZED", "FAILED"}]
  /\ births \subseteq Orders
  /\ born \subseteq Orders
  /\ intent \in [Orders -> {"none", "created", "declined", "held"}]
  /\ reported \subseteq Message
  /\ answered \subseteq Orders
  /\ sent \in Nat
  /\ declines \in Nat
  /\ faults \in Nat
  /\ orphaned \subseteq Orders
  /\ resolved \subseteq Orders
  /\ givenUp \subseteq Orders

CheckoutInit ==
  /\ lane = [l \in Lanes |-> <<>>]
  /\ delivery = [l \in Lanes |-> "idle"]
  /\ cart = NoOrder
  /\ run = [order |-> NoOrder, status |-> "none"]
  /\ payment = [o \in Orders |-> "none"]
  /\ births = {}
  /\ born = {}
  /\ intent = [o \in Orders |-> "none"]
  /\ reported = {}
  /\ answered = {}
  /\ sent = 0
  /\ declines = 0
  /\ faults = 0
  /\ orphaned = {}
  /\ resolved = {}
  /\ givenUp = {}

(***************************************************************************)
(* Lanes.                                                                  *)
(***************************************************************************)
HeadOf(l) == Head(lane[l])
Enqueue(l, m) == lane' = [lane EXCEPT ![l] = Append(@, m)]
EndDelivery(l) ==
  /\ lane' = [lane EXCEPT ![l] = Tail(@)]
  /\ delivery' = [delivery EXCEPT ![l] = "idle"]
Proceed(l, step) == delivery' = [delivery EXCEPT ![l] = step] /\ UNCHANGED lane
Delivers(l, step, types) == delivery[l] = step /\ lane[l] # <<>> /\ HeadOf(l).type \in types

IsAwaiting == run.status = "AWAITING_PAYMENT_RESULT"

(***************************************************************************)
(* PlaceOrder.                                                             *)
(***************************************************************************)
SendPlaceOrder(o) ==
  /\ sent < MaxSends
  /\ sent' = sent + 1
  /\ Enqueue(LaneOf[o], [type |-> "PlaceOrder", order |-> o])
  /\ UNCHANGED <<delivery, orderVars, run, payment, stripeVars, answered, faults, historyVars>>

\* Mutation: a cart that is checked out may be checked out again.
ReadCartAnyStatus(l) ==
  /\ Delivers(l, "idle", {"PlaceOrder"})
  /\ Proceed(l, "run")
  /\ UNCHANGED <<orderVars, run, payment, stripeVars, clientVars, faults, historyVars>>

\* The cart is folded, and must be OPEN.
ReadCart(l) ==
  /\ Delivers(l, "idle", {"PlaceOrder"})
  /\ IF cart = NoOrder THEN Proceed(l, "run") ELSE EndDelivery(l)
  /\ UNCHANGED <<orderVars, run, payment, stripeVars, clientVars, faults, historyVars>>

\* The run row is read, and must not await a payment: Conflict.
ReadRun(l) ==
  /\ Delivers(l, "run", {"PlaceOrder"})
  /\ IF IsAwaiting THEN EndDelivery(l) ELSE Proceed(l, "call")
  /\ UNCHANGED <<orderVars, run, payment, stripeVars, clientVars, faults, historyVars>>

\* Stripe creates the intent, or answers with the one of this order id.
RequestIntent(l) ==
  LET o == HeadOf(l).order IN
  /\ Delivers(l, "call", {"PlaceOrder"})
  /\ intent' = [intent EXCEPT ![o] = IF @ = "none" THEN "created" ELSE @]
  /\ Proceed(l, "commit")
  /\ UNCHANGED <<orderVars, run, payment, reported, declines, clientVars, faults, historyVars>>

\* Stripe refuses for good: the command is rejected.
IntentRefused(l) ==
  /\ Delivers(l, "call", {"PlaceOrder"})
  /\ EndDelivery(l)
  /\ UNCHANGED <<orderVars, run, payment, stripeVars, clientVars, faults, historyVars>>

\* The birth of the Payment unless it exists, and the row, whatever it holds.
CommitPlaceOrder(l) ==
  LET o == HeadOf(l).order IN
  /\ Delivers(l, "commit", {"PlaceOrder"})
  /\ payment' = [payment EXCEPT ![o] = IF @ = "none" THEN "PENDING" ELSE @]
  /\ run' = [order |-> o, status |-> "AWAITING_PAYMENT_RESULT"]
  /\ answered' = answered \union {o}
  /\ EndDelivery(l)
  /\ UNCHANGED <<orderVars, stripeVars, sent, faults, historyVars>>

(***************************************************************************)
(* Stripe, driven by the client, and the webhooks on the Payment lane.     *)
(***************************************************************************)
Report(type, o) == reported' = reported \union {[type |-> type, order |-> o]}

\* The client confirms; after a declined card it may try another one.
Confirm(o) ==
  /\ o \in answered
  /\ intent[o] \in {"created", "declined"}
  /\ intent' = [intent EXCEPT ![o] = "held"]
  /\ Report("PaymentAuthorized", o)
  /\ UNCHANGED <<laneVars, orderVars, run, payment, declines, clientVars, faults, historyVars>>

Decline(o) ==
  /\ o \in answered
  /\ intent[o] \in {"created", "declined"}
  /\ declines < MaxDeclines
  /\ declines' = declines + 1
  /\ intent' = [intent EXCEPT ![o] = "declined"]
  /\ Report("PaymentFailed", o)
  /\ UNCHANGED <<laneVars, orderVars, run, payment, clientVars, faults, historyVars>>

\* Payment::already_records: any status but PENDING absorbs an authorization.
AlreadyRecords(f) ==
  IF f.type = "PaymentAuthorized" THEN payment[f.order] # "PENDING" ELSE payment[f.order] = "FAILED"

FoldedStatus(f) == IF f.type = "PaymentAuthorized" THEN "AUTHORIZED" ELSE "FAILED"

\* An authorization carries its order; a failure is correlated through the run
\* row, and without one goes to a lane derived from the intent.
ChainTargets(f) ==
  IF f.type = "PaymentAuthorized" \/ run.order = f.order THEN {LaneOf[f.order]} ELSE Lanes

\* Mutation: the fact is recorded and not chained.
RecordFactUnchained ==
  /\ \E f \in reported :
       /\ reported' = reported \ {f}
       /\ payment' = IF AlreadyRecords(f) THEN payment ELSE [payment EXCEPT ![f.order] = FoldedStatus(f)]
  /\ UNCHANGED <<laneVars, orderVars, run, intent, declines, clientVars, faults, historyVars>>

\* The fact is recorded and chained to the order's lane in one transaction.
RecordFact ==
  /\ \E f \in reported :
       /\ reported' = reported \ {f}
       /\ IF AlreadyRecords(f) THEN UNCHANGED <<payment, lane>>
          ELSE /\ payment' = [payment EXCEPT ![f.order] = FoldedStatus(f)]
               /\ \E l \in ChainTargets(f) : Enqueue(l, f)
  /\ UNCHANGED <<delivery, orderVars, run, intent, declines, clientVars, faults, historyVars>>

(***************************************************************************)
(* The legs of the saga, on the chained copies.                            *)
(***************************************************************************)

\* The run is looked up by its intent: none is an orphan, rejected; a resolved
\* one is skipped.
ReadFactRun(l) ==
  LET f == HeadOf(l)
      authorized == f.type = "PaymentAuthorized" IN
  /\ Delivers(l, "idle", {"PaymentAuthorized", "PaymentFailed"})
  /\ IF run.order = f.order /\ IsAwaiting THEN Proceed(l, "commit") ELSE EndDelivery(l)
  /\ orphaned' = IF authorized /\ run.order # f.order THEN orphaned \union {f.order} ELSE orphaned
  /\ resolved' = IF authorized /\ run.order = f.order /\ ~IsAwaiting
                 THEN resolved \union {f.order} ELSE resolved
  /\ UNCHANGED <<orderVars, run, payment, stripeVars, clientVars, faults, givenUp>>

\* Mutation: the birth is of the order the row names when it commits.
CommitAuthorizedOfRun(l) ==
  /\ Delivers(l, "commit", {"PaymentAuthorized"})
  /\ births' = births \union {run.order}
  /\ cart' = IF cart = NoOrder THEN run.order ELSE cart
  /\ run' = [run EXCEPT !.status = "ORDER_PLACED"]
  /\ EndDelivery(l)
  /\ UNCHANGED <<born, payment, stripeVars, clientVars, faults, historyVars>>

\* Mutation: the cart is closed again by whoever comes.
CommitAuthorizedClosing(l) ==
  LET o == HeadOf(l).order IN
  /\ Delivers(l, "commit", {"PaymentAuthorized"})
  /\ births' = births \union {o}
  /\ cart' = o
  /\ run' = [order |-> o, status |-> "ORDER_PLACED"]
  /\ EndDelivery(l)
  /\ UNCHANGED <<born, payment, stripeVars, clientVars, faults, historyVars>>

\* Mutation: the cart is closed first, the birth left to a later step.
CommitAuthorizedUnborn(l) ==
  LET o == HeadOf(l).order IN
  /\ Delivers(l, "commit", {"PaymentAuthorized"})
  /\ cart' = IF cart = NoOrder THEN o ELSE cart
  /\ run' = [order |-> o, status |-> "FAILED"]
  /\ EndDelivery(l)
  /\ UNCHANGED <<births, born, payment, stripeVars, clientVars, faults, historyVars>>

\* The order is born, or its birth sent to its lane; the cart is closed while
\* OPEN; the row is written as it was read.
CommitAuthorized(l) ==
  LET o == HeadOf(l).order IN
  /\ Delivers(l, "commit", {"PaymentAuthorized"})
  /\ IF Routed THEN births' = births \union {o} /\ UNCHANGED born
     ELSE born' = born \union {o} /\ UNCHANGED births
  /\ cart' = IF cart = NoOrder THEN o ELSE cart
  /\ run' = [order |-> o, status |-> "ORDER_PLACED"]
  /\ EndDelivery(l)
  /\ UNCHANGED <<payment, stripeVars, clientVars, faults, historyVars>>

CommitFailed(l) ==
  /\ Delivers(l, "commit", {"PaymentFailed"})
  /\ run' = [order |-> HeadOf(l).order, status |-> "FAILED"]
  /\ EndDelivery(l)
  /\ UNCHANGED <<orderVars, payment, stripeVars, clientVars, faults, historyVars>>

\* The Order actor records the birth; a second one changes nothing.
RecordBirth ==
  /\ \E o \in births : born' = born \union {o} /\ births' = births \ {o}
  /\ UNCHANGED <<laneVars, cart, run, payment, stripeVars, clientVars, faults, historyVars>>

(***************************************************************************)
(* Failures of a delivery.                                                 *)
(***************************************************************************)
Fault == faults < MaxFaults /\ faults' = faults + 1

\* A crash, a lost lease, a failed call or a lost race: the head is redelivered.
Redeliver(l) ==
  /\ delivery[l] # "idle"
  /\ Fault
  /\ Proceed(l, "idle")
  /\ UNCHANGED <<orderVars, run, payment, stripeVars, clientVars, historyVars>>

\* Too many attempts: the mailbox fails the head for good.
GiveUp(l) ==
  /\ lane[l] # <<>>
  /\ Fault
  /\ EndDelivery(l)
  /\ givenUp' = IF HeadOf(l).type = "PaymentAuthorized" THEN givenUp \union {HeadOf(l).order} ELSE givenUp
  /\ UNCHANGED <<orderVars, run, payment, stripeVars, clientVars, orphaned, resolved>>

DeliverySteps(l) ==
  \/ ReadCart(l) \/ ReadRun(l) \/ RequestIntent(l) \/ CommitPlaceOrder(l)
  \/ ReadFactRun(l) \/ CommitAuthorized(l) \/ CommitFailed(l)

CheckoutNext ==
  \/ \E o \in Orders : SendPlaceOrder(o) \/ Confirm(o) \/ Decline(o)
  \/ \E l \in Lanes : DeliverySteps(l) \/ IntentRefused(l) \/ Redeliver(l) \/ GiveUp(l)
  \/ RecordFact \/ RecordBirth

\* The mailbox delivers what it accepted; nobody owes a command or a card.
CheckoutFairness ==
  /\ \A l \in Lanes : WF_vars(DeliverySteps(l))
  /\ WF_vars(RecordFact)
  /\ WF_vars(RecordBirth)

CheckoutSpec == CheckoutInit /\ [][CheckoutNext]_vars /\ CheckoutFairness

(***************************************************************************)
(* Properties.                                                             *)
(***************************************************************************)
Placed == births \union born

\* No order without money behind it: whatever the lanes do to each other, an
\* order is born only of an intent whose hold was confirmed and recorded.
PlacedIsPaid ==
  \A o \in Placed : intent[o] = "held" /\ payment[o] \in {"AUTHORIZED", "FAILED"}

\* Attempts of one cart that share a lane never both become orders.
OneOrderOfALane ==
  \A o, p \in Placed : LaneOf[o] = LaneOf[p] => o = p

\* The row tells what happened to the order it names, and the order that
\* closed the cart exists.
RunFollowsOrder ==
  /\ run.status = "ORDER_PLACED" => run.order \in Placed
  /\ run.status = "AWAITING_PAYMENT_RESULT" => run.order \notin Placed
  /\ cart # NoOrder => cart \in Placed

Promise == INSTANCE Purchase WITH
  money <- intent, books <- payment, placed <- Placed, told <- run

\* Every statement of a delivery, a redelivery and a lane that was given up
\* included, is one step of the promise, or none: no card is charged before the
\* attempt is on record, no attempt of a lane goes on once one became an order,
\* and what closed the cart keeps it closed.
KeepsPurchase == Promise!PurchaseSpec

\* An authorization recorded becomes an order, unless the leg found no run of
\* this order, or found it resolved, or the mailbox gave the message up.
AuthorizedIsOrdered ==
  \A o \in Orders :
    payment[o] = "AUTHORIZED" ~> o \in born \union orphaned \union resolved \union givenUp

(***************************************************************************)
(* What the documentation says and the code does not do.                   *)
(***************************************************************************)

\* place_order: a checkout in flight is rejected before the gateway, so no
\* money can be taken twice.
NoDoubleHold == \A o, p \in Orders : intent[o] = "held" /\ intent[p] = "held" => o = p
=============================================================================
