--------------------------- MODULE Checkout_proofs ---------------------------
(***************************************************************************)
(* Proofs about Checkout: for every number of attempts at a cart, of lanes *)
(* and of failures, every order born was paid, attempts that share a lane  *)
(* never both become orders, and the cart, once closed, is closed by an    *)
(* order that exists and stays so.                                         *)
(*                                                                         *)
(* The argument about lanes: an attempt reads the cart and commits in one  *)
(* delivery of its lane, and a leg reads the run and commits in another.   *)
(* So as long as a delivery of a lane is at work, or the row awaits the    *)
(* payment of an attempt of that lane, no order of that lane is placed;    *)
(* other lanes may place theirs.                                           *)
(*                                                                         *)
(* The last part shows that Checkout keeps the promise of Purchase: each   *)
(* statement of the legs is one step of the purchase or none.              *)
(***************************************************************************)
EXTENDS Checkout, TLAPS

(***************************************************************************)
(* The inductive invariant.                                                *)
(***************************************************************************)
Has(l) == {lane[l][i] : i \in 1..Len(lane[l])}

Paid(o) == intent[o] = "held" /\ payment[o] \in {"AUTHORIZED", "FAILED"}

\* Stripe reports an authorization of a confirmed hold only, and no command.
ReportsAreTrue ==
  \A m \in reported : /\ m.type # "PlaceOrder"
                      /\ m.type = "PaymentAuthorized" => intent[m.order] = "held"

\* A lane holds the attempts of its own orders, and authorizations of theirs
\* once they are recorded.
LanesAreTrue ==
  \A l \in Lanes : \A m \in Has(l) :
    /\ m.type # "PaymentFailed" => LaneOf[m.order] = l
    /\ m.type = "PaymentAuthorized" => Paid(m.order)

BusyHasHead == \A l \in Lanes : delivery[l] # "idle" => lane[l] # <<>>

NoOrderOf(l) == \A o \in Placed : LaneOf[o] # l

\* A delivery at work on a lane, and a row that awaits an attempt of it, both
\* exclude an order of that lane.
WorkExcludes ==
  \A l \in Lanes : delivery[l] # "idle" /\ HeadOf(l).type # "PaymentFailed" => NoOrderOf(l)
AwaitingExcludes == IsAwaiting => run.order \in Orders /\ NoOrderOf(LaneOf[run.order])

CartFollowsOrder ==
  /\ cart = NoOrder => Placed = {}
  /\ cart # NoOrder => cart \in Placed
RowFollowsOrder == run.status = "ORDER_PLACED" => run.order \in Placed

Inv ==
  /\ CheckoutTypeOK
  /\ ReportsAreTrue
  /\ LanesAreTrue
  /\ BusyHasHead
  /\ PlacedIsPaid
  /\ WorkExcludes
  /\ AwaitingExcludes
  /\ OneOrderOfALane
  /\ CartFollowsOrder
  /\ RowFollowsOrder

(***************************************************************************)
(* Lanes.                                                                  *)
(***************************************************************************)
LEMMA HeadHas ==
  ASSUME lane \in [Lanes -> Seq(Message)], NEW l \in Lanes, lane[l] # <<>>
  PROVE  HeadOf(l) \in Has(l) /\ HeadOf(l) \in Message
<1>1. lane[l] \in Seq(Message) /\ Len(lane[l]) \in Nat \ {0}
  OBVIOUS
<1>2. HeadOf(l) = lane[l][1] /\ 1 \in 1..Len(lane[l])
  BY <1>1 DEF HeadOf
<1> QED
  BY <1>1, <1>2 DEF Has

LEMMA EnqueueHas ==
  ASSUME lane \in [Lanes -> Seq(Message)], NEW l \in Lanes, NEW m \in Message, Enqueue(l, m)
  PROVE  /\ lane' \in [Lanes -> Seq(Message)]
         /\ \A k \in Lanes : Has(k)' \subseteq Has(k) \union (IF k = l THEN {m} ELSE {})
         /\ \A k \in Lanes : lane[k] # <<>> => lane'[k] # <<>> /\ HeadOf(k)' = HeadOf(k)
<1>1. lane' \in [Lanes -> Seq(Message)]
  BY DEF Enqueue
<1>2. lane'[l] = Append(lane[l], m) /\ \A k \in Lanes \ {l} : lane'[k] = lane[k]
  BY DEF Enqueue
<1>3. Has(l)' \subseteq Has(l) \union {m}
  <2>1. SUFFICES ASSUME NEW i \in 1..Len(Append(lane[l], m))
                 PROVE  Append(lane[l], m)[i] \in Has(l) \union {m}
    BY <1>2 DEF Has
  <2>2. lane[l] \in Seq(Message)
    OBVIOUS
  <2>3. CASE i = Len(lane[l]) + 1
    BY <2>2, <2>3
  <2>4. CASE i # Len(lane[l]) + 1
    BY <2>2, <2>4 DEF Has
  <2> QED
    BY <2>3, <2>4
<1>4. \A k \in Lanes \ {l} : Has(k)' = Has(k)
  BY <1>2 DEF Has
<1>5. ASSUME lane[l] # <<>>
      PROVE  lane'[l] # <<>> /\ HeadOf(l)' = HeadOf(l)
  <2>1. lane[l] \in Seq(Message) /\ Len(lane[l]) \in Nat \ {0}
    BY <1>5
  <2>2. Head(Append(lane[l], m)) = Head(lane[l]) /\ Append(lane[l], m) # <<>>
    BY <2>1
  <2> QED
    BY <1>2, <2>2 DEF HeadOf
<1> QED
  BY <1>1, <1>2, <1>3, <1>4, <1>5 DEF HeadOf

LEMMA EndHas ==
  ASSUME lane \in [Lanes -> Seq(Message)], NEW l \in Lanes, lane[l] # <<>>, EndDelivery(l)
  PROVE  /\ lane' \in [Lanes -> Seq(Message)]
         /\ \A k \in Lanes : Has(k)' \subseteq Has(k)
         /\ \A k \in Lanes \ {l} : lane'[k] = lane[k] /\ HeadOf(k)' = HeadOf(k)
<1>1. lane[l] \in Seq(Message) /\ Len(lane[l]) \in Nat \ {0}
  OBVIOUS
<1>2. Tail(lane[l]) \in Seq(Message) /\ Len(Tail(lane[l])) = Len(lane[l]) - 1
      /\ \A i \in 1..Len(Tail(lane[l])) : Tail(lane[l])[i] = lane[l][i + 1]
  BY <1>1
<1>3. lane'[l] = Tail(lane[l]) /\ \A k \in Lanes \ {l} : lane'[k] = lane[k]
  BY DEF EndDelivery
<1>4. Has(l)' \subseteq Has(l)
  BY <1>1, <1>2, <1>3 DEF Has
<1>5. lane' \in [Lanes -> Seq(Message)]
  BY <1>2 DEF EndDelivery
<1> QED
  BY <1>3, <1>4, <1>5 DEF Has, HeadOf

(***************************************************************************)
(* Type correctness.                                                       *)
(***************************************************************************)
LEMMA ProceedType ==
  ASSUME CheckoutTypeOK, NEW l \in Lanes, NEW s \in {"idle", "run", "call", "commit"}, Proceed(l, s)
  PROVE  lane' = lane /\ delivery' \in [Lanes -> {"idle", "run", "call", "commit"}]
BY DEF CheckoutTypeOK, Proceed

LEMMA EndType ==
  ASSUME CheckoutTypeOK, NEW l \in Lanes, lane[l] # <<>>, EndDelivery(l)
  PROVE  /\ lane' \in [Lanes -> Seq(Message)]
         /\ delivery' \in [Lanes -> {"idle", "run", "call", "commit"}]
<1>1. lane' \in [Lanes -> Seq(Message)]
  BY EndHas DEF CheckoutTypeOK
<1> QED
  BY <1>1 DEF CheckoutTypeOK, EndDelivery

LEMMA HeadType ==
  ASSUME CheckoutTypeOK, NEW l \in Lanes, lane[l] # <<>>
  PROVE  HeadOf(l) \in Message /\ HeadOf(l).order \in Orders
<1>1. HeadOf(l) \in Message
  BY HeadHas DEF CheckoutTypeOK
<1> QED BY <1>1 DEF Message

LEMMA TypeStep ==
  ASSUME CheckoutTypeOK, [CheckoutNext]_vars PROVE CheckoutTypeOK'
<1> USE CheckoutAssumption
<1>1. ASSUME NEW o \in Orders, SendPlaceOrder(o) PROVE CheckoutTypeOK'
  <2>1. [type |-> "PlaceOrder", order |-> o] \in Message /\ LaneOf[o] \in Lanes
    BY DEF Message
  <2>2. lane' \in [Lanes -> Seq(Message)]
    BY <1>1, <2>1, EnqueueHas DEF CheckoutTypeOK, SendPlaceOrder
  <2> QED
    BY <1>1, <2>2 DEF CheckoutTypeOK, SendPlaceOrder, orderVars, stripeVars, historyVars
<1>2. ASSUME NEW o \in Orders, Confirm(o) PROVE CheckoutTypeOK'
  <2>1. [type |-> "PaymentAuthorized", order |-> o] \in Message
    BY DEF Message
  <2> QED
    BY <1>2, <2>1 DEF CheckoutTypeOK, Confirm, Report, laneVars, orderVars, clientVars, historyVars
<1>3. ASSUME NEW o \in Orders, Decline(o) PROVE CheckoutTypeOK'
  <2>1. [type |-> "PaymentFailed", order |-> o] \in Message
    BY DEF Message
  <2> QED
    BY <1>3, <2>1 DEF CheckoutTypeOK, Decline, Report, laneVars, orderVars, clientVars, historyVars
<1>4. ASSUME NEW l \in Lanes, ReadCart(l) PROVE CheckoutTypeOK'
  <2>1. lane' \in [Lanes -> Seq(Message)] /\ delivery' \in [Lanes -> {"idle", "run", "call", "commit"}]
    BY <1>4, ProceedType, EndType DEF CheckoutTypeOK, ReadCart, Delivers
  <2> QED
    BY <1>4, <2>1 DEF CheckoutTypeOK, ReadCart, orderVars, stripeVars, clientVars, historyVars
<1>5. ASSUME NEW l \in Lanes, ReadRun(l) PROVE CheckoutTypeOK'
  <2>1. lane' \in [Lanes -> Seq(Message)] /\ delivery' \in [Lanes -> {"idle", "run", "call", "commit"}]
    BY <1>5, ProceedType, EndType DEF CheckoutTypeOK, ReadRun, Delivers
  <2> QED
    BY <1>5, <2>1 DEF CheckoutTypeOK, ReadRun, orderVars, stripeVars, clientVars, historyVars
<1>6. ASSUME NEW l \in Lanes, RequestIntent(l) PROVE CheckoutTypeOK'
  <2>1. lane' \in [Lanes -> Seq(Message)] /\ delivery' \in [Lanes -> {"idle", "run", "call", "commit"}]
    BY <1>6, ProceedType DEF CheckoutTypeOK, RequestIntent
  <2> QED
    BY <1>6, <2>1 DEF CheckoutTypeOK, RequestIntent, orderVars, clientVars, historyVars
<1>7. ASSUME NEW l \in Lanes, IntentRefused(l) PROVE CheckoutTypeOK'
  BY <1>7, EndType DEF CheckoutTypeOK, IntentRefused, Delivers, orderVars, stripeVars, clientVars, historyVars
<1>8. ASSUME NEW l \in Lanes, CommitPlaceOrder(l) PROVE CheckoutTypeOK'
  <2>1. HeadOf(l).order \in Orders
    BY <1>8, HeadType DEF CommitPlaceOrder, Delivers
  <2>2. lane' \in [Lanes -> Seq(Message)] /\ delivery' \in [Lanes -> {"idle", "run", "call", "commit"}]
    BY <1>8, EndType DEF CommitPlaceOrder, Delivers
  <2> QED
    BY <1>8, <2>1, <2>2 DEF CheckoutTypeOK, CommitPlaceOrder, Run, orderVars, stripeVars, historyVars
<1>9. ASSUME NEW l \in Lanes, ReadFactRun(l) PROVE CheckoutTypeOK'
  <2>1. HeadOf(l).order \in Orders
    BY <1>9, HeadType DEF ReadFactRun, Delivers
  <2>2. lane' \in [Lanes -> Seq(Message)] /\ delivery' \in [Lanes -> {"idle", "run", "call", "commit"}]
    BY <1>9, EndType, ProceedType DEF CheckoutTypeOK, ReadFactRun, Delivers
  <2>3. orphaned' \subseteq Orders /\ resolved' \subseteq Orders
    BY <1>9, <2>1 DEF CheckoutTypeOK, ReadFactRun
  <2> QED
    BY <1>9, <2>2, <2>3 DEF CheckoutTypeOK, ReadFactRun, orderVars, stripeVars, clientVars
<1>10. ASSUME NEW l \in Lanes, CommitAuthorized(l) PROVE CheckoutTypeOK'
  <2>1. HeadOf(l).order \in Orders
    BY <1>10, HeadType DEF CommitAuthorized, Delivers
  <2>2. lane' \in [Lanes -> Seq(Message)] /\ delivery' \in [Lanes -> {"idle", "run", "call", "commit"}]
    BY <1>10, EndType DEF CommitAuthorized, Delivers
  <2> QED
    BY <1>10, <2>1, <2>2 DEF CheckoutTypeOK, CommitAuthorized, Run, stripeVars, clientVars, historyVars
<1>11. ASSUME NEW l \in Lanes, CommitFailed(l) PROVE CheckoutTypeOK'
  <2>1. HeadOf(l).order \in Orders
    BY <1>11, HeadType DEF CommitFailed, Delivers
  <2>2. lane' \in [Lanes -> Seq(Message)] /\ delivery' \in [Lanes -> {"idle", "run", "call", "commit"}]
    BY <1>11, EndType DEF CommitFailed, Delivers
  <2> QED
    BY <1>11, <2>1, <2>2 DEF CheckoutTypeOK, CommitFailed, Run, orderVars, stripeVars, clientVars, historyVars
<1>12. ASSUME NEW l \in Lanes, Redeliver(l) PROVE CheckoutTypeOK'
  <2>1. lane' = lane /\ delivery' \in [Lanes -> {"idle", "run", "call", "commit"}]
    BY <1>12, ProceedType DEF Redeliver
  <2> QED
    BY <1>12, <2>1 DEF CheckoutTypeOK, Redeliver, Fault, orderVars, stripeVars, clientVars, historyVars
<1>13. ASSUME NEW l \in Lanes, GiveUp(l) PROVE CheckoutTypeOK'
  <2>1. HeadOf(l).order \in Orders
    BY <1>13, HeadType DEF GiveUp
  <2>2. lane' \in [Lanes -> Seq(Message)] /\ delivery' \in [Lanes -> {"idle", "run", "call", "commit"}]
    BY <1>13, EndType DEF GiveUp
  <2> QED
    BY <1>13, <2>1, <2>2 DEF CheckoutTypeOK, GiveUp, Fault, orderVars, stripeVars, clientVars
<1>14. ASSUME RecordFact PROVE CheckoutTypeOK'
  <2>1. PICK f \in reported :
          /\ reported' = reported \ {f}
          /\ IF AlreadyRecords(f) THEN UNCHANGED <<payment, lane>>
             ELSE /\ payment' = [payment EXCEPT ![f.order] = FoldedStatus(f)]
                  /\ \E l \in ChainTargets(f) : Enqueue(l, f)
    BY <1>14 DEF RecordFact
  <2>2. f \in Message /\ f.order \in Orders /\ FoldedStatus(f) \in {"AUTHORIZED", "FAILED"}
    BY DEF CheckoutTypeOK, Message, FoldedStatus
  <2>3. ChainTargets(f) \subseteq Lanes
    BY <2>2 DEF ChainTargets
  <2>4. lane' \in [Lanes -> Seq(Message)]
    BY <2>1, <2>2, <2>3, EnqueueHas DEF CheckoutTypeOK
  <2>5. payment' \in [Orders -> {"none", "PENDING", "AUTHORIZED", "FAILED"}]
    BY <2>1, <2>2 DEF CheckoutTypeOK
  <2> QED
    BY <1>14, <2>1, <2>4, <2>5 DEF CheckoutTypeOK, RecordFact, orderVars, clientVars, historyVars
<1>15. ASSUME RecordBirth PROVE CheckoutTypeOK'
  BY <1>15 DEF CheckoutTypeOK, RecordBirth, laneVars, stripeVars, clientVars, historyVars
<1>16. ASSUME UNCHANGED vars PROVE CheckoutTypeOK'
  BY <1>16 DEF CheckoutTypeOK, vars, laneVars, orderVars, stripeVars, clientVars, historyVars
<1> QED
  BY <1>1, <1>2, <1>3, <1>4, <1>5, <1>6, <1>7, <1>8, <1>9, <1>10, <1>11, <1>12, <1>13, <1>14,
     <1>15, <1>16 DEF CheckoutNext, DeliverySteps

\* The variables of the checkout only take values of their types.
THEOREM CheckoutTypeCorrect == CheckoutSpec => []CheckoutTypeOK
<1>1. CheckoutInit => CheckoutTypeOK
  BY DEF CheckoutInit, CheckoutTypeOK, Run
<1> QED
  BY <1>1, TypeStep, PTL DEF CheckoutSpec

(***************************************************************************)
(* Steps of a delivery that place no order.                                *)
(***************************************************************************)

\* A hold stays held, and what is paid stays paid.
HoldsKept == \A o \in Orders : intent[o] = "held" => intent'[o] = "held"
PaymentsKept == \A o \in Orders : Paid(o) => Paid(o)'

Settled ==
  ReportsAreTrue /\ LanesAreTrue /\ BusyHasHead /\ PlacedIsPaid /\ WorkExcludes /\ OneOrderOfALane

LEMMA HasMessages ==
  ASSUME CheckoutTypeOK, NEW l \in Lanes PROVE Has(l) \subseteq Message
<1>1. lane[l] \in Seq(Message)
  BY DEF CheckoutTypeOK
<1> QED BY <1>1 DEF Has

LEMMA MessageFields ==
  ASSUME NEW m \in Message PROVE m.order \in Orders /\ m.type \in {"PlaceOrder", "PaymentAuthorized", "PaymentFailed"}
BY DEF Message

LEMMA PlacedInOrders == CheckoutTypeOK => Placed \subseteq Orders
BY DEF CheckoutTypeOK, Placed

LEMMA LanesKept ==
  ASSUME CheckoutTypeOK, LanesAreTrue, PaymentsKept, \A k \in Lanes : Has(k)' \subseteq Has(k)
  PROVE  LanesAreTrue'
<1>1. SUFFICES ASSUME NEW k \in Lanes, NEW m \in Has(k)
               PROVE  /\ m.type # "PaymentFailed" => LaneOf[m.order] = k
                      /\ m.type = "PaymentAuthorized" => Paid(m.order)'
  BY DEF LanesAreTrue
<1>2. m.order \in Orders
  BY HasMessages, MessageFields
<1> QED
  BY <1>2 DEF LanesAreTrue, PaymentsKept

\* The delivery of a lane proceeds, or ends, and places nothing.
LEMMA DeliveryStep ==
  ASSUME Inv, HoldsKept, PaymentsKept, UNCHANGED <<births, born, reported>>,
         NEW l \in Lanes, lane[l] # <<>>, NEW s,
         \/ EndDelivery(l)
         \/ Proceed(l, s) /\ (s # "idle" /\ HeadOf(l).type # "PaymentFailed" => NoOrderOf(l))
  PROVE  Settled'
<1>1. Placed' = Placed /\ \A k : NoOrderOf(k)' = NoOrderOf(k)
  BY DEF Placed, NoOrderOf
<1>2. ReportsAreTrue'
  <2>1. \A m \in reported : m.order \in Orders
    BY MessageFields DEF Inv, CheckoutTypeOK
  <2> QED BY <2>1 DEF Inv, ReportsAreTrue, HoldsKept
<1>3. \A k \in Lanes : Has(k)' \subseteq Has(k)
  <2>1. CASE EndDelivery(l)
    BY <2>1, EndHas DEF Inv, CheckoutTypeOK
  <2>2. CASE Proceed(l, s)
    BY <2>2 DEF Proceed, Has
  <2> QED BY <2>1, <2>2
<1>4. LanesAreTrue'
  BY <1>3, LanesKept DEF Inv
<1>5. PlacedIsPaid'
  BY <1>1, PlacedInOrders DEF Inv, PlacedIsPaid, PaymentsKept, Paid
<1>6. OneOrderOfALane'
  BY <1>1 DEF Inv, OneOrderOfALane
<1>7. \A k \in Lanes \ {l} : delivery'[k] = delivery[k] /\ lane'[k] = lane[k] /\ HeadOf(k)' = HeadOf(k)
  <2>1. CASE EndDelivery(l)
    BY <2>1, EndHas DEF Inv, CheckoutTypeOK, EndDelivery
  <2>2. CASE Proceed(l, s)
    BY <2>2 DEF Inv, CheckoutTypeOK, Proceed, HeadOf
  <2> QED BY <2>1, <2>2
<1>8. \/ delivery'[l] = "idle"
      \/ /\ delivery'[l] = s /\ lane'[l] = lane[l] /\ HeadOf(l)' = HeadOf(l)
         /\ s # "idle" /\ HeadOf(l).type # "PaymentFailed" => NoOrderOf(l)
  BY DEF Inv, CheckoutTypeOK, EndDelivery, Proceed, HeadOf
<1>9. BusyHasHead'
  BY <1>7, <1>8 DEF Inv, BusyHasHead
<1>10. WorkExcludes'
  BY <1>1, <1>7, <1>8 DEF Inv, WorkExcludes
<1> QED
  BY <1>2, <1>4, <1>5, <1>6, <1>9, <1>10 DEF Settled

\* Steps that touch neither the row nor the cart keep what these say.
LEMMA RowKept ==
  ASSUME Inv, UNCHANGED <<run, cart, births, born>>
  PROVE  AwaitingExcludes' /\ CartFollowsOrder' /\ RowFollowsOrder'
<1>1. Placed' = Placed /\ \A k : NoOrderOf(k)' = NoOrderOf(k)
  BY DEF Placed, NoOrderOf
<1> QED
  BY <1>1 DEF Inv, AwaitingExcludes, CartFollowsOrder, RowFollowsOrder, IsAwaiting

LEMMA MoneyUnchanged ==
  UNCHANGED <<intent, payment>> => HoldsKept /\ PaymentsKept
BY DEF HoldsKept, PaymentsKept, Paid

LEMMA ReadingStep ==
  ASSUME Inv, NEW l \in Lanes,
         ReadCart(l) \/ ReadRun(l) \/ IntentRefused(l) \/ Redeliver(l) \/ GiveUp(l)
  PROVE  Inv'
<1>1. UNCHANGED <<births, born, reported, intent, payment, run, cart>>
  BY DEF ReadCart, ReadRun, IntentRefused, Redeliver, GiveUp, orderVars, stripeVars
<1>2. lane[l] # <<>>
  BY DEF Inv, BusyHasHead, ReadCart, ReadRun, IntentRefused, Redeliver, GiveUp, Delivers
<1>3. EndDelivery(l) \/ \E s : Proceed(l, s) /\ (s # "idle" /\ HeadOf(l).type # "PaymentFailed" => NoOrderOf(l))
  <2>1. CASE ReadCart(l)
    <3>1. CASE cart = NoOrder
      BY <2>1, <3>1 DEF ReadCart, Inv, CartFollowsOrder, NoOrderOf
    <3> QED BY <2>1, <3>1 DEF ReadCart
  <2>2. CASE ReadRun(l)
    <3>1. delivery[l] = "run"
      BY <2>2 DEF ReadRun, Delivers
    <3>2. HeadOf(l).type # "PaymentFailed" => NoOrderOf(l)
      BY <3>1 DEF Inv, WorkExcludes
    <3> QED BY <2>2, <3>2 DEF ReadRun
  <2> QED
    BY <2>1, <2>2 DEF IntentRefused, Redeliver, GiveUp
<1>4. Settled'
  BY <1>1, <1>2, <1>3, DeliveryStep, MoneyUnchanged
<1>5. CheckoutTypeOK'
  BY TypeStep DEF Inv, CheckoutNext, DeliverySteps
<1> QED
  BY <1>1, <1>4, <1>5, RowKept DEF Settled, Inv

LEMMA RequestStep ==
  ASSUME Inv, NEW l \in Lanes, RequestIntent(l) PROVE Inv'
<1>1. UNCHANGED <<births, born, reported, payment, run, cart>> /\ lane[l] # <<>>
  BY DEF RequestIntent, orderVars, Delivers
<1>2. HeadOf(l).order \in Orders
  BY <1>1, HeadType DEF Inv
<1>3. HoldsKept /\ PaymentsKept
  BY <1>1, <1>2 DEF RequestIntent, HoldsKept, PaymentsKept, Paid, Inv, CheckoutTypeOK
<1>4. HeadOf(l).type # "PaymentFailed" => NoOrderOf(l)
  BY DEF RequestIntent, Delivers, Inv, WorkExcludes
<1>5. Proceed(l, "commit")
  BY DEF RequestIntent
<1>6. Settled'
  BY <1>1, <1>3, <1>4, <1>5, DeliveryStep
<1>7. CheckoutTypeOK'
  BY TypeStep DEF Inv, CheckoutNext, DeliverySteps
<1> QED
  BY <1>1, <1>6, <1>7, RowKept DEF Settled, Inv

\* A leg may commit what it read only while its lane has no order.
LEMMA ReadFactStep ==
  ASSUME Inv, NEW l \in Lanes, ReadFactRun(l) PROVE Inv'
<1>1. UNCHANGED <<births, born, reported, intent, payment, run, cart>> /\ lane[l] # <<>>
  BY DEF ReadFactRun, orderVars, stripeVars, Delivers
<1>2. \/ EndDelivery(l)
      \/ Proceed(l, "commit") /\ (HeadOf(l).type # "PaymentFailed" => NoOrderOf(l))
  <2>1. CASE run.order = HeadOf(l).order /\ IsAwaiting
    <3>1. ASSUME HeadOf(l).type # "PaymentFailed" PROVE LaneOf[HeadOf(l).order] = l
      BY <1>1, <3>1, HeadHas DEF Inv, CheckoutTypeOK, LanesAreTrue
    <3> QED
      BY <2>1, <3>1 DEF ReadFactRun, Inv, AwaitingExcludes
  <2> QED
    BY <2>1 DEF ReadFactRun
<1>3. Settled'
  BY <1>1, <1>2, DeliveryStep, MoneyUnchanged
<1>4. CheckoutTypeOK'
  BY TypeStep DEF Inv, CheckoutNext, DeliverySteps
<1> QED
  BY <1>1, <1>3, <1>4, RowKept DEF Settled, Inv

LEMMA CommitPlaceOrderStep ==
  ASSUME Inv, NEW l \in Lanes, CommitPlaceOrder(l) PROVE Inv'
<1>1. UNCHANGED <<births, born, reported, intent, cart>> /\ lane[l] # <<>> /\ EndDelivery(l)
  BY DEF CommitPlaceOrder, orderVars, stripeVars, Delivers
<1>2. HeadOf(l).order \in Orders /\ HeadOf(l) \in Has(l)
  BY <1>1, HeadType, HeadHas DEF Inv, CheckoutTypeOK
<1>3. HoldsKept /\ PaymentsKept
  BY <1>1, <1>2 DEF CommitPlaceOrder, HoldsKept, PaymentsKept, Paid, Inv, CheckoutTypeOK
<1>4. Settled'
  BY <1>1, <1>3, DeliveryStep
<1>5. LaneOf[HeadOf(l).order] = l /\ NoOrderOf(l)
  BY <1>2 DEF CommitPlaceOrder, Delivers, Inv, LanesAreTrue, WorkExcludes
<1>6. AwaitingExcludes' /\ RowFollowsOrder' /\ CartFollowsOrder'
  <2>1. Placed' = Placed /\ NoOrderOf(l)'
    BY <1>1, <1>5 DEF Placed, NoOrderOf
  <2> QED
    BY <1>1, <1>2, <1>5, <2>1 DEF CommitPlaceOrder, AwaitingExcludes, RowFollowsOrder, Inv,
       CartFollowsOrder, NoOrderOf
<1>7. CheckoutTypeOK'
  BY TypeStep DEF Inv, CheckoutNext, DeliverySteps
<1> QED
  BY <1>4, <1>6, <1>7 DEF Settled, Inv

LEMMA CommitFailedStep ==
  ASSUME Inv, NEW l \in Lanes, CommitFailed(l) PROVE Inv'
<1>1. UNCHANGED <<births, born, reported, intent, payment, cart>> /\ lane[l] # <<>> /\ EndDelivery(l)
  BY DEF CommitFailed, orderVars, stripeVars, Delivers
<1>2. Settled'
  BY <1>1, DeliveryStep, MoneyUnchanged
<1>3. AwaitingExcludes' /\ RowFollowsOrder' /\ CartFollowsOrder'
  BY <1>1 DEF CommitFailed, AwaitingExcludes, RowFollowsOrder, Inv, CartFollowsOrder, IsAwaiting, Placed
<1>4. CheckoutTypeOK'
  BY TypeStep DEF Inv, CheckoutNext, DeliverySteps
<1> QED
  BY <1>2, <1>3, <1>4 DEF Settled, Inv

(***************************************************************************)
(* The leg that places an order.                                           *)
(***************************************************************************)
LEMMA CommitAuthorizedStep ==
  ASSUME Inv, NEW l \in Lanes, CommitAuthorized(l) PROVE Inv'
<1> DEFINE o == HeadOf(l).order
<1>1. /\ UNCHANGED <<reported, intent, payment>> /\ lane[l] # <<>> /\ EndDelivery(l)
      /\ delivery[l] = "commit" /\ HeadOf(l).type = "PaymentAuthorized"
  BY DEF CommitAuthorized, stripeVars, Delivers
<1>2. HeadOf(l) \in Has(l) /\ o \in Orders
  BY <1>1, HeadHas, HeadType DEF Inv, CheckoutTypeOK
<1>3. LaneOf[o] = l /\ Paid(o) /\ NoOrderOf(l)
  BY <1>1, <1>2 DEF Inv, LanesAreTrue, WorkExcludes
<1>4. Placed' = Placed \union {o}
  BY DEF CommitAuthorized, Placed
<1> HIDE DEF o
<1>5. ReportsAreTrue'
  BY <1>1 DEF Inv, ReportsAreTrue
<1>6. LanesAreTrue'
  <2>1. \A k \in Lanes : Has(k)' \subseteq Has(k)
    BY <1>1, EndHas DEF Inv, CheckoutTypeOK
  <2> QED BY <1>1, <2>1, LanesKept, MoneyUnchanged DEF Inv
<1>7. /\ delivery'[l] = "idle"
      /\ \A k \in Lanes \ {l} : delivery'[k] = delivery[k] /\ lane'[k] = lane[k] /\ HeadOf(k)' = HeadOf(k)
  BY <1>1, EndHas DEF Inv, CheckoutTypeOK, EndDelivery
<1>8. BusyHasHead'
  BY <1>7 DEF Inv, BusyHasHead
<1>9. PlacedIsPaid'
  BY <1>1, <1>3, <1>4 DEF Inv, PlacedIsPaid, Paid
<1>10. \A k \in Lanes \ {l} : NoOrderOf(k) => NoOrderOf(k)'
  BY <1>3, <1>4 DEF NoOrderOf
<1>11. WorkExcludes'
  BY <1>7, <1>10 DEF Inv, WorkExcludes
<1>12. OneOrderOfALane'
  BY <1>3, <1>4 DEF Inv, OneOrderOfALane, NoOrderOf
<1>13. run' = [order |-> o, status |-> "ORDER_PLACED"] /\ cart' = IF cart = NoOrder THEN o ELSE cart
  BY DEF CommitAuthorized, o
<1>14. AwaitingExcludes' /\ RowFollowsOrder'
  BY <1>4, <1>13 DEF AwaitingExcludes, RowFollowsOrder, IsAwaiting
<1>15. CartFollowsOrder'
  BY <1>2, <1>4, <1>13, CheckoutAssumption DEF Inv, CartFollowsOrder
<1>16. CheckoutTypeOK'
  BY TypeStep DEF Inv, CheckoutNext, DeliverySteps
<1> QED
  BY <1>5, <1>6, <1>8, <1>9, <1>11, <1>12, <1>14, <1>15, <1>16 DEF Inv

(***************************************************************************)
(* Steps of the client, of Stripe and of the other lanes.                  *)
(***************************************************************************)

\* Messages are added to a lane, and nothing else of the delivery changes.
LEMMA QueueStep ==
  ASSUME Inv, HoldsKept, PaymentsKept, UNCHANGED <<births, born, run, cart, delivery>>,
         reported' \subseteq reported, NEW l \in Lanes, NEW m \in Message,
         \/ UNCHANGED lane
         \/ /\ Enqueue(l, m)
            /\ m.type # "PaymentFailed" => LaneOf[m.order] = l
            /\ m.type = "PaymentAuthorized" => Paid(m.order)',
         CheckoutTypeOK'
  PROVE  Inv'
<1>1. Placed' = Placed /\ \A k : NoOrderOf(k)' = NoOrderOf(k)
  BY DEF Placed, NoOrderOf
<1>2. ReportsAreTrue'
  <2>1. \A n \in reported : n.order \in Orders
    BY MessageFields DEF Inv, CheckoutTypeOK
  <2> QED BY <2>1 DEF Inv, ReportsAreTrue, HoldsKept
<1>3. CASE UNCHANGED lane
  <2>1. \A k \in Lanes : Has(k)' = Has(k) /\ HeadOf(k)' = HeadOf(k)
    BY <1>3 DEF Has, HeadOf
  <2>2. LanesAreTrue'
    BY <2>1, LanesKept DEF Inv
  <2>3. BusyHasHead' /\ WorkExcludes'
    BY <1>1, <1>3, <2>1 DEF Inv, BusyHasHead, WorkExcludes
  <2>4. PlacedIsPaid' /\ OneOrderOfALane'
    BY <1>1, PlacedInOrders DEF Inv, PlacedIsPaid, PaymentsKept, Paid, OneOrderOfALane
  <2> QED
    BY <1>2, <2>2, <2>3, <2>4, RowKept DEF Inv
<1>4. CASE /\ Enqueue(l, m)
           /\ m.type # "PaymentFailed" => LaneOf[m.order] = l
           /\ m.type = "PaymentAuthorized" => Paid(m.order)'
  <2>1. /\ \A k \in Lanes : Has(k)' \subseteq Has(k) \union (IF k = l THEN {m} ELSE {})
        /\ \A k \in Lanes : lane[k] # <<>> => lane'[k] # <<>> /\ HeadOf(k)' = HeadOf(k)
    BY <1>4, EnqueueHas DEF Inv, CheckoutTypeOK
  <2>2. LanesAreTrue'
    <3>1. SUFFICES ASSUME NEW k \in Lanes, NEW n \in Has(k)'
                   PROVE  /\ n.type # "PaymentFailed" => LaneOf[n.order] = k
                          /\ n.type = "PaymentAuthorized" => Paid(n.order)'
      BY DEF LanesAreTrue
    <3>2. CASE n \in Has(k)
      <4>1. n.order \in Orders
        BY <3>2, HasMessages, MessageFields DEF Inv
      <4> QED BY <3>2, <4>1 DEF Inv, LanesAreTrue, PaymentsKept
    <3>3. CASE k = l /\ n = m
      BY <1>4, <3>3
    <3> QED BY <2>1, <3>1, <3>2, <3>3
  <2>3. BusyHasHead' /\ WorkExcludes'
    BY <1>1, <2>1 DEF Inv, BusyHasHead, WorkExcludes
  <2>4. PlacedIsPaid' /\ OneOrderOfALane'
    BY <1>1, PlacedInOrders DEF Inv, PlacedIsPaid, PaymentsKept, Paid, OneOrderOfALane
  <2> QED
    BY <1>2, <2>2, <2>3, <2>4, RowKept DEF Inv
<1> QED BY <1>3, <1>4

LEMMA SendStep ==
  ASSUME Inv, NEW o \in Orders, SendPlaceOrder(o) PROVE Inv'
<1>1. UNCHANGED <<births, born, run, cart, delivery, reported, intent, payment>>
  BY DEF SendPlaceOrder, orderVars, stripeVars
<1>2. [type |-> "PlaceOrder", order |-> o] \in Message /\ LaneOf[o] \in Lanes
  BY CheckoutAssumption DEF Message
<1>3. Enqueue(LaneOf[o], [type |-> "PlaceOrder", order |-> o])
  BY DEF SendPlaceOrder
<1>4. CheckoutTypeOK'
  BY TypeStep DEF Inv, CheckoutNext
<1> QED BY <1>1, <1>2, <1>3, <1>4, QueueStep, MoneyUnchanged

LEMMA RecordFactStep ==
  ASSUME Inv, RecordFact PROVE Inv'
<1>1. UNCHANGED <<births, born, run, cart, delivery, intent>>
  BY DEF RecordFact, orderVars
<1>2. PICK f \in reported :
        /\ reported' = reported \ {f}
        /\ IF AlreadyRecords(f) THEN UNCHANGED <<payment, lane>>
           ELSE /\ payment' = [payment EXCEPT ![f.order] = FoldedStatus(f)]
                /\ \E l \in ChainTargets(f) : Enqueue(l, f)
  BY DEF RecordFact
<1>3. f \in Message /\ f.order \in Orders /\ f.type \in {"PaymentAuthorized", "PaymentFailed"}
  BY MessageFields DEF Inv, CheckoutTypeOK, ReportsAreTrue
<1>4. CheckoutTypeOK'
  BY TypeStep DEF Inv, CheckoutNext
<1>5. HoldsKept /\ PaymentsKept
  BY <1>1, <1>2, <1>3 DEF HoldsKept, PaymentsKept, Paid, FoldedStatus, Inv, CheckoutTypeOK
<1>6. CASE AlreadyRecords(f)
  BY <1>1, <1>2, <1>3, <1>4, <1>5, <1>6, QueueStep, CheckoutAssumption
<1>7. CASE ~AlreadyRecords(f)
  <2>1. PICK l \in ChainTargets(f) : Enqueue(l, f)
    BY <1>2, <1>7
  <2>2. l \in Lanes /\ (f.type # "PaymentFailed" => LaneOf[f.order] = l)
    BY <1>3, CheckoutAssumption DEF ChainTargets
  <2>3. f.type = "PaymentAuthorized" => Paid(f.order)'
    BY <1>1, <1>2, <1>3, <1>7 DEF Inv, ReportsAreTrue, Paid, FoldedStatus, CheckoutTypeOK
  <2> QED
    BY <1>1, <1>2, <1>3, <1>4, <1>5, <2>1, <2>2, <2>3, QueueStep
<1> QED BY <1>6, <1>7

LEMMA CardStep ==
  ASSUME Inv, NEW o \in Orders, Confirm(o) \/ Decline(o) PROVE Inv'
<1>1. UNCHANGED <<births, born, run, cart, delivery, lane, payment>>
  BY DEF Confirm, Decline, orderVars, laneVars
<1>2. HoldsKept /\ PaymentsKept
  BY <1>1 DEF Confirm, Decline, HoldsKept, PaymentsKept, Paid, Inv, CheckoutTypeOK
<1>3. CheckoutTypeOK'
  BY TypeStep DEF Inv, CheckoutNext
<1>4. ReportsAreTrue'
  <2>1. \A m \in reported : m.order \in Orders
    BY MessageFields DEF Inv, CheckoutTypeOK
  <2>2. \A m \in reported : m.type # "PlaceOrder" /\ (m.type = "PaymentAuthorized" => intent'[m.order] = "held")
    BY <1>2, <2>1 DEF Inv, ReportsAreTrue, HoldsKept
  <2>3. CASE Confirm(o)
    <3>1. intent'[o] = "held"
      BY <2>3 DEF Confirm, Inv, CheckoutTypeOK
    <3> QED BY <2>2, <2>3, <3>1 DEF Confirm, Report, ReportsAreTrue
  <2>4. CASE Decline(o)
    BY <2>2, <2>4 DEF Decline, Report, ReportsAreTrue
  <2> QED BY <2>3, <2>4
<1>5. \A k \in Lanes : Has(k)' = Has(k) /\ HeadOf(k)' = HeadOf(k)
  BY <1>1 DEF Has, HeadOf
<1>6. LanesAreTrue'
  BY <1>2, <1>5, LanesKept DEF Inv
<1>7. Placed' = Placed /\ \A k : NoOrderOf(k)' = NoOrderOf(k)
  BY <1>1 DEF Placed, NoOrderOf
<1>8. BusyHasHead' /\ WorkExcludes' /\ OneOrderOfALane'
  BY <1>1, <1>5, <1>7 DEF Inv, BusyHasHead, WorkExcludes, OneOrderOfALane
<1>9. PlacedIsPaid'
  BY <1>2, <1>7, PlacedInOrders DEF Inv, PlacedIsPaid, PaymentsKept, Paid
<1> QED
  BY <1>1, <1>3, <1>4, <1>6, <1>8, <1>9, RowKept DEF Inv

\* A birth that waits on its lane is as good as placed.
LEMMA BirthStep ==
  ASSUME Inv, RecordBirth PROVE Inv'
<1>1. UNCHANGED <<lane, delivery, cart, run, payment, intent, reported>> /\ Placed' = Placed
  BY DEF RecordBirth, laneVars, stripeVars, Placed
<1>2. \A k : NoOrderOf(k)' = NoOrderOf(k) /\ Has(k)' = Has(k) /\ HeadOf(k)' = HeadOf(k)
  BY <1>1 DEF NoOrderOf, Has, HeadOf
<1>3. CheckoutTypeOK'
  BY TypeStep DEF Inv, CheckoutNext
<1>4. ReportsAreTrue' /\ LanesAreTrue' /\ BusyHasHead' /\ PlacedIsPaid'
  BY <1>1, <1>2 DEF Inv, ReportsAreTrue, LanesAreTrue, BusyHasHead, PlacedIsPaid, Paid
<1>5. WorkExcludes' /\ AwaitingExcludes' /\ OneOrderOfALane' /\ CartFollowsOrder' /\ RowFollowsOrder'
  BY <1>1, <1>2 DEF Inv, WorkExcludes, AwaitingExcludes, OneOrderOfALane, CartFollowsOrder,
     RowFollowsOrder, IsAwaiting
<1> QED BY <1>3, <1>4, <1>5 DEF Inv

LEMMA InvInit == CheckoutInit => Inv
<1>1. ASSUME CheckoutInit PROVE Inv
  <2>1. CheckoutTypeOK
    BY <1>1 DEF CheckoutInit, CheckoutTypeOK, Run
  <2>2. Placed = {} /\ \A l \in Lanes : Has(l) = {} /\ delivery[l] = "idle"
    BY <1>1 DEF CheckoutInit, Placed, Has
  <2>3. reported = {} /\ run.status = "none" /\ cart = NoOrder
    BY <1>1 DEF CheckoutInit
  <2> QED
    BY <2>1, <2>2, <2>3 DEF Inv, ReportsAreTrue, LanesAreTrue, BusyHasHead, PlacedIsPaid,
       WorkExcludes, AwaitingExcludes, OneOrderOfALane, CartFollowsOrder, RowFollowsOrder, IsAwaiting
<1> QED BY <1>1

LEMMA InvStutter == ASSUME Inv, UNCHANGED vars PROVE Inv'
<1>1. UNCHANGED <<lane, delivery, cart, run, payment, births, born, intent, reported>>
  BY DEF vars, laneVars, orderVars, stripeVars
<1>2. CheckoutTypeOK'
  BY TypeStep DEF Inv
<1>3. ReportsAreTrue' /\ LanesAreTrue' /\ BusyHasHead' /\ PlacedIsPaid'
  BY <1>1 DEF Inv, ReportsAreTrue, LanesAreTrue, BusyHasHead, PlacedIsPaid, Paid, Has, Placed
<1>4. WorkExcludes' /\ AwaitingExcludes' /\ OneOrderOfALane' /\ CartFollowsOrder' /\ RowFollowsOrder'
  BY <1>1 DEF Inv, WorkExcludes, AwaitingExcludes, OneOrderOfALane, CartFollowsOrder,
     RowFollowsOrder, IsAwaiting, NoOrderOf, Placed, HeadOf
<1> QED BY <1>2, <1>3, <1>4 DEF Inv

LEMMA InvStep == ASSUME Inv, [CheckoutNext]_vars PROVE Inv'
BY SendStep, CardStep, ReadingStep, RequestStep, ReadFactStep, CommitPlaceOrderStep,
   CommitAuthorizedStep, CommitFailedStep, RecordFactStep, BirthStep, InvStutter
   DEF CheckoutNext, DeliverySteps

LEMMA InvHolds == CheckoutSpec => []Inv
BY InvInit, InvStep, PTL DEF CheckoutSpec

(***************************************************************************)
(* Theorems.                                                               *)
(***************************************************************************)

\* An order is born only of a confirmed hold whose authorization the Payment
\* recorded: place_order's birth leg.
THEOREM PlacedOrdersArePaid == CheckoutSpec => []PlacedIsPaid
<1>1. Inv => PlacedIsPaid
  BY DEF Inv
<1> QED BY <1>1, InvHolds, PTL

\* Two attempts at a cart that are delivered by one lane never both become
\* orders, whatever other lanes write to the row between their reads.
THEOREM LanesPlaceOnce == CheckoutSpec => []OneOrderOfALane
<1>1. Inv => OneOrderOfALane
  BY DEF Inv
<1> QED BY <1>1, InvHolds, PTL

\* The run row never awaits the payment of an order already placed, names one
\* that exists once it says so, and the cart is closed by one that exists.
THEOREM RunRowFollowsOrder == CheckoutSpec => []RunFollowsOrder
<1>1. Inv => RunFollowsOrder
  BY DEF Inv, RunFollowsOrder, RowFollowsOrder, CartFollowsOrder, AwaitingExcludes, NoOrderOf, IsAwaiting
<1> QED BY <1>1, InvHolds, PTL

(***************************************************************************)
(* The checkout implements Purchase.                                       *)
(***************************************************************************)

\* What the client was given the secret of is on record.
SecretsAreOnRecord == \A o \in answered : payment[o] # "none"

\* A card that is reported declined was, and its attempt had its secret.
DeclinesAreTrue ==
  \A m \in reported : /\ m.order \in answered
                      /\ m.type = "PaymentFailed" => intent[m.order] \in {"declined", "held"}

\* The failures chained to a lane are on record.
FailuresAreTrue ==
  \A l \in Lanes : \A m \in Has(l) : m.type = "PaymentFailed" => payment[m.order] = "FAILED"

\* An attempt commits after its intent was created.
CallsPrecedeCommits ==
  \A l \in Lanes :
    delivery[l] = "commit" /\ HeadOf(l).type = "PlaceOrder" => intent[HeadOf(l).order] # "none"

PurchaseInv == SecretsAreOnRecord /\ DeclinesAreTrue /\ FailuresAreTrue /\ CallsPrecedeCommits

LEMMA PurchaseInitially == CheckoutInit => PurchaseInv
<1> SUFFICES ASSUME CheckoutInit PROVE PurchaseInv
  OBVIOUS
<1>1. answered = {} /\ reported = {} /\ \A l \in Lanes : delivery[l] = "idle" /\ Has(l) = {}
  BY DEF CheckoutInit, Has
<1> QED BY <1>1 DEF PurchaseInv, SecretsAreOnRecord, DeclinesAreTrue, FailuresAreTrue, CallsPrecedeCommits

\* Money that was asked for stays asked for, a card that was declined was, and
\* what is on record stays there.
MoneyGoesOn ==
  \A o \in Orders :
    /\ intent[o] # "none" => intent'[o] # "none"
    /\ intent[o] \in {"declined", "held"} => intent'[o] \in {"declined", "held"}
    /\ payment[o] # "none" => payment'[o] # "none"
    /\ payment[o] = "FAILED" => payment'[o] = "FAILED"

\* The fact a webhook brings is recorded as what it says, once.
LEMMA FactRecorded ==
  ASSUME Inv, PurchaseInv, RecordFact
  PROVE  /\ UNCHANGED <<delivery, cart, births, born, run, intent, answered>> /\ reported' \subseteq reported
         /\ \/ UNCHANGED <<payment, lane>>
            \/ \E f \in reported, l \in Lanes :
                 /\ f \in Message /\ f.order \in Orders /\ Enqueue(l, f)
                 /\ payment' = [payment EXCEPT ![f.order] = FoldedStatus(f)]
                 /\ \/ f.type = "PaymentAuthorized" /\ payment[f.order] = "PENDING"
                    \/ f.type = "PaymentFailed" /\ payment[f.order] \in {"PENDING", "AUTHORIZED"}
<1>1. UNCHANGED <<delivery, cart, births, born, run, intent, answered>>
  BY DEF RecordFact, orderVars, clientVars
<1>2. PICK f \in reported :
        /\ reported' = reported \ {f}
        /\ IF AlreadyRecords(f) THEN UNCHANGED <<payment, lane>>
           ELSE /\ payment' = [payment EXCEPT ![f.order] = FoldedStatus(f)]
                /\ \E l \in ChainTargets(f) : Enqueue(l, f)
  BY DEF RecordFact
<1>3. f \in Message /\ f.order \in Orders /\ f.type \in {"PaymentAuthorized", "PaymentFailed"}
  BY MessageFields DEF Inv, CheckoutTypeOK, ReportsAreTrue
<1>4. ChainTargets(f) \subseteq Lanes
  BY <1>3, CheckoutAssumption DEF ChainTargets
<1>5. payment[f.order] \in {"PENDING", "AUTHORIZED", "FAILED"}
  BY <1>3 DEF Inv, CheckoutTypeOK, PurchaseInv, SecretsAreOnRecord, DeclinesAreTrue
<1> QED BY <1>1, <1>2, <1>3, <1>4, <1>5 DEF AlreadyRecords

LEMMA MoneyStep ==
  ASSUME Inv, PurchaseInv, [CheckoutNext]_vars PROVE MoneyGoesOn
<1> USE DEF MoneyGoesOn
<1>1. intent \in [Orders -> {"none", "created", "declined", "held"}]
      /\ payment \in [Orders -> {"none", "PENDING", "AUTHORIZED", "FAILED"}]
  BY DEF Inv, CheckoutTypeOK
<1>2. CASE UNCHANGED <<intent, payment>>
  BY <1>2
<1>3. ASSUME NEW o \in Orders, Confirm(o) \/ Decline(o) PROVE MoneyGoesOn
  BY <1>1, <1>3 DEF Confirm, Decline
<1>4. ASSUME NEW l \in Lanes, RequestIntent(l) PROVE MoneyGoesOn
  BY <1>1, <1>4 DEF RequestIntent
<1>5. ASSUME NEW l \in Lanes, CommitPlaceOrder(l) PROVE MoneyGoesOn
  BY <1>1, <1>5 DEF CommitPlaceOrder, stripeVars
<1>6. CASE RecordFact
  <2>1. CASE UNCHANGED payment
    BY <1>2, <1>6, <2>1, FactRecorded
  <2>2. ASSUME NEW f, f.order \in Orders,
               payment' = [payment EXCEPT ![f.order] = FoldedStatus(f)], payment[f.order] # "FAILED"
        PROVE  MoneyGoesOn
    <3>1. FoldedStatus(f) # "none" /\ intent' = intent
      BY <1>6, FactRecorded DEF FoldedStatus
    <3> QED BY <1>1, <2>2, <3>1
  <2> QED BY <1>6, <2>1, <2>2, FactRecorded
<1>7. \/ UNCHANGED <<intent, payment>> \/ RecordFact
      \/ \E o \in Orders : Confirm(o) \/ Decline(o)
      \/ \E l \in Lanes : RequestIntent(l) \/ CommitPlaceOrder(l)
  BY DEF CheckoutNext, DeliverySteps, SendPlaceOrder, ReadCart, ReadRun, IntentRefused, ReadFactRun,
     CommitAuthorized, CommitFailed, Redeliver, GiveUp, RecordBirth, vars, stripeVars
<1> QED BY <1>2, <1>3, <1>4, <1>5, <1>6, <1>7

\* A step ends or moves the delivery of one lane, or adds to one.
LEMMA LaneStep ==
  ASSUME Inv, PurchaseInv, [CheckoutNext]_vars
  PROVE  \/ \E l \in Lanes :
              /\ lane[l] # <<>>
              /\ \/ EndDelivery(l)
                 \/ \E s : /\ Proceed(l, s)
                           /\ s = "commit" /\ HeadOf(l).type = "PlaceOrder" => intent'[HeadOf(l).order] # "none"
         \/ /\ UNCHANGED delivery
            /\ \/ UNCHANGED lane
               \/ \E l \in Lanes, m \in Message :
                    Enqueue(l, m) /\ (m.type = "PaymentFailed" => payment'[m.order] = "FAILED")
<1> DEFINE Works(l) ==
             /\ lane[l] # <<>>
             /\ \/ EndDelivery(l)
                \/ \E s : /\ Proceed(l, s)
                          /\ s = "commit" /\ HeadOf(l).type = "PlaceOrder" => intent'[HeadOf(l).order] # "none"
           Queues == /\ UNCHANGED delivery
                     /\ \/ UNCHANGED lane
                        \/ \E l \in Lanes, m \in Message :
                             Enqueue(l, m) /\ (m.type = "PaymentFailed" => payment'[m.order] = "FAILED")
<1>1. ASSUME NEW o \in Orders, SendPlaceOrder(o) PROVE Queues
  <2>1. LaneOf[o] \in Lanes /\ [type |-> "PlaceOrder", order |-> o] \in Message
    BY CheckoutAssumption DEF Message
  <2> QED BY <1>1, <2>1 DEF SendPlaceOrder
<1>2. ASSUME RecordFact PROVE Queues
  <2>1. ASSUME NEW f, f.order \in Orders, f.type = "PaymentFailed",
               payment' = [payment EXCEPT ![f.order] = FoldedStatus(f)]
        PROVE  payment'[f.order] = "FAILED"
    BY <2>1 DEF FoldedStatus, Inv, CheckoutTypeOK
  <2> QED BY <1>2, <2>1, FactRecorded
<1>3. ASSUME NEW l \in Lanes,
             \/ ReadCart(l) \/ ReadRun(l) \/ RequestIntent(l) \/ IntentRefused(l) \/ CommitPlaceOrder(l)
             \/ ReadFactRun(l) \/ CommitAuthorized(l) \/ CommitFailed(l) \/ Redeliver(l) \/ GiveUp(l)
      PROVE  Works(l)
  <2>1. lane[l] # <<>>
    BY <1>3 DEF Inv, BusyHasHead, ReadCart, ReadRun, RequestIntent, IntentRefused, CommitPlaceOrder,
       ReadFactRun, CommitAuthorized, CommitFailed, Redeliver, GiveUp, Delivers
  <2>2. CASE RequestIntent(l)
    <3>1. HeadOf(l).order \in Orders
      BY <2>1, HeadType DEF Inv
    <3>2. intent'[HeadOf(l).order] # "none" /\ Proceed(l, "commit")
      BY <2>2, <3>1 DEF RequestIntent, Inv, CheckoutTypeOK
    <3> QED BY <2>1, <3>2
  <2>3. CASE ReadFactRun(l)
    BY <2>1, <2>3 DEF ReadFactRun, Delivers
  <2>4. CASE ReadCart(l) \/ ReadRun(l) \/ Redeliver(l)
    <3>1. EndDelivery(l) \/ \E s \in {"idle", "run", "call"} : Proceed(l, s)
      BY <2>4 DEF ReadCart, ReadRun, Redeliver
    <3> QED BY <2>1, <3>1
  <2> QED BY <1>3, <2>1, <2>2, <2>3, <2>4 DEF IntentRefused, CommitPlaceOrder, CommitAuthorized, CommitFailed, GiveUp
<1>4. ASSUME (\E o \in Orders : Confirm(o) \/ Decline(o)) \/ RecordBirth \/ UNCHANGED vars PROVE Queues
  BY <1>4 DEF Confirm, Decline, RecordBirth, vars, laneVars
<1> HIDE DEF Works, Queues
<1>5. Queues \/ \E l \in Lanes : Works(l)
  BY <1>1, <1>2, <1>3, <1>4 DEF CheckoutNext, DeliverySteps
<1> QED BY <1>5 DEF Works, Queues

LEMMA ReportedStep ==
  ASSUME Inv, PurchaseInv, [CheckoutNext]_vars
  PROVE  SecretsAreOnRecord' /\ DeclinesAreTrue'
<1>1. MoneyGoesOn /\ answered \subseteq Orders /\ \A m \in reported : m.order \in Orders
  BY MoneyStep, MessageFields DEF Inv, CheckoutTypeOK
<1>2. SecretsAreOnRecord'
  <2>1. CASE UNCHANGED answered
    BY <1>1, <2>1 DEF PurchaseInv, SecretsAreOnRecord, MoneyGoesOn
  <2>2. ASSUME NEW l \in Lanes, CommitPlaceOrder(l) PROVE SecretsAreOnRecord'
    <3>1. HeadOf(l).order \in Orders
      BY <2>2, HeadType DEF Inv, CommitPlaceOrder, Delivers
    <3>2. payment'[HeadOf(l).order] # "none"
      BY <2>2, <3>1 DEF CommitPlaceOrder, Inv, CheckoutTypeOK
    <3> QED BY <1>1, <2>2, <3>2 DEF PurchaseInv, SecretsAreOnRecord, MoneyGoesOn, CommitPlaceOrder
  <2>3. UNCHANGED answered \/ \E l \in Lanes : CommitPlaceOrder(l)
    BY DEF CheckoutNext, DeliverySteps, SendPlaceOrder, Confirm, Decline, ReadCart, ReadRun, RequestIntent,
       IntentRefused, ReadFactRun, CommitAuthorized, CommitFailed, Redeliver, GiveUp, RecordFact,
       RecordBirth, vars, clientVars
  <2> QED BY <2>1, <2>2, <2>3
<1>3. DeclinesAreTrue'
  <2>1. answered \subseteq answered'
    BY DEF CheckoutNext, DeliverySteps, SendPlaceOrder, Confirm, Decline, ReadCart, ReadRun, RequestIntent,
       IntentRefused, CommitPlaceOrder, ReadFactRun, CommitAuthorized, CommitFailed, Redeliver, GiveUp,
       RecordFact, RecordBirth, vars, clientVars
  <2>2. \A m \in reported : /\ m.order \in answered'
                            /\ m.type = "PaymentFailed" => intent'[m.order] \in {"declined", "held"}
    BY <1>1, <2>1 DEF PurchaseInv, DeclinesAreTrue, MoneyGoesOn
  <2>3. CASE reported' \subseteq reported
    BY <2>2, <2>3 DEF DeclinesAreTrue
  <2>4. ASSUME NEW o \in Orders, Confirm(o) \/ Decline(o) PROVE DeclinesAreTrue'
    <3>1. \A m \in reported' \ reported :
            m.order = o /\ (m.type = "PaymentFailed" => intent'[o] = "declined")
      BY <2>4 DEF Confirm, Decline, Report, Inv, CheckoutTypeOK
    <3> QED BY <2>1, <2>2, <2>4, <3>1 DEF DeclinesAreTrue, Confirm, Decline
  <2>5. reported' \subseteq reported \/ \E o \in Orders : Confirm(o) \/ Decline(o)
    BY FactRecorded DEF CheckoutNext, DeliverySteps, SendPlaceOrder, ReadCart, ReadRun, RequestIntent,
       IntentRefused, CommitPlaceOrder, ReadFactRun, CommitAuthorized, CommitFailed, Redeliver, GiveUp,
       RecordBirth, vars, stripeVars
  <2> QED BY <2>3, <2>4, <2>5
<1> QED BY <1>2, <1>3

LEMMA LanesStep ==
  ASSUME Inv, PurchaseInv, [CheckoutNext]_vars
  PROVE  FailuresAreTrue' /\ CallsPrecedeCommits'
<1>1. MoneyGoesOn /\ lane \in [Lanes -> Seq(Message)] /\ delivery \in [Lanes -> {"idle", "run", "call", "commit"}]
  BY MoneyStep DEF Inv, CheckoutTypeOK
<1>2. \A l \in Lanes : \A m \in Has(l) :
        m.order \in Orders /\ (m.type = "PaymentFailed" => payment'[m.order] = "FAILED")
  <2> SUFFICES ASSUME NEW l \in Lanes, NEW m \in Has(l)
               PROVE  m.order \in Orders /\ (m.type = "PaymentFailed" => payment'[m.order] = "FAILED")
    OBVIOUS
  <2>1. m.order \in Orders
    BY HasMessages, MessageFields DEF Inv
  <2> QED BY <1>1, <2>1 DEF PurchaseInv, FailuresAreTrue, MoneyGoesOn
<1>3. \A l \in Lanes : delivery[l] = "commit" /\ HeadOf(l).type = "PlaceOrder" =>
                         intent'[HeadOf(l).order] # "none"
  <2> SUFFICES ASSUME NEW l \in Lanes, delivery[l] = "commit", HeadOf(l).type = "PlaceOrder"
               PROVE  intent'[HeadOf(l).order] # "none"
    OBVIOUS
  <2>1. HeadOf(l).order \in Orders
    BY HeadType DEF Inv, BusyHasHead
  <2> QED BY <1>1, <2>1 DEF PurchaseInv, CallsPrecedeCommits, MoneyGoesOn
<1>4. ASSUME \A k \in Lanes : Has(k)' \subseteq Has(k) PROVE FailuresAreTrue'
  BY <1>2, <1>4 DEF FailuresAreTrue
<1>5. ASSUME NEW l \in Lanes, lane[l] # <<>>, EndDelivery(l)
      PROVE  FailuresAreTrue' /\ CallsPrecedeCommits'
  <2>1. delivery'[l] = "idle" /\ \A k \in Lanes \ {l} : delivery'[k] = delivery[k] /\ HeadOf(k)' = HeadOf(k)
    BY <1>1, <1>5, EndHas DEF EndDelivery
  <2>2. CallsPrecedeCommits'
    BY <1>3, <2>1 DEF CallsPrecedeCommits
  <2> QED BY <1>1, <1>4, <1>5, <2>2, EndHas
<1>6. ASSUME NEW l \in Lanes, NEW s, Proceed(l, s),
             s = "commit" /\ HeadOf(l).type = "PlaceOrder" => intent'[HeadOf(l).order] # "none"
      PROVE  FailuresAreTrue' /\ CallsPrecedeCommits'
  <2>1. \A k \in Lanes : Has(k)' = Has(k) /\ HeadOf(k)' = HeadOf(k)
    BY <1>6 DEF Proceed, Has, HeadOf
  <2>2. delivery'[l] = s /\ \A k \in Lanes \ {l} : delivery'[k] = delivery[k]
    BY <1>1, <1>6 DEF Proceed
  <2>3. CallsPrecedeCommits'
    BY <1>3, <1>6, <2>1, <2>2 DEF CallsPrecedeCommits
  <2> QED BY <1>4, <2>1, <2>3
<1>7. ASSUME UNCHANGED <<delivery, lane>> PROVE FailuresAreTrue' /\ CallsPrecedeCommits'
  <2>1. \A k \in Lanes : Has(k)' = Has(k) /\ HeadOf(k)' = HeadOf(k)
    BY <1>7 DEF Has, HeadOf
  <2>2. CallsPrecedeCommits'
    BY <1>3, <1>7, <2>1 DEF CallsPrecedeCommits
  <2> QED BY <1>4, <2>1, <2>2
<1>8. ASSUME UNCHANGED delivery, NEW l \in Lanes, NEW m \in Message, Enqueue(l, m),
             m.type = "PaymentFailed" => payment'[m.order] = "FAILED"
      PROVE  FailuresAreTrue' /\ CallsPrecedeCommits'
  <2>1. /\ \A k \in Lanes : Has(k)' \subseteq Has(k) \union (IF k = l THEN {m} ELSE {})
        /\ \A k \in Lanes : lane[k] # <<>> => HeadOf(k)' = HeadOf(k)
    BY <1>1, <1>8, EnqueueHas
  <2>2. FailuresAreTrue'
    BY <1>2, <1>8, <2>1 DEF FailuresAreTrue
  <2>3. CallsPrecedeCommits'
    BY <1>3, <1>8, <2>1 DEF CallsPrecedeCommits, Inv, BusyHasHead
  <2> QED BY <2>2, <2>3
<1> QED BY <1>5, <1>6, <1>7, <1>8, LaneStep

LEMMA PurchaseStep == ASSUME Inv, PurchaseInv, [CheckoutNext]_vars PROVE PurchaseInv'
BY ReportedStep, LanesStep DEF PurchaseInv

\* An attempt at work is alone on its lane.
LEMMA WorkIsFree ==
  ASSUME Inv, NEW l \in Lanes, lane[l] # <<>>, delivery[l] # "idle", HeadOf(l).type # "PaymentFailed"
  PROVE  Promise!LaneIsFree(HeadOf(l).order)
<1>1. LaneOf[HeadOf(l).order] = l /\ NoOrderOf(l)
  BY HeadHas DEF Inv, CheckoutTypeOK, LanesAreTrue, WorkExcludes
<1> QED BY <1>1 DEF Promise!LaneIsFree, NoOrderOf

LEMMA StepRefines ==
  ASSUME Inv, PurchaseInv, [CheckoutNext]_vars
  PROVE  [Promise!PurchaseNext]_(Promise!purchaseVars)
<1> USE DEF Promise!PurchaseNext
<1>1. /\ intent \in [Orders -> {"none", "created", "declined", "held"}]
      /\ payment \in [Orders -> {"none", "PENDING", "AUTHORIZED", "FAILED"}]
  BY DEF Inv, CheckoutTypeOK
<1>2. ASSUME UNCHANGED <<intent, payment, births, born, cart, run>>
      PROVE  UNCHANGED Promise!purchaseVars
  BY <1>2 DEF Promise!purchaseVars, Placed
<1>3. ASSUME NEW l \in Lanes, RequestIntent(l) PROVE [Promise!PurchaseNext]_(Promise!purchaseVars)
  <2> DEFINE o == HeadOf(l).order
  <2>1. lane[l] # <<>> /\ delivery[l] # "idle" /\ HeadOf(l).type # "PaymentFailed"
    BY <1>3 DEF RequestIntent, Delivers
  <2>2. o \in Orders /\ Promise!LaneIsFree(o)
    BY <2>1, HeadType, WorkIsFree DEF Inv
  <2>3. /\ intent' = [intent EXCEPT ![o] = IF @ = "none" THEN "created" ELSE @]
        /\ UNCHANGED <<payment, births, born, cart, run>>
    BY <1>3 DEF RequestIntent, orderVars
  <2> HIDE DEF o
  <2>4. CASE intent[o] = "none"
    <3>1. Promise!AskMoney(o)
      BY <1>1, <2>2, <2>3, <2>4 DEF Promise!AskMoney, Promise!Becomes, Placed
    <3> QED BY <2>2, <3>1
  <2>5. CASE intent[o] # "none"
    <3>1. intent' = intent
      BY <1>1, <2>2, <2>3, <2>5
    <3> QED BY <1>2, <2>3, <3>1
  <2> QED BY <2>4, <2>5
<1>4. ASSUME NEW l \in Lanes, CommitPlaceOrder(l) PROVE [Promise!PurchaseNext]_(Promise!purchaseVars)
  <2> DEFINE o == HeadOf(l).order
  <2>1. lane[l] # <<>> /\ delivery[l] = "commit" /\ HeadOf(l).type = "PlaceOrder"
    BY <1>4 DEF CommitPlaceOrder, Delivers
  <2>2. o \in Orders /\ Promise!LaneIsFree(o) /\ intent[o] # "none"
    BY <2>1, HeadType, WorkIsFree DEF Inv, PurchaseInv, CallsPrecedeCommits
  <2>3. /\ payment' = [payment EXCEPT ![o] = IF @ = "none" THEN "PENDING" ELSE @]
        /\ run' = [order |-> o, status |-> "AWAITING_PAYMENT_RESULT"]
        /\ UNCHANGED <<intent, births, born, cart>>
    BY <1>4 DEF CommitPlaceOrder, orderVars, stripeVars
  <2> HIDE DEF o
  <2>4. Promise!Open(o)
    BY <2>2, <2>3 DEF Promise!Open, Promise!Tell, Placed
  <2> QED BY <2>2, <2>4
<1>5. ASSUME NEW o \in Orders, Confirm(o) \/ Decline(o)
      PROVE  [Promise!PurchaseNext]_(Promise!purchaseVars)
  <2>1. payment[o] # "none" /\ intent[o] \in {"created", "declined"}
    BY <1>5 DEF Confirm, Decline, PurchaseInv, SecretsAreOnRecord
  <2>2. /\ intent' = [intent EXCEPT ![o] = "held"] \/ intent' = [intent EXCEPT ![o] = "declined"]
        /\ UNCHANGED <<payment, births, born, cart, run>>
    BY <1>5 DEF Confirm, Decline, orderVars
  <2>3. Promise!Charge(o)
    BY <2>1, <2>2 DEF Promise!Charge, Promise!Becomes, Placed
  <2> QED BY <2>3
<1>6. CASE RecordFact
  <2>1. UNCHANGED <<cart, births, born, run, intent>>
    BY <1>6, FactRecorded
  <2>2. CASE UNCHANGED payment
    BY <1>2, <2>1, <2>2
  <2>3. ASSUME NEW f \in reported, f.order \in Orders,
               payment' = [payment EXCEPT ![f.order] = FoldedStatus(f)],
               \/ f.type = "PaymentAuthorized" /\ payment[f.order] = "PENDING"
               \/ f.type = "PaymentFailed" /\ payment[f.order] \in {"PENDING", "AUTHORIZED"}
        PROVE  [Promise!PurchaseNext]_(Promise!purchaseVars)
    <3>1. /\ f.type = "PaymentAuthorized" => intent[f.order] = "held"
          /\ f.type = "PaymentFailed" => intent[f.order] \in {"declined", "held"}
      BY DEF Inv, ReportsAreTrue, PurchaseInv, DeclinesAreTrue
    <3>2. Promise!Book(f.order)
      BY <2>1, <2>3, <3>1 DEF Promise!Book, FoldedStatus, Placed
    <3> QED BY <2>3, <3>2
  <2> QED BY <1>6, <2>2, <2>3, FactRecorded
<1>7. ASSUME NEW l \in Lanes, CommitAuthorized(l) PROVE [Promise!PurchaseNext]_(Promise!purchaseVars)
  <2> DEFINE o == HeadOf(l).order
  <2>1. lane[l] # <<>> /\ delivery[l] # "idle" /\ HeadOf(l).type = "PaymentAuthorized"
    BY <1>7 DEF CommitAuthorized, Delivers
  <2>2. o \in Orders /\ Promise!LaneIsFree(o) /\ Paid(o)
    BY <2>1, HeadType, HeadHas, WorkIsFree DEF Inv, LanesAreTrue, CheckoutTypeOK
  <2>3. /\ Placed' = Placed \union {o} /\ UNCHANGED <<intent, payment>>
        /\ cart' = IF cart = NoOrder THEN o ELSE cart
        /\ run' = [order |-> o, status |-> "ORDER_PLACED"]
    BY <1>7 DEF CommitAuthorized, Placed, stripeVars
  <2> HIDE DEF o
  <2>4. Promise!Place(o)
    BY <2>2, <2>3 DEF Promise!Place, Promise!Tell, Paid
  <2> QED BY <2>2, <2>4
<1>8. ASSUME NEW l \in Lanes, CommitFailed(l) PROVE [Promise!PurchaseNext]_(Promise!purchaseVars)
  <2> DEFINE o == HeadOf(l).order
  <2>1. lane[l] # <<>> /\ HeadOf(l).type = "PaymentFailed"
    BY <1>8 DEF CommitFailed, Delivers
  <2>2. o \in Orders /\ payment[o] = "FAILED"
    BY <2>1, HeadType, HeadHas DEF Inv, CheckoutTypeOK, PurchaseInv, FailuresAreTrue
  <2>3. /\ run' = [order |-> o, status |-> "FAILED"]
        /\ UNCHANGED <<intent, payment, births, born, cart>>
    BY <1>8 DEF CommitFailed, orderVars, stripeVars
  <2> HIDE DEF o
  <2>4. Promise!Abandon(o)
    BY <2>2, <2>3 DEF Promise!Abandon, Promise!Tell, Placed
  <2> QED BY <2>2, <2>4
<1>9. CASE RecordBirth
  <2>1. Placed' = Placed /\ UNCHANGED <<intent, payment, cart, run>>
    BY <1>9 DEF RecordBirth, Placed, stripeVars
  <2> QED BY <2>1 DEF Promise!purchaseVars
<1>10. \/ UNCHANGED <<intent, payment, births, born, cart, run>>
       \/ RecordFact \/ RecordBirth
       \/ \E o \in Orders : Confirm(o) \/ Decline(o)
       \/ \E l \in Lanes : RequestIntent(l) \/ CommitPlaceOrder(l) \/ CommitAuthorized(l) \/ CommitFailed(l)
  BY DEF CheckoutNext, DeliverySteps, SendPlaceOrder, ReadCart, ReadRun, IntentRefused, ReadFactRun,
     Redeliver, GiveUp, vars, stripeVars, orderVars
<1> QED BY <1>2, <1>3, <1>4, <1>5, <1>6, <1>7, <1>8, <1>9, <1>10

\* The checkout keeps what was promised about the purchase, for any number of
\* attempts, of lanes and of failures: no card is charged before the attempt is
\* on record, no attempt of a lane goes on once one became an order, and the
\* first order closes the cart for good.
THEOREM CheckoutKeepsPurchase == CheckoutSpec => KeepsPurchase
<1>1. CheckoutInit => Promise!PurchaseInit
  BY DEF CheckoutInit, Promise!PurchaseInit, Placed
<1>2. Inv /\ PurchaseInv /\ [CheckoutNext]_vars => PurchaseInv'
  BY PurchaseStep
<1>3. Inv /\ PurchaseInv /\ [CheckoutNext]_vars => [Promise!PurchaseNext]_(Promise!purchaseVars)
  BY StepRefines
<1> QED BY <1>1, <1>2, <1>3, PurchaseInitially, InvHolds, PTL
        DEF CheckoutSpec, KeepsPurchase, Promise!PurchaseSpec
=============================================================================
