------------------------------ MODULE Purchase ------------------------------
(***************************************************************************)
(* What customer and restaurant are promised about the checkout of one     *)
(* cart, whoever drains the lanes: no card is charged of an attempt that   *)
(* is not on record, and no order is placed of an attempt that was not     *)
(* charged; of the attempts of a lane one becomes an order, and none goes  *)
(* on after it; the cart is the first order's and stays so; what is on     *)
(* record of the money happened, and what the run tells is on record.      *)
(***************************************************************************)
CONSTANTS
  Orders,   \* attempts at the cart
  LaneOf,   \* the lane of an attempt
  NoOrder   \* nobody's

VARIABLES
  money,    \* what became of the money of each attempt
  books,    \* what is on record of it
  placed,   \* the attempts that became orders
  cart,     \* whose the cart is
  told      \* what the run tells: of which attempt, and what

purchaseVars == <<money, books, placed, cart, told>>

PurchaseInit ==
  /\ money = [o \in Orders |-> "none"]
  /\ books = [o \in Orders |-> "none"]
  /\ placed = {}
  /\ cart = NoOrder
  /\ told = [order |-> NoOrder, status |-> "none"]

\* No attempt of the lane became an order.
LaneIsFree(o) == \A p \in placed : LaneOf[p] # LaneOf[o]

Tell(o, s) == told' = [order |-> o, status |-> s]
Becomes(o, s) == money' = [money EXCEPT ![o] = s]

AskMoney(o) ==
  /\ LaneIsFree(o)
  /\ money[o] = "none" /\ Becomes(o, "created")
  /\ UNCHANGED <<books, placed, cart, told>>

\* An attempt is on record before its card can be charged.
Open(o) ==
  /\ LaneIsFree(o)
  /\ money[o] # "none"
  /\ books' = [books EXCEPT ![o] = IF @ = "none" THEN "PENDING" ELSE @]
  /\ Tell(o, "AWAITING_PAYMENT_RESULT")
  /\ UNCHANGED <<money, placed, cart>>

Charge(o) ==
  /\ books[o] # "none"
  /\ money[o] \in {"created", "declined"}
  /\ Becomes(o, "held") \/ Becomes(o, "declined")
  /\ UNCHANGED <<books, placed, cart, told>>

\* A declined card may be on record after the hold that came of another card.
Book(o) ==
  /\ \/ /\ books[o] = "PENDING" /\ money[o] = "held"
        /\ books' = [books EXCEPT ![o] = "AUTHORIZED"]
     \/ /\ books[o] \in {"PENDING", "AUTHORIZED"} /\ money[o] \in {"declined", "held"}
        /\ books' = [books EXCEPT ![o] = "FAILED"]
  /\ UNCHANGED <<money, placed, cart, told>>

Place(o) ==
  /\ LaneIsFree(o)
  /\ money[o] = "held" /\ books[o] \in {"AUTHORIZED", "FAILED"}
  /\ placed' = placed \union {o}
  /\ cart' = IF cart = NoOrder THEN o ELSE cart
  /\ Tell(o, "ORDER_PLACED")
  /\ UNCHANGED <<money, books>>

Abandon(o) ==
  /\ books[o] = "FAILED"
  /\ Tell(o, "FAILED")
  /\ UNCHANGED <<money, books, placed, cart>>

PurchaseNext ==
  \E o \in Orders : AskMoney(o) \/ Open(o) \/ Charge(o) \/ Book(o) \/ Place(o) \/ Abandon(o)

PurchaseSpec == PurchaseInit /\ [][PurchaseNext]_purchaseVars
=============================================================================
