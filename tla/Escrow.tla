------------------------------- MODULE Escrow -------------------------------
(***************************************************************************)
(* What customer and restaurant are promised about the money of one order, *)
(* whoever moves it and whatever fails meanwhile: it is taken only for an  *)
(* order that was served, let go only of one that was aborted or by the    *)
(* lapse of the hold, and neither is taken back; of what was taken, one    *)
(* refund is paid back at most, once it was asked for and unless it was    *)
(* denied; and the records say nothing that did not happen.                *)
(***************************************************************************)
EXTENDS Naturals, FiniteSets, FiniteSetsExt

CONSTANTS
  Price,   \* what the customer authorised
  Amounts  \* amounts a refund may have

VARIABLES
  order,    \* what became of the order: open, served or aborted
  money,    \* where the money is: held, captured, released or expired
  opened,   \* whether a refund was asked for
  paid,     \* the amounts paid back
  verdict,  \* what the record says of the refund: none, approved or denied
  booked,   \* where the record says the money is: held, captured or released
  repaid,   \* the amounts it says were paid back
  again     \* whether a refund may be decided, and paid, another time

escrowVars == <<order, money, opened, paid, verdict, booked, repaid, again>>

EscrowInit ==
  /\ order = "open"
  /\ money = "held"
  /\ opened = FALSE
  /\ paid = {}
  /\ verdict = "none"
  /\ booked = "held"
  /\ repaid = {}
  /\ again = FALSE

\* The order ends, one way.
EndOrder ==
  /\ order = "open"
  /\ order' \in {"served", "aborted"}
  /\ UNCHANGED <<money, opened, paid, verdict, booked, repaid, again>>

\* The money leaves the hold, once, as the order came out.
Settle ==
  /\ money = "held"
  /\ \/ order = "served" /\ money' = "captured"
     \/ order = "aborted" /\ money' = "released"
     \/ money' = "expired"
  /\ UNCHANGED <<order, opened, paid, verdict, booked, repaid, again>>

\* A refund is asked for, of money that was taken.
Open ==
  /\ money = "captured"
  /\ opened' = TRUE
  /\ UNCHANGED <<order, money, paid, verdict, booked, repaid, again>>

Undecided == verdict = "none" /\ paid = {}

\* The first payment is the decision, and excludes another.
PayBack(a) ==
  /\ money = "captured" /\ opened
  /\ Undecided \/ again
  /\ a \notin paid
  /\ MapThenSumSet(LAMBDA n : n, paid) + a <= Price
  /\ paid' = paid \union {a}
  /\ UNCHANGED <<order, money, opened, verdict, booked, repaid, again>>

\* An approval is recorded of what was paid, a denial where nothing was.
Approve == paid # {} /\ (verdict = "none" \/ again) /\ verdict' = "approved"
Deny == opened /\ (Undecided \/ again) /\ verdict' = "denied"
Decide == (Approve \/ Deny) /\ UNCHANGED <<order, money, opened, paid, booked, repaid, again>>

\* The records of what Stripe did, each made once.
BookMoney ==
  /\ booked = "held" /\ money # "held"
  /\ booked' = IF money = "captured" THEN "captured" ELSE "released"
  /\ UNCHANGED <<order, money, opened, paid, verdict, repaid, again>>

BookRepayment(a) ==
  /\ a \in paid \ repaid
  /\ repaid' = repaid \union {a}
  /\ UNCHANGED <<order, money, opened, paid, verdict, booked, again>>

\* A refund that was decided, or paid, comes to be undecided.
Reopen ==
  /\ ~again /\ opened
  /\ again' = TRUE
  /\ UNCHANGED <<order, money, opened, paid, verdict, booked, repaid>>

EscrowNext ==
  \/ EndOrder \/ Settle \/ Open \/ Decide \/ BookMoney \/ Reopen
  \/ \E a \in Amounts : PayBack(a) \/ BookRepayment(a)

EscrowSpec == EscrowInit /\ [][EscrowNext]_escrowVars
=============================================================================
