------------------------------- MODULE Errand -------------------------------
(***************************************************************************)
(* What restaurant and customer are promised about the delivery of one     *)
(* order, whoever carries it: it is asked for once, of one channel after   *)
(* the other; one courier at a time has it, takes it from nobody and alone *)
(* gives it back; it is given up only when every channel was asked; the    *)
(* order is closed only when a delivery was reported; and what the run     *)
(* tells has happened, and goes on from what it told before.               *)
(***************************************************************************)
EXTENDS Naturals

VARIABLES
  channels,  \* how many delivery channels the city has, for this restaurant
  job,       \* the state of the job: none, and then its statuses
  been,      \* the states it has been in
  holder,    \* who has the job: nobody, a rider or a partner
  takers,    \* the kinds of courier that have taken it
  asked,     \* the channels that were asked
  order,     \* the order: READY, until the delivery closes it
  told,      \* what the run tells: a status, and the rank of the channel asked
  late       \* whether the run was taken back

errandVars == <<channels, job, been, holder, takers, asked, order, told, late>>
runVars == <<channels, asked, order, told, late>>

ErrandInit ==
  /\ channels \in Nat
  /\ job = "none" /\ been = {}
  /\ holder = "nobody" /\ takers = {}
  /\ asked = {}
  /\ order = "READY"
  /\ told = [status |-> "none", rank |-> 0]
  /\ late = FALSE

MoveTo(s) == job' = s /\ been' = been \union {s}

Request == job = "none" /\ MoveTo("PENDING") /\ UNCHANGED <<holder, takers, runVars>>

\* A channel is asked after the one before it.
Ask(n) ==
  /\ job # "none"
  /\ n \in 1 .. channels /\ n - 1 \in {0} \union asked
  /\ asked' = asked \union {n}
  /\ UNCHANGED <<channels, job, been, holder, takers, order, told, late>>

\* Only a partner that was asked can take the job, and nobody while it is taken.
Take(w) ==
  /\ job = "PENDING" /\ holder = "nobody"
  /\ w = "partner" => asked # {}
  /\ MoveTo("ASSIGNED")
  /\ holder' = w /\ takers' = takers \union {w}
  /\ UNCHANGED runVars

\* A partner gives the job back before it has the meal; a rider may find then
\* that it cannot be delivered any more.
GiveBack ==
  /\ \/ holder = "partner" /\ job = "ASSIGNED" /\ MoveTo("PENDING")
     \/ holder = "rider" /\ job \in {"ASSIGNED", "PICKED_UP"} /\ MoveTo("PENDING")
     \/ holder = "rider" /\ job = "PICKED_UP" /\ MoveTo("FAILED")
  /\ holder' = "nobody"
  /\ UNCHANGED <<takers, runVars>>

\* The job goes on by a step of its courier, or comes to an end.
Progress ==
  /\ \/ job = "PENDING" /\ MoveTo("ASSIGNED")
     \/ job = "ASSIGNED" /\ MoveTo("PICKED_UP")
     \/ job = "PICKED_UP" /\ MoveTo("DELIVERED")
     \/ job \in {"PENDING", "ASSIGNED", "PICKED_UP"} /\ MoveTo("FAILED")
     \/ job \notin {"none", "DELIVERED", "CANCELLED"} /\ MoveTo("CANCELLED")
  /\ UNCHANGED <<holder, takers, runVars>>

\* The end of the walk, whoever has the job.
Exhaust ==
  /\ asked = 1 .. channels
  /\ job \notin {"none", "FAILED"} /\ MoveTo("FAILED")
  /\ UNCHANGED <<holder, takers, runVars>>

Close ==
  /\ "DELIVERED" \in been
  /\ order = "READY" /\ order' \in {"DELIVERED", "CANCELLED"}
  /\ UNCHANGED <<channels, job, been, holder, takers, asked, told, late>>

Happened(x) ==
  /\ x.status # "none" => job # "none"
  /\ x.status = "OFFERED" => x.rank \in {0} \union asked
  /\ x.status = "ACCEPTED" => "partner" \in takers
  /\ x.status = "FAILED" => "FAILED" \in been
  /\ x.status = "COMPLETED" => order # "READY"

Follows(x, y) ==
  \/ y = x
  \/ x.status = "none" /\ y.status \in {"OFFERED", "SELF_DISPATCHED"} /\ y.rank \in {0, 1}
  \/ x.status = "OFFERED" /\ y.status = "OFFERED" /\ y.rank = x.rank + 1
  \/ x.status = "OFFERED" /\ y.status = "FAILED" /\ asked = 1 .. channels
  \/ x.status # "none" /\ y.status \in {"ACCEPTED", "COMPLETED"}

Tell ==
  /\ Happened(told')
  /\ Follows(told, told') \/ late'
  /\ late' \in {late, TRUE}
  /\ UNCHANGED <<channels, job, been, holder, takers, asked, order>>

ErrandNext ==
  \/ Request \/ (\E n \in 1 .. channels : Ask(n)) \/ (\E w \in {"rider", "partner"} : Take(w))
  \/ GiveBack \/ Progress \/ Exhaust \/ Close \/ Tell

ErrandSpec == ErrandInit /\ [][ErrandNext]_errandVars
=============================================================================
