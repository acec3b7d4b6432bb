------------------------------ MODULE Dispatch ------------------------------
(***************************************************************************)
(* How the delivery of one order that is ready is dispatched: the legs of  *)
(* DeliveryDispatchProcess (crates/application/src/generated/              *)
(* process_managers.rs, process_managers/delivery_dispatch.rs), the        *)
(* DeliveryJob aggregate (domain/src/delivery_job.rs), the commands and    *)
(* partner facts recorded on it, and the worker that times offers out      *)
(* (infrastructure/src/integrations/delivery_offer_timeout_worker.rs).     *)
(*                                                                         *)
(* The saga offers the job to the delivery channels of the city in rank    *)
(* order.  It keeps its place in a row, which it reads at the beginning of *)
(* a leg and replaces at the end; the facts it reacts to are recorded by   *)
(* others meanwhile.  Neither a rider who takes the job nor a courier who  *)
(* is unassigned from it is a trigger of the saga.                         *)
(*                                                                         *)
(* The runner scans the triggers of all orders behind one checkpoint, and  *)
(* a position is drawn at the INSERT and seen at the COMMIT: a trigger may *)
(* be late, below a position a reader has been at, and the leg of another  *)
(* order then takes the checkpoint past it.                                *)
(*                                                                         *)
(* PICKED_UP stands for PICKED_UP and OUT_FOR_DELIVERY.  Left out are: a   *)
(* plan that changes between two hooks, each of which resolves it anew; an *)
(* order without an address, or a restaurant without one, which is skipped *)
(* as one not projected is; and a partner's fact on a job never born,      *)
(* which is recorded unguarded and moves no job.                           *)
(***************************************************************************)
EXTENDS Naturals, Sequences, FiniteSets, FiniteSetsExt

CONSTANTS
  Runners,    \* saga runner processes
  Sweepers,   \* servers that time offers out
  Plans,      \* what resolve_plan may answer for the restaurant
  Reports,    \* the statuses partners report
  MaxMoves,   \* bound on the facts riders, partners and operators record
  MaxFaults   \* bound on crashes, failed calls and late commits

Plan == [selfDispatched : BOOLEAN, channels : Nat]

ASSUME DispatchAssumption ==
  /\ IsFiniteSet(Runners)
  /\ Plans \subseteq Plan
  /\ \A p \in Plans : p.selfDispatched => p.channels = 0
  /\ Reports \subseteq {"ASSIGNED", "PICKED_UP", "DELIVERED", "CANCELLED", "FAILED"}
  /\ {MaxMoves, MaxFaults} \subseteq Nat

VARIABLES
  plan,        \* the dispatch mode of the restaurant, and the length of the city's walk
  log,         \* OrderMarkedReady and the facts of the job, as they commit
  late,        \* places of those that committed below a position already read
  order,       \* the order: READY, until a leg closes it or finds it cancelled
  projected,   \* the OrderTracking row exists
  checkpoint,  \* projection_checkpoint of the saga
  leg,         \* what each runner is doing
  row,         \* the row of delivery_dispatch_process_manager; rank 0: null
  sweep,       \* the rank each sweeper is about to time out; 0: none
  offered,     \* channels the job was offered to
  faults,      \* number of faults so far
  unheard,     \* history: a trigger was consumed although nothing came of it
  behind       \* history: a leg took the run back, or replaced a row it had not read

runnerVars == <<checkpoint, leg, late, unheard>>
vars == <<plan, log, order, projected, row, sweep, faults, behind, offered, runnerVars>>

(***************************************************************************)
(* The facts of the job, each with the status it carries or leads to.      *)
(***************************************************************************)
JobStatuses == {"PENDING", "ASSIGNED", "PICKED_UP", "DELIVERED", "CANCELLED", "FAILED"}

Advances == {"DeliveryRejectedByPartner", "DeliveryEscalationRequested", "DeliveryOfferTimedOut"}
Neutral == Advances \union {"OrderMarkedReady"}
Moving == {"DeliveryRequested", "DeliveryAcceptedByRider", "DeliveryAcceptedByPartner",
           "DeliveryUnassignedFromPartner", "DeliveryPickedUp", "DeliveryCompleted",
           "DeliveryCancelled", "DeliveryDispatchFailed", "DeliveryStatusUpdated",
           "DeliveryHandedBackByRider"}

Fact == [type : Neutral, rank : Nat] \union [type : Moving, to : JobStatuses]

Neutrally(t, n) == [type |-> t, rank |-> n]
Moves(t, s) == [type |-> t, to |-> s]

\* delivery_job::lifecycle::transition, and initial for the birth.
Edges ==
  {<<"none", Moves("DeliveryRequested", "PENDING")>>,
   <<"PENDING", Moves("DeliveryAcceptedByRider", "ASSIGNED")>>,
   <<"PENDING", Moves("DeliveryAcceptedByPartner", "ASSIGNED")>>,
   <<"ASSIGNED", Moves("DeliveryUnassignedFromPartner", "PENDING")>>,
   <<"ASSIGNED", Moves("DeliveryPickedUp", "PICKED_UP")>>,
   <<"PICKED_UP", Moves("DeliveryCompleted", "DELIVERED")>>,
   <<"PENDING", Moves("DeliveryDispatchFailed", "FAILED")>>,
   <<"PENDING", Moves("DeliveryStatusUpdated", "ASSIGNED")>>,
   <<"ASSIGNED", Moves("DeliveryStatusUpdated", "PICKED_UP")>>,
   <<"PICKED_UP", Moves("DeliveryStatusUpdated", "DELIVERED")>>,
   <<"ASSIGNED", Moves("DeliveryHandedBackByRider", "PENDING")>>,
   <<"PICKED_UP", Moves("DeliveryHandedBackByRider", "PENDING")>>,
   <<"PICKED_UP", Moves("DeliveryHandedBackByRider", "FAILED")>>}
    \union {<<s, Moves("DeliveryCancelled", "CANCELLED")>> :
              s \in JobStatuses \ {"DELIVERED", "CANCELLED"}}
    \union ({"PENDING", "ASSIGNED", "PICKED_UP"}
              \X {Moves("DeliveryStatusUpdated", s) : s \in {"CANCELLED", "FAILED"}})

\* What the saga listens to.
Triggers == Advances \union {"OrderMarkedReady", "DeliveryAcceptedByPartner",
                             "DeliveryStatusUpdated", "DeliveryCompleted"}

Positions(types) == {i \in DOMAIN log : log[i].type \in types}
Recorded(t) == Positions({t}) # {}

\* delivery_job::fold after the first n facts: the recorded fact wins.
StatusAfter(n) ==
  LET moved == {i \in Positions(Moving) : i <= n}
  IN  IF moved = {} THEN "none" ELSE log[Max(moved)].to
JobStatus == StatusAfter(Len(log))

\* The fact that says who holds the job: a rider, a partner or nobody.
Custody ==
  LET taken == Positions({"DeliveryAcceptedByRider", "DeliveryAcceptedByPartner",
                          "DeliveryUnassignedFromPartner", "DeliveryHandedBackByRider"})
  IN  IF taken = {} THEN "none" ELSE log[Max(taken)].type

\* A partner can be taken off a job it holds, and off no other.
PartnerHolds == Custody = "DeliveryAcceptedByPartner"

(***************************************************************************)
(* The runs and the legs.                                                  *)
(***************************************************************************)
RunStatuses == {"none", "OFFERED", "SELF_DISPATCHED", "ACCEPTED", "FAILED", "COMPLETED"}
Row == [status : RunStatuses, rank : Nat]
NoRow == [status |-> "none", rank |-> 0]

LegSteps == {"idle", "read", "bear", "offer", "fail", "close", "upsert", "commit"}
Leg == [pos : Nat, rest : SUBSET Nat, at : LegSteps, over : Row, new : Row]
IdleLeg == [pos |-> 0, rest |-> {}, at |-> "idle", over |-> NoRow, new |-> NoRow]

DispatchTypeOK ==
  /\ plan \in Plans
  /\ log \in Seq(Fact)
  /\ order \in {"READY", "DELIVERED", "CANCELLED"}
  /\ projected \in BOOLEAN
  /\ late \subseteq Nat
  /\ checkpoint \in Nat
  /\ leg \in [Runners -> Leg]
  /\ row \in Row
  /\ sweep \in [Sweepers -> Nat]
  /\ offered \in SUBSET Nat
  /\ faults \in Nat
  /\ unheard \in BOOLEAN
  /\ behind \in BOOLEAN

DispatchInit ==
  /\ plan \in Plans
  /\ log = <<Neutrally("OrderMarkedReady", 0)>>
  /\ late = {}
  /\ order = "READY"
  /\ projected = FALSE
  /\ checkpoint = 0
  /\ leg = [r \in Runners |-> IdleLeg]
  /\ row = NoRow
  /\ sweep = [s \in Sweepers |-> 0]
  /\ offered = {}
  /\ faults = 0
  /\ unheard = FALSE
  /\ behind = FALSE

Fault == faults < MaxFaults /\ faults' = faults + 1

(***************************************************************************)
(* What riders, partners and operators record.  Loading the stream, folding *)
(* it and appending at the version loaded is one step or a conflict.       *)
(***************************************************************************)

\* Mutation: the handlers leave the state of the job to the fold.
AdmitsAny(f) == JobStatus # "none"

\* Mutation: the handlers ask for the state of the job and not for its courier.
AdmitsWhoever(f) == <<JobStatus, f>> \in Edges

\* The guard of the command handlers, and of the recorder of partner facts.
Admits(f) ==
  /\ <<JobStatus, f>> \in Edges
  /\ f.type \in {"DeliveryPickedUp", "DeliveryCompleted", "DeliveryHandedBackByRider"}
       => Custody = "DeliveryAcceptedByRider"
  /\ f.type = "DeliveryUnassignedFromPartner" => PartnerHolds

LaneTypes ==
  (Moving \ {"DeliveryRequested", "DeliveryDispatchFailed"})
    \union {"DeliveryRejectedByPartner", "DeliveryEscalationRequested"}
MayMove == Cardinality(Positions(LaneTypes)) < MaxMoves

\* Only a trigger that a leg acts on is late for anybody.
MayBeLate(f) ==
  \/ UNCHANGED <<late, faults>>
  \/ /\ f.type \in Triggers
     /\ f.type = "DeliveryStatusUpdated" => f.to = "DELIVERED"
     /\ Fault
     /\ late' = late \union {Len(log) + 1}

Record(f) ==
  /\ log' = Append(log, f)
  /\ MayBeLate(f)
  /\ UNCHANGED <<plan, order, projected, checkpoint, leg, unheard, row, sweep, behind, offered>>

\* The commands of riders and operators, the acceptance of a channel, be it one
\* the walk has left behind, and the progress partners report.
MoveJob ==
  /\ MayMove
  /\ \E f \in [type : LaneTypes \intersect Moving, to : JobStatuses] :
       /\ f.type = "DeliveryAcceptedByPartner" => offered # {}
       /\ f.type = "DeliveryStatusUpdated" => f.to \in Reports
       /\ Admits(f)
       /\ Record(f)

\* escalate_delivery: whatever the state of the job.
Escalate ==
  /\ MayMove
  /\ JobStatus # "none"
  /\ Record(Neutrally("DeliveryEscalationRequested", 0))

\* A channel declines, be it one the walk has left behind.
PartnerDeclines ==
  /\ MayMove
  /\ offered # {}
  /\ Record(Neutrally("DeliveryRejectedByPartner", 0))

\* The projector writes the OrderTracking row.
Project ==
  /\ ~projected
  /\ projected' = TRUE
  /\ UNCHANGED <<plan, log, order, row, sweep, faults, behind, offered, runnerVars>>

(***************************************************************************)
(* The timeout worker: it reads the rows, and records what it read later.  *)
(***************************************************************************)
ReadStale(s) ==
  /\ sweep[s] = 0
  /\ row.status = "OFFERED" /\ row.rank > 0
  /\ sweep' = [sweep EXCEPT ![s] = row.rank]
  /\ UNCHANGED <<plan, log, order, projected, row, faults, behind, offered, runnerVars>>

\* Mutation: one timeout for the job, whatever its rank.
UntimedAtAll(n) == ~Recorded("DeliveryOfferTimedOut")

Untimed(n) == \A i \in Positions({"DeliveryOfferTimedOut"}) : log[i].rank # n

RecordTimeout(s) ==
  LET f == Neutrally("DeliveryOfferTimedOut", sweep[s]) IN
  /\ sweep[s] # 0
  /\ IF Untimed(sweep[s])
     THEN log' = Append(log, f) /\ MayBeLate(f)
     ELSE UNCHANGED <<log, late, faults>>
  /\ sweep' = [sweep EXCEPT ![s] = 0]
  /\ UNCHANGED <<plan, order, projected, checkpoint, leg, unheard, row, behind, offered>>

(***************************************************************************)
(* The saga runner and its legs.                                           *)
(***************************************************************************)
Pending == {i \in Positions(Triggers) : i > checkpoint}

At(r, step) == leg[r].at = step
GoTo(r, step) == leg' = [leg EXCEPT ![r].at = step]
Begin(pending) == [IdleLeg EXCEPT !.pos = Min(pending), !.rest = pending \ {Min(pending)}, !.at = "read"]

\* The leg goes on to a step, with the row it will write.
Resume(r, step, new) ==
  /\ leg' = [leg EXCEPT ![r].at = step, ![r].over = row, ![r].new = new]
  /\ UNCHANGED unheard
Finish(r) == leg' = [leg EXCEPT ![r] = [IdleLeg EXCEPT !.pos = leg[r].pos, !.rest = leg[r].rest, !.at = "commit"]]
GiveUp(r) == Finish(r) /\ unheard' = TRUE

Trigger(r) == log[leg[r].pos]

Select(r) ==
  /\ At(r, "idle")
  /\ Pending # {}
  /\ leg' = [leg EXCEPT ![r] = Begin(Pending)]
  /\ UNCHANGED <<plan, log, order, projected, row, sweep, faults, behind, checkpoint, late, unheard, offered>>

\* The leg of another order takes the checkpoint past this one's oldest pending
\* trigger, which committed too late for the scan that leg came from.  What
\* committed in time is in every scan that goes beyond it.
PassOver(r) ==
  /\ At(r, "idle")
  /\ \E i \in Pending \intersect late :
       /\ \A j \in Pending : i <= j
       /\ checkpoint' = i
  /\ UNCHANGED <<plan, log, order, projected, row, sweep, faults, behind, leg, late, unheard, offered>>

OpeningRow ==
  IF plan.selfDispatched THEN [status |-> "SELF_DISPATCHED", rank |-> 0]
  ELSE [status |-> "OFFERED", rank |-> IF plan.channels > 0 THEN 1 ELSE 0]

\* An order that is not projected yet is skipped.
ReadOrder(r) ==
  /\ At(r, "read")
  /\ Trigger(r).type = "OrderMarkedReady"
  /\ IF projected THEN Resume(r, "bear", OpeningRow) ELSE GiveUp(r)
  /\ UNCHANGED <<plan, log, order, projected, row, sweep, faults, behind, checkpoint, late, offered>>

\* A decline, a timeout or an escalation, of whatever rank, moves an offered
\* run to the next channel, or ends the walk.
ReadAdvance(r) ==
  /\ At(r, "read")
  /\ Trigger(r).type \in Advances
  /\ IF row.status = "none" THEN GiveUp(r)
     ELSE IF row.status # "OFFERED" THEN Finish(r) /\ UNCHANGED unheard
     ELSE IF row.rank < plan.channels
          THEN Resume(r, "offer", [row EXCEPT !.rank = row.rank + 1])
          ELSE Resume(r, "fail", [row EXCEPT !.status = "FAILED"])
  /\ UNCHANGED <<plan, log, order, projected, row, sweep, faults, behind, checkpoint, late, offered>>

\* An acceptance takes the run over, whatever its status.
ReadAcceptance(r) ==
  /\ At(r, "read")
  /\ Trigger(r).type = "DeliveryAcceptedByPartner"
  /\ IF row.status = "none" THEN GiveUp(r) ELSE Resume(r, "upsert", [row EXCEPT !.status = "ACCEPTED"])
  /\ UNCHANGED <<plan, log, order, projected, row, sweep, faults, behind, checkpoint, late, offered>>

\* Mutation: only a run that was accepted is closed.
ClosesAccepted == row.status = "ACCEPTED"

Closes == row.status # "none"

ReadDelivery(r) ==
  /\ At(r, "read")
  /\ Trigger(r).type \in {"DeliveryStatusUpdated", "DeliveryCompleted"}
  /\ IF Trigger(r).to # "DELIVERED" THEN Finish(r) /\ UNCHANGED unheard
     ELSE IF row.status = "none" THEN GiveUp(r)
     ELSE IF Closes THEN Resume(r, "close", [row EXCEPT !.status = "COMPLETED"])
     ELSE Finish(r) /\ UNCHANGED unheard
  /\ UNCHANGED <<plan, log, order, projected, row, sweep, faults, behind, checkpoint, late, offered>>

\* The birth of the job, unless it is there.
Bear(r) ==
  /\ At(r, "bear")
  /\ log' = IF JobStatus = "none" THEN Append(log, Moves("DeliveryRequested", "PENDING")) ELSE log
  /\ GoTo(r, IF plan.channels > 0 THEN "offer" ELSE "upsert")
  /\ UNCHANGED <<plan, order, projected, row, sweep, faults, behind, checkpoint, late, unheard, offered>>

\* Mutation: the channel of the row read is offered the job again.
CallAgain(r) ==
  offered' = offered \union {IF leg[r].over.rank = 0 THEN leg[r].new.rank ELSE leg[r].over.rank}

Call(r) == offered' = offered \union {leg[r].new.rank}

Offer(r) ==
  /\ At(r, "offer")
  /\ Call(r)
  /\ GoTo(r, "upsert")
  /\ UNCHANGED <<plan, log, order, projected, row, sweep, faults, behind, checkpoint, late, unheard>>

\* An offer that failed ends the leg; one that timed out may have arrived.
OfferFails(r) ==
  /\ At(r, "offer")
  /\ Fault
  /\ Call(r) \/ UNCHANGED offered
  /\ GiveUp(r)
  /\ UNCHANGED <<plan, log, order, projected, row, sweep, behind, checkpoint, late>>

\* Mutation: the row is written before the fact.
FailDispatchUnrecorded(r) ==
  /\ At(r, "fail")
  /\ GoTo(r, "upsert")
  /\ UNCHANGED <<plan, log, order, projected, row, sweep, faults, behind, checkpoint, late, unheard, offered>>

\* The end of the walk: unless the job folds FAILED, and whoever holds it.
FailDispatch(r) ==
  /\ At(r, "fail")
  /\ log' = IF JobStatus = "FAILED" THEN log ELSE Append(log, Moves("DeliveryDispatchFailed", "FAILED"))
  /\ GoTo(r, "upsert")
  /\ UNCHANGED <<plan, order, projected, row, sweep, faults, behind, checkpoint, late, unheard, offered>>

\* mark_order_delivered: an order the restaurant cancelled meanwhile refuses,
\* and the leg goes on.
CloseOrder(r) ==
  /\ At(r, "close")
  /\ order' \in (IF order = "READY" THEN {"DELIVERED", "CANCELLED"} ELSE {order})
  /\ GoTo(r, "upsert")
  /\ UNCHANGED <<plan, log, projected, row, sweep, faults, behind, checkpoint, late, unheard, offered>>

\* A late birth leg opens the run once more.
Reopens(r) == Trigger(r).type = "OrderMarkedReady" /\ row \notin {NoRow, leg[r].new}

\* The upsert has no condition on the row it replaces.
Upsert(r) ==
  /\ At(r, "upsert")
  /\ row' = leg[r].new
  /\ behind' = (behind \/ row # leg[r].over \/ Reopens(r))
  /\ Finish(r)
  /\ UNCHANGED <<plan, log, order, projected, sweep, faults, checkpoint, late, unheard, offered>>

CommitLeg(r) ==
  /\ At(r, "commit")
  /\ checkpoint' = leg[r].pos
  /\ leg' = [leg EXCEPT ![r] = IF leg[r].rest = {} THEN IdleLeg ELSE Begin(leg[r].rest)]
  /\ UNCHANGED <<plan, log, order, projected, row, sweep, faults, behind, late, unheard, offered>>

\* The process dies, its commit fails or an append loses a race.
CrashLeg(r) ==
  /\ ~At(r, "idle")
  /\ Fault
  /\ leg' = [leg EXCEPT ![r] = IdleLeg]
  /\ UNCHANGED <<plan, log, order, projected, row, sweep, behind, checkpoint, late, unheard, offered>>

\* A statement fails: the error is surfaced and the trigger consumed.
LegError(r) ==
  /\ leg[r].at \in {"read", "bear", "fail", "close", "upsert"}
  /\ Fault
  /\ GiveUp(r)
  /\ UNCHANGED <<plan, log, order, projected, row, sweep, behind, checkpoint, late, offered>>

RunnerSteps(r) ==
  \/ Select(r) \/ ReadOrder(r) \/ ReadAdvance(r) \/ ReadAcceptance(r) \/ ReadDelivery(r)
  \/ Bear(r) \/ Offer(r) \/ FailDispatch(r) \/ CloseOrder(r) \/ Upsert(r) \/ CommitLeg(r)

\* A pass over the log is owed for a fact that moved the head of the log when it
\* committed, and not for a late one.
Owed(r) == At(r, "idle") => ~(Pending \subseteq late)

DispatchNext ==
  \/ \E r \in Runners : RunnerSteps(r) \/ PassOver(r) \/ OfferFails(r) \/ CrashLeg(r) \/ LegError(r)
  \/ \E s \in Sweepers : ReadStale(s) \/ RecordTimeout(s)
  \/ MoveJob \/ PartnerDeclines \/ Escalate \/ Project

\* The loops run for ever.  Nobody owes an answer, a command or a report, and no
\* runner owes anything to a trigger that committed late.
DispatchFairness ==
  /\ \A r \in Runners : WF_vars(Owed(r) /\ RunnerSteps(r))
  /\ \A s \in Sweepers : WF_vars(ReadStale(s) \/ RecordTimeout(s))
  /\ WF_vars(Project)

DispatchSpec == DispatchInit /\ [][DispatchNext]_vars /\ DispatchFairness

(***************************************************************************)
(* Safety.                                                                 *)
(***************************************************************************)

Legal(types) == \A i \in Positions(types) : <<StatusAfter(i - 1), log[i]>> \in Edges

\* Whatever the order in which riders, partners, operators and replayed legs
\* write, the job is born once, is held by one courier at a time and moves
\* along the declared lifecycle, as far as it is they who move it.
CouriersMoveLegally == Legal(Moving \ {"DeliveryDispatchFailed"})

\* The channels are offered the job in rank order with none left out, the row
\* never claims an offer that was not made, and the dispatch fails only when
\* every channel was offered the job, however legs crash and overlap.
WalkInOrder ==
  /\ offered = 1 .. Cardinality(offered)
  /\ row.status = "OFFERED" /\ row.rank > 0 => row.rank \in offered
  /\ Recorded("DeliveryDispatchFailed") => offered = 1 .. plan.channels

\* The row tells what happened: it is written after the fact or the call.
RunFollowsJob ==
  /\ row.status # "none" => Recorded("DeliveryRequested")
  /\ row.status = "ACCEPTED" => Recorded("DeliveryAcceptedByPartner")
  /\ row.status = "FAILED" => \E i \in Positions(Moving) : log[i].to = "FAILED"
  /\ row.status = "COMPLETED" => order # "READY"

(***************************************************************************)
(* The promise.                                                            *)
(***************************************************************************)
Been == {log[i].to : i \in Positions(Moving)}
Holder == CASE Custody = "DeliveryAcceptedByRider" -> "rider"
            [] Custody = "DeliveryAcceptedByPartner" -> "partner"
            [] OTHER -> "nobody"
Takers == (IF Recorded("DeliveryAcceptedByRider") THEN {"rider"} ELSE {})
            \union (IF Recorded("DeliveryAcceptedByPartner") THEN {"partner"} ELSE {})

Promise == INSTANCE Errand WITH
  channels <- plan.channels, job <- JobStatus, been <- Been, holder <- Holder, takers <- Takers,
  asked <- offered, order <- order, told <- row, late <- behind

\* Every statement of the legs, the sweeper, the couriers and the operators, a
\* crash and an overlap of legs included, is one step of the promise, or none:
\* no courier takes a job that another has, none gives back what is not its own,
\* and the run goes on from what it told unless a leg took it back.
KeepsErrand == Promise!ErrandSpec

(***************************************************************************)
(* Liveness.                                                               *)
(***************************************************************************)

\* A walk that offers something comes to an end without anybody's answer,
\* unless a trigger was consumed, the run was taken back, or the timeout of the
\* channel it is at committed late: it is recorded once, and may be passed over.
WalkEnds ==
  (row.status = "OFFERED" /\ row.rank > 0) ~>
    \/ row.status # "OFFERED" \/ unheard \/ behind
    \/ \E i \in late : log[i] = Neutrally("DeliveryOfferTimedOut", row.rank)

\* A delivery that was made closes the order, whoever made it, unless a trigger
\* was consumed or the word of the delivery committed late.
DeliveryClosesOrder ==
  (\E i \in DOMAIN log \ late : log[i].type \in Moving /\ log[i].to = "DELIVERED")
    ~> (order # "READY" \/ unheard)

(***************************************************************************)
(* What the documentation says and the code does not do.                   *)
(***************************************************************************)

\* delivery_job.rs: legality is enforced at append time.  The leg that ends
\* the walk does not look at who holds the job.
DeclaredTransitions == Legal(Moving)
=============================================================================
