--------------------------- MODULE Dispatch_proofs ---------------------------
(***************************************************************************)
(* Theorems about the dispatch, for any runners and sweepers, any plans,   *)
(* whatever partners report, and any number of facts and faults.           *)
(*                                                                         *)
(* What a leg will write was right when it read the row, and the walk has  *)
(* gone on since: the channels it counts on stay offered, the facts it     *)
(* reacts to stay in the log, the order it closed stays closed (LegOK).    *)
(* So whichever of the overlapping legs writes the row last, the row tells *)
(* what happened.                                                          *)
(*                                                                         *)
(* The last part shows that the dispatch implements Errand: an append is a *)
(* step of the job, a call asks the channel after the one before it, and   *)
(* a row that is written over the one its leg read goes on from it         *)
(* (ErrandInv).                                                            *)
(***************************************************************************)
EXTENDS Dispatch, Integers, WellFoundedInduction, FiniteSetTheorems, TLAPS

\* A row may be written once what it says has happened.
RowTells(x) ==
  /\ x.status = "OFFERED" => x.rank \in {0} \union offered
  /\ x.status = "ACCEPTED" => Recorded("DeliveryAcceptedByPartner")
  /\ x.status = "FAILED" => \E i \in Positions(Moving) : log[i].to = "FAILED"
  /\ x.status = "COMPLETED" => order # "READY"

\* What a leg may count on at each of its steps.
LegOK(l) ==
  /\ l.at # "idle" =>
       \A i \in {l.pos} \union l.rest : i \in DOMAIN log /\ log[i].type \in Triggers
  /\ l.at = "bear" => l.new = OpeningRow
  /\ l.at \in {"offer", "fail", "close", "upsert"} => Recorded("DeliveryRequested")
  /\ l.at = "offer" =>
       /\ l.new.status = "OFFERED"
       /\ l.new.rank \in 1 .. plan.channels
       /\ l.new.rank - 1 \in {0} \union offered
  /\ l.at = "fail" => l.new.status = "FAILED" /\ offered = 1 .. plan.channels
  /\ l.at = "close" => l.new.status = "COMPLETED"
  /\ l.at = "upsert" => RowTells(l.new)
LegInv == \A r \in Runners : LegOK(leg[r])

\* The walk went through a prefix of the channels, and nothing happened to a
\* job that was not born.
WalkInv ==
  /\ Positions(Moving) # {} => Recorded("DeliveryRequested")
  /\ \E n \in 0 .. plan.channels : offered = 1 .. n
  /\ row.status = "OFFERED" => row.rank \in {0} \union offered
  /\ Recorded("DeliveryDispatchFailed") => offered = 1 .. plan.channels

DispatchInv ==
  DispatchTypeOK /\ LegInv /\ WalkInv /\ CouriersMoveLegally /\ RunFollowsJob

-----------------------------------------------------------------------------
(***************************************************************************)
(* Least and greatest elements of sets of naturals, from the               *)
(* well-foundedness of < alone.                                            *)
(***************************************************************************)
\* A set of naturals that is not empty has a least element.
LEMMA MinExists ==
  ASSUME NEW T, T \subseteq Nat, T # {}
  PROVE  \E x \in T : \A y \in T : x <= y
<1> DEFINE R == OpToRel(<, Nat)
<1>1. IsWellFoundedOn(R, Nat)
  BY NatLessThanWellFounded
<1> HIDE DEF R
<1>2. PICK x \in T : \A y \in T : ~ (<<y, x>> \in R)
  BY <1>1, WFMin
<1>3. \A y \in T : y < x => <<y, x>> \in R
  BY DEF R, OpToRel
<1>4. \A y \in T : ~ (y < x)
  BY <1>2, <1>3
<1>5. \A y \in T : x <= y
  BY <1>4
<1> QED BY <1>5

\* If it is also bounded, it has a greatest one: the least distance from the
\* bound.
LEMMA MaxExists ==
  ASSUME NEW n \in Nat, NEW T, T \subseteq 0 .. n, T # {}
  PROVE  \E x \in T : \A y \in T : y <= x
<1> DEFINE U == {k \in 0 .. n : n - k \in T}
<1>1. PICK t \in T : TRUE
  OBVIOUS
<1>2. U \subseteq Nat /\ n - t \in U
  OBVIOUS
<1>3. PICK u \in U : \A v \in U : u <= v
  <2> HIDE DEF U
  <2> QED BY <1>2, MinExists
<1>4. \A y \in T : n - y \in U
  OBVIOUS
<1>5. \A y \in T : y <= n - u
  BY <1>3, <1>4
<1> QED BY <1>3, <1>5
-----------------------------------------------------------------------------
(***************************************************************************)
(* The log.                                                                *)
(***************************************************************************)
LogGrows == DOMAIN log \subseteq DOMAIN log' /\ \A i \in DOMAIN log : log'[i] = log[i]

LEMMA FactIs ==
  ASSUME NEW f \in Fact
  PROVE  f.type \in Neutral \union Moving /\ (f.type \in Moving => f.to \in JobStatuses)
<1>1. Neutral \intersect Moving = {}
  BY DEF Neutral, Advances, Moving
<1>2. CASE f \in [type : Neutral, rank : Nat]
  BY <1>1, <1>2
<1>3. CASE f \in [type : Moving, to : JobStatuses]
  BY <1>3
<1> QED BY <1>2, <1>3 DEF Fact

LEMMA NeutralFact ==
  ASSUME NEW t \in Neutral, NEW n \in Nat
  PROVE  Neutrally(t, n) \in Fact /\ Neutrally(t, n).type = t /\ Neutrally(t, n).type \notin Moving
  BY DEF Neutrally, Fact, Neutral, Advances, Moving

LEMMA MovingFact ==
  ASSUME NEW t \in Moving, NEW s \in JobStatuses
  PROVE  Moves(t, s) \in Fact /\ Moves(t, s).type = t /\ Moves(t, s).to = s
  BY DEF Moves, Fact

LEMMA RecordedIs ==
  ASSUME NEW t
  PROVE  Recorded(t) <=> \E i \in DOMAIN log : log[i].type = t
  BY DEF Recorded, Positions

LEMMA Appended ==
  ASSUME log \in Seq(Fact), NEW f \in Fact, log' = Append(log, f)
  PROVE  /\ log' \in Seq(Fact)
         /\ LogGrows
         /\ DOMAIN log' = DOMAIN log \union {Len(log) + 1}
         /\ Len(log) + 1 \notin DOMAIN log
         /\ log'[Len(log) + 1] = f
         /\ Len(log') = Len(log) + 1
  BY DEF LogGrows

LEMMA AppendPositions ==
  ASSUME log \in Seq(Fact), NEW f \in Fact, log' = Append(log, f), NEW types
  PROVE  Positions(types)' = Positions(types) \union (IF f.type \in types THEN {Len(log) + 1} ELSE {})
  BY Appended DEF Positions, LogGrows

LEMMA OtherPositions ==
  ASSUME log \in Seq(Fact), NEW f \in Fact, log' = Append(log, f), NEW types, f.type \notin types
  PROVE  Positions(types)' = Positions(types)
<1>1. Positions(types)' = Positions(types) \union {}
  BY AppendPositions
<1> QED BY <1>1

\* The status after the first n facts is that of the newest one that moves the
\* job, if there is one.
LEMMA StatusIs ==
  ASSUME log \in Seq(Fact), NEW n \in Nat
  PROVE  LET moved == {i \in Positions(Moving) : i <= n}
         IN  \/ moved = {} /\ StatusAfter(n) = "none"
             \/ moved # {} /\ Max(moved) \in moved /\ StatusAfter(n) = log[Max(moved)].to
<1> DEFINE moved == {i \in Positions(Moving) : i <= n}
<1>1. CASE moved = {}
  BY <1>1 DEF StatusAfter
<1>2. CASE moved # {}
  <2>1. moved \subseteq 0 .. n
    BY DEF Positions
  <2>2. Max(moved) \in moved
    <3> HIDE DEF moved
    <3>1. PICK i \in moved : \A j \in moved : j <= i
      BY <1>2, <2>1, MaxExists
    <3>2. \A j \in moved : i >= j
      BY <2>1, <3>1
    <3> QED BY <3>1, <3>2 DEF Max
  <2>3. StatusAfter(n) = log[Max(moved)].to
    BY <1>2 DEF StatusAfter
  <2> QED BY <1>2, <2>2, <2>3
<1> QED BY <1>1, <1>2

\* What is appended does not change what the status was.
LEMMA StatusStays ==
  ASSUME log \in Seq(Fact), NEW f \in Fact, log' = Append(log, f), NEW n \in Nat, n <= Len(log)
  PROVE  StatusAfter(n)' = StatusAfter(n)
<1> DEFINE moved == {i \in Positions(Moving) : i <= n}
<1>1. moved' = moved
  BY AppendPositions
<1>2. StatusAfter(n) = IF moved = {} THEN "none" ELSE log[Max(moved)].to
  BY DEF StatusAfter
<1>3. StatusAfter(n)' = IF moved' = {} THEN "none" ELSE log'[Max(moved')].to
  BY DEF StatusAfter
<1>4. moved # {} => Max(moved) \in moved
  BY StatusIs
<1>5. \A i \in moved : log'[i] = log[i]
  BY Appended DEF LogGrows, Positions
<1>6. CASE moved = {}
  BY <1>1, <1>2, <1>3, <1>6
<1>7. CASE moved # {}
  <2>1. StatusAfter(n) = log[Max(moved)].to /\ StatusAfter(n)' = log'[Max(moved)].to
    BY <1>1, <1>2, <1>3, <1>7
  <2> QED BY <1>4, <1>5, <1>7, <2>1
<1> QED BY <1>6, <1>7

LEMMA JobStatusIs ==
  ASSUME log \in Seq(Fact)
  PROVE  /\ JobStatus # "none" => Positions(Moving) # {}
         /\ JobStatus = "FAILED" => \E i \in Positions(Moving) : log[i].to = "FAILED"
<1>1. Len(log) \in Nat
  OBVIOUS
<1> QED BY <1>1, StatusIs DEF JobStatus

-----------------------------------------------------------------------------
(***************************************************************************)
(* The legs.                                                               *)
(***************************************************************************)
LEMMA Goes ==
  ASSUME leg \in [Runners -> Leg], NEW r \in Runners, NEW step \in LegSteps, GoTo(r, step)
  PROVE  /\ leg' \in [Runners -> Leg]
         /\ leg'[r].at = step /\ leg'[r].pos = leg[r].pos /\ leg'[r].rest = leg[r].rest
         /\ leg'[r].over = leg[r].over /\ leg'[r].new = leg[r].new
         /\ \A q \in Runners \ {r} : leg'[q] = leg[q]
<1>1. leg'[r] = [leg[r] EXCEPT !.at = step] /\ leg[r] \in Leg
  BY DEF GoTo
<1>2. leg'[r] \in Leg
  BY <1>1 DEF Leg
<1>3. /\ leg'[r].at = step /\ leg'[r].pos = leg[r].pos /\ leg'[r].rest = leg[r].rest
      /\ leg'[r].over = leg[r].over /\ leg'[r].new = leg[r].new
  BY <1>1 DEF Leg
<1>4. leg' \in [Runners -> Leg] /\ \A q \in Runners \ {r} : leg'[q] = leg[q]
  BY <1>2 DEF GoTo
<1> QED BY <1>3, <1>4

LEMMA Resumes ==
  ASSUME leg \in [Runners -> Leg], row \in Row, NEW r \in Runners, NEW step \in LegSteps,
         NEW new \in Row, Resume(r, step, new)
  PROVE  /\ leg' \in [Runners -> Leg]
         /\ leg'[r].at = step /\ leg'[r].pos = leg[r].pos /\ leg'[r].rest = leg[r].rest
         /\ leg'[r].new = new /\ leg'[r].over = row
         /\ \A q \in Runners \ {r} : leg'[q] = leg[q]
<1>1. leg'[r] = [leg[r] EXCEPT !.at = step, !.over = row, !.new = new] /\ leg[r] \in Leg
  BY DEF Resume
<1>2. leg'[r] \in Leg
  BY <1>1 DEF Leg
<1>3. /\ leg'[r].at = step /\ leg'[r].pos = leg[r].pos /\ leg'[r].rest = leg[r].rest
      /\ leg'[r].new = new /\ leg'[r].over = row
  BY <1>1 DEF Leg
<1>4. leg' \in [Runners -> Leg] /\ \A q \in Runners \ {r} : leg'[q] = leg[q]
  BY <1>2 DEF Resume
<1> QED BY <1>3, <1>4

LEMMA NoRowIsRow == NoRow \in Row
  BY DEF NoRow, Row, RunStatuses

LEMMA IdleLegIsLeg == IdleLeg \in Leg /\ IdleLeg.at = "idle"
  BY NoRowIsRow DEF IdleLeg, Leg, LegSteps

LEMMA Finishes ==
  ASSUME leg \in [Runners -> Leg], NEW r \in Runners, Finish(r)
  PROVE  /\ leg' \in [Runners -> Leg]
         /\ leg'[r].at = "commit" /\ leg'[r].pos = leg[r].pos /\ leg'[r].rest = leg[r].rest
         /\ \A q \in Runners \ {r} : leg'[q] = leg[q]
<1> DEFINE l == [IdleLeg EXCEPT !.pos = leg[r].pos, !.rest = leg[r].rest, !.at = "commit"]
<1>1. leg[r].pos \in Nat /\ leg[r].rest \in SUBSET Nat
  BY DEF Leg
<1>2. l \in Leg /\ l.at = "commit" /\ l.pos = leg[r].pos /\ l.rest = leg[r].rest
  BY <1>1, NoRowIsRow DEF IdleLeg, Leg, LegSteps
<1>3. leg' = [leg EXCEPT ![r] = l]
  BY DEF Finish
<1> HIDE DEF l
<1> QED BY <1>2, <1>3

LEMMA Begins ==
  ASSUME NEW T, T \subseteq Nat, T # {}
  PROVE  /\ Begin(T) \in Leg /\ Begin(T).at = "read"
         /\ Begin(T).pos \in T /\ Begin(T).rest \subseteq T
<1>1. PICK x \in T : \A y \in T : x <= y
  BY MinExists
<1>2. Min(T) \in T
  BY <1>1 DEF Min
<1> QED BY <1>2, NoRowIsRow DEF Begin, IdleLeg, Leg, LegSteps

LEMMA PendingIsInLog ==
  ASSUME DispatchTypeOK
  PROVE  /\ Pending \subseteq Nat
         /\ \A i \in Pending : i \in DOMAIN log /\ log[i].type \in Triggers
  BY DEF DispatchTypeOK, Pending, Positions

-----------------------------------------------------------------------------
(***************************************************************************)
(* Types.                                                                  *)
(***************************************************************************)
LegActions(r) ==
  \/ Select(r) \/ ReadOrder(r) \/ ReadAdvance(r) \/ ReadAcceptance(r) \/ ReadDelivery(r)
  \/ Bear(r) \/ Offer(r) \/ OfferFails(r) \/ FailDispatch(r) \/ CloseOrder(r) \/ Upsert(r)
  \/ CommitLeg(r) \/ CrashLeg(r) \/ LegError(r)
OtherActions ==
  \/ \E s \in Sweepers : ReadStale(s) \/ RecordTimeout(s)
  \/ MoveJob \/ PartnerDeclines \/ Escalate \/ Project

\* Only the types say anything of the checkpoint and of what is late.
steadyVars == <<plan, log, order, projected, row, sweep, faults, behind, leg, unheard, offered>>

LEMMA EveryStep ==
  ASSUME [DispatchNext]_vars
  PROVE  \/ \E r \in Runners : LegActions(r)
         \/ OtherActions
         \/ UNCHANGED steadyVars /\ (UNCHANGED vars \/ \E r \in Runners : PassOver(r))
<1>1. ASSUME NEW r \in Runners, PassOver(r) PROVE UNCHANGED steadyVars
  BY <1>1 DEF PassOver, steadyVars
<1>2. UNCHANGED vars => UNCHANGED steadyVars
  BY DEF vars, steadyVars, runnerVars
<1> QED BY <1>1, <1>2 DEF DispatchNext, RunnerSteps, LegActions, OtherActions

LEMMA PlanIs ==
  ASSUME DispatchTypeOK
  PROVE  plan.channels \in Nat /\ (plan.selfDispatched => plan.channels = 0)
<1>1. plan \in Plan
  BY DispatchAssumption DEF DispatchTypeOK
<1> QED BY <1>1, DispatchAssumption DEF DispatchTypeOK, Plan

LEMMA OpeningRowIs ==
  ASSUME DispatchTypeOK
  PROVE  /\ OpeningRow \in Row
         /\ OpeningRow.status \in {"SELF_DISPATCHED", "OFFERED"}
         /\ plan.channels > 0 => OpeningRow.status = "OFFERED" /\ OpeningRow.rank = 1
         /\ ~ (plan.channels > 0) => OpeningRow.rank = 0
  BY PlanIs DEF OpeningRow, Row, RunStatuses

LEMMA RowWith ==
  ASSUME row \in Row
  PROVE  /\ \A s \in RunStatuses : [row EXCEPT !.status = s] \in Row /\ [row EXCEPT !.status = s].status = s
         /\ \A n \in Nat : /\ [row EXCEPT !.rank = n] \in Row
                           /\ [row EXCEPT !.rank = n].rank = n
                           /\ [row EXCEPT !.rank = n].status = row.status
  BY DEF Row

\* What a step may append, and when.
LEMMA WhatIsAppended ==
  ASSUME DispatchTypeOK, [DispatchNext]_vars
  PROVE  \/ UNCHANGED log
         \/ \E f \in Fact :
              /\ log' = Append(log, f)
              /\ \/ f.type \notin Moving
                 \/ f.type \in Moving \ {"DeliveryDispatchFailed"} /\ <<JobStatus, f>> \in Edges
                 \/ f = Moves("DeliveryDispatchFailed", "FAILED") /\ \E r \in Runners : leg[r].at = "fail"
<1> USE DEF DispatchTypeOK
<1> DEFINE Goal ==
      \/ UNCHANGED log
      \/ \E f \in Fact :
           /\ log' = Append(log, f)
           /\ \/ f.type \notin Moving
              \/ f.type \in Moving \ {"DeliveryDispatchFailed"} /\ <<JobStatus, f>> \in Edges
              \/ f = Moves("DeliveryDispatchFailed", "FAILED") /\ \E r \in Runners : leg[r].at = "fail"
<1>1. ASSUME NEW r \in Runners, Bear(r) PROVE Goal
  <2> DEFINE born == Moves("DeliveryRequested", "PENDING")
  <2>1. born \in Fact /\ born.type = "DeliveryRequested"
    BY MovingFact DEF Moving, JobStatuses
  <2>2. "DeliveryRequested" \in Moving \ {"DeliveryDispatchFailed"} /\ <<"none", born>> \in Edges
    BY DEF Moving, Edges
  <2>3. log' = log \/ (JobStatus = "none" /\ log' = Append(log, born))
    BY <1>1 DEF Bear
  <2> HIDE DEF born
  <2> QED BY <2>1, <2>2, <2>3
<1>2. ASSUME NEW r \in Runners, FailDispatch(r) PROVE Goal
  <2>1. Moves("DeliveryDispatchFailed", "FAILED") \in Fact
    BY MovingFact DEF Moving, JobStatuses
  <2> QED BY <1>2, <2>1 DEF FailDispatch, At
<1>3. ASSUME NEW r \in Runners, LegActions(r) PROVE Goal
  <2>1. Bear(r) \/ FailDispatch(r) \/ UNCHANGED log
    BY <1>3 DEF LegActions, Select, ReadOrder, ReadAdvance, ReadAcceptance, ReadDelivery, Offer,
          OfferFails, CloseOrder, Upsert, CommitLeg, CrashLeg, LegError
  <2> QED BY <1>1, <1>2, <2>1
<1>4. ASSUME NEW s \in Sweepers, ReadStale(s) \/ RecordTimeout(s) PROVE Goal
  <2> DEFINE timedOut == Neutrally("DeliveryOfferTimedOut", sweep[s])
  <2>1. timedOut \in Fact /\ timedOut.type \notin Moving
    BY NeutralFact DEF Neutral, Advances
  <2>2. log' = log \/ log' = Append(log, timedOut)
    BY <1>4 DEF ReadStale, RecordTimeout
  <2> HIDE DEF timedOut
  <2> QED BY <2>1, <2>2
<1>5. CASE MoveJob
  <2>1. PICK f \in [type : LaneTypes \intersect Moving, to : JobStatuses] : Admits(f) /\ Record(f)
    BY <1>5 DEF MoveJob
  <2>2. LaneTypes \intersect Moving = Moving \ {"DeliveryRequested", "DeliveryDispatchFailed"}
    BY DEF LaneTypes, Moving
  <2>3. f.type \in Moving \ {"DeliveryDispatchFailed"}
    BY <2>1, <2>2
  <2>4. f \in Fact
    BY <2>1 DEF Fact
  <2> QED BY <2>1, <2>3, <2>4 DEF Admits, Record
<1>6. CASE PartnerDeclines \/ Escalate
  <2>1. PICK t \in {"DeliveryRejectedByPartner", "DeliveryEscalationRequested"} :
          log' = Append(log, Neutrally(t, 0))
    BY <1>6 DEF PartnerDeclines, Escalate, Record
  <2>2. Neutrally(t, 0) \in Fact /\ Neutrally(t, 0).type \notin Moving
    BY <2>1, NeutralFact DEF Neutral, Advances
  <2> QED BY <2>1, <2>2
<1> QED BY <1>3, <1>4, <1>5, <1>6, EveryStep DEF OtherActions, Project, steadyVars

LEMMA LogStep ==
  ASSUME DispatchTypeOK, [DispatchNext]_vars
  PROVE  log' \in Seq(Fact) /\ LogGrows
<1>1. CASE UNCHANGED log
  BY <1>1 DEF DispatchTypeOK, LogGrows
<1>2. ASSUME NEW f \in Fact, log' = Append(log, f) PROVE log' \in Seq(Fact) /\ LogGrows
  BY <1>2, Appended DEF DispatchTypeOK
<1> QED BY <1>1, <1>2, WhatIsAppended

\* The trigger a leg has read is a fact of the log.
LEMMA TriggerIs ==
  ASSUME DispatchTypeOK, LegInv, NEW r \in Runners, leg[r].at # "idle"
  PROVE  /\ leg[r].pos \in DOMAIN log /\ leg[r].rest \subseteq DOMAIN log
         /\ Trigger(r) \in Fact /\ Trigger(r).type \in Triggers
  BY DEF DispatchTypeOK, LegInv, LegOK, Trigger

LEMMA TypeStep ==
  ASSUME DispatchTypeOK, LegInv, [DispatchNext]_vars
  PROVE  DispatchTypeOK'
<1> USE DEF DispatchTypeOK, runnerVars
<1>1. log' \in Seq(Fact)
  BY LogStep
<1>2. row \in Row /\ RunStatuses = {"none", "OFFERED", "SELF_DISPATCHED", "ACCEPTED", "FAILED", "COMPLETED"}
  BY DEF RunStatuses
<1>3. ASSUME NEW r \in Runners, Finish(r) \/ GiveUp(r)
      PROVE  leg' \in [Runners -> Leg]
  BY <1>3, Finishes DEF GiveUp
<1>4. ASSUME NEW r \in Runners, LegActions(r) PROVE DispatchTypeOK'
  <2>1. leg[r] \in Leg /\ leg[r].pos \in Nat /\ leg[r].rest \subseteq Nat /\ leg[r].new \in Row
    BY DEF Leg
  <2>2. CASE Select(r)
    <3>1. Begin(Pending) \in Leg
      BY <2>2, Begins, PendingIsInLog DEF Select
    <3> QED BY <2>2, <3>1 DEF Select
  <2>3. CASE ReadOrder(r)
    <3>1. Resume(r, "bear", OpeningRow) => leg' \in [Runners -> Leg]
      BY <1>2, Resumes, OpeningRowIs DEF LegSteps
    <3>2. leg' \in [Runners -> Leg] /\ unheard' \in BOOLEAN
      BY <1>3, <2>3, <3>1 DEF ReadOrder, Resume, GiveUp
    <3> QED BY <2>3, <3>2 DEF ReadOrder
  <2>4. CASE ReadAdvance(r)
    <3>1. [row EXCEPT !.rank = row.rank + 1] \in Row /\ [row EXCEPT !.status = "FAILED"] \in Row
      BY <1>2 DEF Row
    <3>2. Resume(r, "offer", [row EXCEPT !.rank = row.rank + 1]) => leg' \in [Runners -> Leg]
      BY <1>2, <3>1, Resumes DEF LegSteps
    <3>3. Resume(r, "fail", [row EXCEPT !.status = "FAILED"]) => leg' \in [Runners -> Leg]
      BY <1>2, <3>1, Resumes DEF LegSteps
    <3>4. leg' \in [Runners -> Leg] /\ unheard' \in BOOLEAN
      BY <1>3, <2>4, <3>2, <3>3 DEF ReadAdvance, Resume, GiveUp
    <3> QED BY <2>4, <3>4 DEF ReadAdvance
  <2>5. CASE ReadAcceptance(r)
    <3>1. [row EXCEPT !.status = "ACCEPTED"] \in Row
      BY <1>2, RowWith
    <3>2. Resume(r, "upsert", [row EXCEPT !.status = "ACCEPTED"]) => leg' \in [Runners -> Leg]
      BY <1>2, <3>1, Resumes DEF LegSteps
    <3>3. leg' \in [Runners -> Leg] /\ unheard' \in BOOLEAN
      BY <1>3, <2>5, <3>2 DEF ReadAcceptance, Resume, GiveUp
    <3> QED BY <2>5, <3>3 DEF ReadAcceptance
  <2>6. CASE ReadDelivery(r)
    <3>1. [row EXCEPT !.status = "COMPLETED"] \in Row
      BY <1>2, RowWith
    <3>2. Resume(r, "close", [row EXCEPT !.status = "COMPLETED"]) => leg' \in [Runners -> Leg]
      BY <1>2, <3>1, Resumes DEF LegSteps
    <3>3. leg' \in [Runners -> Leg] /\ unheard' \in BOOLEAN
      BY <1>3, <2>6, <3>2 DEF ReadDelivery, Resume, GiveUp
    <3> QED BY <2>6, <3>3 DEF ReadDelivery
  <2>7. ASSUME NEW step \in LegSteps, GoTo(r, step) PROVE leg' \in [Runners -> Leg]
    BY <2>7, Goes
  <2>8. CASE Bear(r)
    BY <1>1, <2>7, <2>8 DEF Bear, LegSteps
  <2>9. CASE Offer(r)
    <3>1. leg[r].new.rank \in Nat
      BY <2>1 DEF Row
    <3> QED BY <2>7, <2>9, <3>1 DEF Offer, Call, LegSteps
  <2>10. CASE OfferFails(r)
    <3>1. leg[r].new.rank \in Nat
      BY <2>1 DEF Row
    <3>2. offered' = offered \/ offered' = offered \union {leg[r].new.rank}
      BY <2>10 DEF OfferFails, Call
    <3>3. offered' \in SUBSET Nat
      BY <3>1, <3>2
    <3>4. faults' \in Nat
      BY <2>10 DEF OfferFails, Fault
    <3> QED BY <1>3, <2>10, <3>3, <3>4 DEF OfferFails, GiveUp
  <2>11. CASE FailDispatch(r)
    BY <1>1, <2>7, <2>11 DEF FailDispatch, LegSteps
  <2>12. CASE CloseOrder(r)
    BY <2>7, <2>12 DEF CloseOrder, LegSteps
  <2>13. CASE Upsert(r)
    BY <1>3, <2>1, <2>13 DEF Upsert
  <2>14. CASE CommitLeg(r)
    <3>1. leg[r].rest # {} => Begin(leg[r].rest) \in Leg
      BY <2>1, Begins
    <3> QED BY <2>1, <2>14, <3>1, IdleLegIsLeg DEF CommitLeg
  <2>15. CASE CrashLeg(r)
    BY <2>15, IdleLegIsLeg DEF CrashLeg, Fault
  <2>16. CASE LegError(r)
    BY <1>3, <2>16 DEF LegError, GiveUp, Fault
  <2> QED BY <1>4, <2>2, <2>3, <2>4, <2>5, <2>6, <2>8, <2>9, <2>10, <2>11, <2>12, <2>13, <2>14,
             <2>15, <2>16 DEF LegActions
<1>5. CASE OtherActions
  <2>1. {Len(log) + 1} \subseteq Nat /\ faults + 1 \in Nat
    OBVIOUS
  <2>2. ASSUME NEW f, MayBeLate(f) PROVE late' \subseteq Nat /\ faults' \in Nat
    <3>1. late \subseteq Nat /\ faults \in Nat
      OBVIOUS
    <3> QED BY <2>1, <2>2, <3>1 DEF MayBeLate, Fault
  <2>3. ASSUME NEW s \in Sweepers, ReadStale(s) PROVE DispatchTypeOK'
    <3>1. row.rank \in Nat
      BY <1>2 DEF Row
    <3> QED BY <2>3, <3>1 DEF ReadStale
  <2>4. ASSUME NEW s \in Sweepers, RecordTimeout(s) PROVE DispatchTypeOK'
    <3>1. late' \subseteq Nat /\ faults' \in Nat
      BY <2>2, <2>4 DEF RecordTimeout
    <3> QED BY <1>1, <2>4, <3>1 DEF RecordTimeout
  <2>5. ASSUME NEW f, Record(f) PROVE DispatchTypeOK'
    BY <1>1, <2>2, <2>5 DEF Record
  <2> QED BY <1>5, <2>3, <2>4, <2>5 DEF OtherActions, MoveJob, PartnerDeclines, Escalate, Project
<1>6. CASE UNCHANGED vars
  BY <1>6 DEF vars
<1>7. ASSUME NEW r \in Runners, PassOver(r) PROVE DispatchTypeOK'
  BY <1>7, PendingIsInLog DEF PassOver
<1> QED BY <1>4, <1>5, <1>6, <1>7, EveryStep

-----------------------------------------------------------------------------
(***************************************************************************)
(* The walk goes on, and what a row may tell stays true.                   *)
(***************************************************************************)
LEMMA OfferedStep ==
  ASSUME DispatchTypeOK, LegInv, WalkInv, [DispatchNext]_vars
  PROVE  /\ plan' = plan
         /\ offered \subseteq offered'
         /\ \E n \in 0 .. plan.channels : offered' = 1 .. n
         /\ offered = 1 .. plan.channels => offered' = 1 .. plan.channels
         /\ order # "READY" => order' # "READY"
<1> USE DEF DispatchTypeOK
<1>1. PICK n \in 0 .. plan.channels : offered = 1 .. n
  BY DEF WalkInv
<1>2. plan.channels \in Nat /\ n \in Nat
  BY PlanIs
<1>3. plan' = plan /\ (order # "READY" => order' # "READY")
  <2>1. ASSUME NEW r \in Runners, LegActions(r)
        PROVE  plan' = plan /\ (order # "READY" => order' # "READY")
    BY <2>1 DEF LegActions, Select, ReadOrder, ReadAdvance, ReadAcceptance, ReadDelivery, Bear, Offer,
          OfferFails, FailDispatch, CloseOrder, Upsert, CommitLeg, CrashLeg, LegError
  <2> QED BY <2>1, EveryStep DEF OtherActions, ReadStale, RecordTimeout, MoveJob, PartnerDeclines,
               Escalate, Record, Project, steadyVars
<1>4. CASE UNCHANGED offered
  BY <1>1, <1>3, <1>4
<1>5. ASSUME NEW r \in Runners, leg[r].at = "offer", Call(r)
      PROVE  \E m \in n .. plan.channels : offered' = 1 .. m
  <2> DEFINE k == leg[r].new.rank
  <2>1. k \in 1 .. plan.channels /\ k - 1 \in {0} \union offered
    BY <1>5 DEF LegInv, LegOK
  <2>2. offered' = offered \union {k}
    BY <1>5 DEF Call
  <2> HIDE DEF k
  <2>3. k - 1 \in 0 .. n
    BY <1>1, <1>2, <2>1
  <2>4. CASE k <= n
    <3>1. offered' = 1 .. n
      BY <1>1, <1>2, <2>1, <2>2, <2>4
    <3> QED BY <1>2, <3>1
  <2>5. CASE k = n + 1
    <3>1. offered' = 1 .. n + 1
      BY <1>1, <1>2, <2>1, <2>2, <2>5
    <3> QED BY <1>2, <2>1, <2>5, <3>1
  <2> QED BY <1>2, <2>1, <2>3, <2>4, <2>5
<1>6. ASSUME NEW m \in n .. plan.channels, offered' = 1 .. m
      PROVE  /\ offered \subseteq offered'
             /\ \E n_1 \in 0 .. plan.channels : offered' = 1 .. n_1
             /\ offered = 1 .. plan.channels => offered' = 1 .. plan.channels
  <2>1. m \in 0 .. plan.channels /\ 1 .. n \subseteq 1 .. m
    BY <1>2
  <2>2. ASSUME 1 .. n = 1 .. plan.channels PROVE m = plan.channels
    <3>1. plan.channels > n => plan.channels \in 1 .. plan.channels /\ plan.channels \notin 1 .. n
      BY <1>2
    <3> QED BY <1>2, <2>2, <3>1
  <2> QED BY <1>1, <1>6, <2>1, <2>2
<1>7. ASSUME NEW r \in Runners, LegActions(r)
      PROVE  UNCHANGED offered \/ (leg[r].at = "offer" /\ Call(r))
  BY <1>7 DEF LegActions, Select, ReadOrder, ReadAdvance, ReadAcceptance, ReadDelivery, Bear, Offer,
        OfferFails, FailDispatch, CloseOrder, Upsert, CommitLeg, CrashLeg, LegError, At
<1>8. OtherActions \/ UNCHANGED steadyVars => UNCHANGED offered
  BY DEF OtherActions, ReadStale, RecordTimeout, MoveJob, PartnerDeclines, Escalate, Record, Project, steadyVars
<1> QED BY <1>3, <1>4, <1>5, <1>6, <1>7, <1>8, EveryStep

\* What a step leaves true: the facts of the log, and what they tell.
LEMMA Lasting ==
  ASSUME DispatchTypeOK, LegInv, WalkInv, [DispatchNext]_vars
  PROVE  /\ \A t : Recorded(t) => Recorded(t)'
         /\ \A x : RowTells(x) => /\ x.status = "OFFERED" => x.rank \in {0} \union offered'
                                  /\ x.status = "ACCEPTED" => Recorded("DeliveryAcceptedByPartner")'
                                  /\ x.status = "FAILED" => \E i \in Positions(Moving)' : log'[i].to = "FAILED"
                                  /\ x.status = "COMPLETED" => order' # "READY"
<1>1. LogGrows /\ offered \subseteq offered' /\ (order # "READY" => order' # "READY")
  BY LogStep, OfferedStep
<1>2. \A t : Recorded(t) => Recorded(t)'
  BY <1>1 DEF LogGrows, Recorded, Positions
<1>3. \A i \in Positions(Moving) : i \in Positions(Moving)' /\ log'[i] = log[i]
  BY <1>1 DEF LogGrows, Positions
<1> QED BY <1>1, <1>2, <1>3 DEF RowTells

\* A leg that stays where it is may still count on what it counted on.
LEMMA LegStays ==
  ASSUME DispatchTypeOK, LegInv, WalkInv, [DispatchNext]_vars, NEW q \in Runners, leg'[q] = leg[q]
  PROVE  LegOK(leg[q])'
<1> DEFINE l == leg[q]
<1>1. LegOK(l) /\ l' = l
  BY DEF LegInv
<1>2. /\ LogGrows /\ offered \subseteq offered' /\ plan' = plan
      /\ offered = 1 .. plan.channels => offered' = 1 .. plan.channels
  BY LogStep, OfferedStep
<1> HIDE DEF l
<1>3. l.at # "idle" => \A i \in {l.pos} \union l.rest : i \in DOMAIN log' /\ log'[i].type \in Triggers
  BY <1>1, <1>2 DEF LegOK, LogGrows
<1>4. OpeningRow' = OpeningRow
  BY <1>2 DEF OpeningRow
<1>5. l.at \in {"offer", "fail", "close", "upsert"} => Recorded("DeliveryRequested")'
  BY <1>1, Lasting DEF LegOK
<1>6. l.at = "upsert" => RowTells(l.new)'
  BY <1>1, Lasting DEF LegOK, RowTells
<1>7. LegOK(l)'
  BY <1>1, <1>2, <1>3, <1>4, <1>5, <1>6 DEF LegOK
<1> QED BY <1>7 DEF l

\* A leg that keeps its triggers still has them behind it.
LEMMA KeepsTriggers ==
  ASSUME DispatchTypeOK, LegInv, [DispatchNext]_vars, NEW r \in Runners, leg[r].at # "idle",
         leg'[r].pos = leg[r].pos, leg'[r].rest = leg[r].rest
  PROVE  \A i \in {leg'[r].pos} \union leg'[r].rest : i \in DOMAIN log' /\ log'[i].type \in Triggers
  BY LogStep DEF LegInv, LegOK, LogGrows

\* A leg that is idle, has just read its trigger or has only to commit counts
\* on nothing else.
LEMMA LegRests ==
  ASSUME DispatchTypeOK, [DispatchNext]_vars, NEW r \in Runners,
         leg'[r].at \in {"idle", "read", "commit"},
         leg'[r].at # "idle" =>
           \A i \in {leg'[r].pos} \union leg'[r].rest : i \in DOMAIN log /\ log[i].type \in Triggers
  PROVE  LegOK(leg[r])'
<1>1. leg'[r].at # "idle" =>
        \A i \in {leg'[r].pos} \union leg'[r].rest : i \in DOMAIN log' /\ log'[i].type \in Triggers
  BY LogStep DEF LogGrows
<1> QED BY <1>1 DEF LegOK

LEMMA LegFinishes ==
  ASSUME DispatchTypeOK, LegInv, [DispatchNext]_vars, NEW r \in Runners, leg[r].at # "idle",
         Finish(r) \/ GiveUp(r)
  PROVE  LegOK(leg[r])' /\ \A q \in Runners \ {r} : leg'[q] = leg[q]
<1>1. /\ leg'[r].at = "commit" /\ leg'[r].pos = leg[r].pos /\ leg'[r].rest = leg[r].rest
      /\ \A q \in Runners \ {r} : leg'[q] = leg[q]
  BY Finishes DEF GiveUp, DispatchTypeOK
<1>2. \A i \in {leg'[r].pos} \union leg'[r].rest : i \in DOMAIN log /\ log[i].type \in Triggers
  BY <1>1 DEF LegInv, LegOK
<1>3. LegOK(leg[r])'
  BY <1>1, <1>2, LegRests
<1> QED BY <1>1, <1>3

\* The steps that read the row: what they are about to write fits the walk.
LEMMA ReadStep ==
  ASSUME DispatchTypeOK, LegInv, WalkInv, RunFollowsJob, [DispatchNext]_vars, NEW r \in Runners,
         ReadOrder(r) \/ ReadAdvance(r) \/ ReadAcceptance(r) \/ ReadDelivery(r)
  PROVE  LegOK(leg[r])' /\ \A q \in Runners \ {r} : leg'[q] = leg[q]
<1> DEFINE Goal == LegOK(leg[r])' /\ \A q \in Runners \ {r} : leg'[q] = leg[q]
<1>1. leg \in [Runners -> Leg] /\ row \in Row /\ leg[r].at = "read"
  BY DEF DispatchTypeOK, ReadOrder, ReadAdvance, ReadAcceptance, ReadDelivery, At
<1>2. UNCHANGED <<log, plan, order, row, offered>>
  BY DEF ReadOrder, ReadAdvance, ReadAcceptance, ReadDelivery
<1>3. Finish(r) \/ GiveUp(r) => Goal
  BY <1>1, LegFinishes
<1>4. ASSUME NEW step \in LegSteps, NEW new \in Row, Resume(r, step, new)
      PROVE  /\ leg'[r].at = step /\ leg'[r].new = new
             /\ \A q \in Runners \ {r} : leg'[q] = leg[q]
             /\ \A i \in {leg'[r].pos} \union leg'[r].rest : i \in DOMAIN log' /\ log'[i].type \in Triggers
  BY <1>1, <1>4, Resumes, KeepsTriggers
<1>5. Recorded("DeliveryRequested")' <=> Recorded("DeliveryRequested")
  BY <1>2 DEF Recorded, Positions
<1>6. row.status # "none" => Recorded("DeliveryRequested")
  BY DEF RunFollowsJob
<1>7. CASE ReadOrder(r)
  <2>1. ASSUME Resume(r, "bear", OpeningRow) PROVE Goal
    <3>1. /\ leg'[r].at = "bear" /\ leg'[r].new = OpeningRow
          /\ \A q \in Runners \ {r} : leg'[q] = leg[q]
          /\ \A i \in {leg'[r].pos} \union leg'[r].rest : i \in DOMAIN log' /\ log'[i].type \in Triggers
      BY <1>4, <2>1, OpeningRowIs DEF LegSteps
    <3>2. OpeningRow' = OpeningRow
      BY <1>2 DEF OpeningRow
    <3> QED BY <3>1, <3>2 DEF LegOK
  <2> QED BY <1>3, <1>7, <2>1 DEF ReadOrder
<1>8. CASE ReadAdvance(r)
  <2>1. ASSUME row.status = "OFFERED", row.rank < plan.channels,
               Resume(r, "offer", [row EXCEPT !.rank = row.rank + 1])
        PROVE  Goal
    <3> DEFINE new == [row EXCEPT !.rank = row.rank + 1]
    <3>1. row.rank \in Nat
      BY <1>1 DEF Row
    <3>2. new \in Row /\ new.status = "OFFERED" /\ new.rank = row.rank + 1
      BY <1>1, <2>1, <3>1, RowWith
    <3> HIDE DEF new
    <3>3. /\ leg'[r].at = "offer" /\ leg'[r].new = new
          /\ \A q \in Runners \ {r} : leg'[q] = leg[q]
          /\ \A i \in {leg'[r].pos} \union leg'[r].rest : i \in DOMAIN log' /\ log'[i].type \in Triggers
      BY <1>4, <2>1, <3>2 DEF LegSteps, new
    <3>4. new.rank \in 1 .. plan.channels /\ new.rank - 1 \in {0} \union offered
      BY <2>1, <3>1, <3>2, PlanIs DEF WalkInv
    <3>5. LegOK(leg[r])'
      BY <1>2, <1>5, <1>6, <2>1, <3>2, <3>3, <3>4 DEF LegOK
    <3> QED BY <3>3, <3>5
  <2>2. ASSUME row.status = "OFFERED", ~ (row.rank < plan.channels),
               Resume(r, "fail", [row EXCEPT !.status = "FAILED"])
        PROVE  Goal
    <3> DEFINE new == [row EXCEPT !.status = "FAILED"]
    <3>1. new \in Row /\ new.status = "FAILED"
      BY <1>1, RowWith DEF RunStatuses
    <3> HIDE DEF new
    <3>2. /\ leg'[r].at = "fail" /\ leg'[r].new = new
          /\ \A q \in Runners \ {r} : leg'[q] = leg[q]
          /\ \A i \in {leg'[r].pos} \union leg'[r].rest : i \in DOMAIN log' /\ log'[i].type \in Triggers
      BY <1>4, <2>2, <3>1 DEF LegSteps, new
    <3>3. offered = 1 .. plan.channels
      <4>1. PICK n \in 0 .. plan.channels : offered = 1 .. n
        BY DEF WalkInv
      <4>2. row.rank \in Nat /\ plan.channels \in Nat /\ n \in Nat
        BY <1>1, PlanIs DEF Row
      <4>3. row.rank \in {0} \union 1 .. n
        BY <2>2, <4>1 DEF WalkInv
      <4>4. n = plan.channels
        BY <2>2, <4>2, <4>3
      <4> QED BY <4>1, <4>4
    <3>4. LegOK(leg[r])'
      BY <1>2, <1>5, <1>6, <2>2, <3>1, <3>2, <3>3 DEF LegOK
    <3> QED BY <3>2, <3>4
  <2> QED BY <1>3, <1>8, <2>1, <2>2 DEF ReadAdvance
<1>9. CASE ReadAcceptance(r)
  <2>1. ASSUME row.status # "none", Resume(r, "upsert", [row EXCEPT !.status = "ACCEPTED"])
        PROVE  Goal
    <3> DEFINE new == [row EXCEPT !.status = "ACCEPTED"]
    <3>1. new \in Row /\ new.status = "ACCEPTED"
      BY <1>1, RowWith DEF RunStatuses
    <3> HIDE DEF new
    <3>2. /\ leg'[r].at = "upsert" /\ leg'[r].new = new
          /\ \A q \in Runners \ {r} : leg'[q] = leg[q]
          /\ \A i \in {leg'[r].pos} \union leg'[r].rest : i \in DOMAIN log' /\ log'[i].type \in Triggers
      BY <1>4, <2>1, <3>1 DEF LegSteps, new
    <3>3. Recorded("DeliveryAcceptedByPartner")'
      <4>1. leg[r].pos \in DOMAIN log /\ log[leg[r].pos].type = "DeliveryAcceptedByPartner"
        BY <1>1, <1>9, TriggerIs DEF ReadAcceptance, Trigger
      <4> QED BY <4>1, RecordedIs, Lasting
    <3>4. RowTells(leg[r].new)'
      BY <3>1, <3>2, <3>3 DEF RowTells
    <3>5. LegOK(leg[r])'
      BY <1>5, <1>6, <2>1, <3>2, <3>4 DEF LegOK
    <3> QED BY <3>2, <3>5
  <2> QED BY <1>3, <1>9, <2>1 DEF ReadAcceptance
<1>10. CASE ReadDelivery(r)
  <2>1. ASSUME row.status # "none", Resume(r, "close", [row EXCEPT !.status = "COMPLETED"])
        PROVE  Goal
    <3> DEFINE new == [row EXCEPT !.status = "COMPLETED"]
    <3>1. new \in Row /\ new.status = "COMPLETED"
      BY <1>1, RowWith DEF RunStatuses
    <3> HIDE DEF new
    <3>2. /\ leg'[r].at = "close" /\ leg'[r].new = new
          /\ \A q \in Runners \ {r} : leg'[q] = leg[q]
          /\ \A i \in {leg'[r].pos} \union leg'[r].rest : i \in DOMAIN log' /\ log'[i].type \in Triggers
      BY <1>4, <2>1, <3>1 DEF LegSteps, new
    <3>3. LegOK(leg[r])'
      BY <1>5, <1>6, <2>1, <3>1, <3>2 DEF LegOK
    <3> QED BY <3>2, <3>3
  <2> QED BY <1>3, <1>10, <2>1 DEF ReadDelivery
<1> QED BY <1>7, <1>8, <1>9, <1>10

\* The steps that act on what was read.
LEMMA ActStep ==
  ASSUME DispatchTypeOK, LegInv, WalkInv, [DispatchNext]_vars, NEW r \in Runners,
         Bear(r) \/ Offer(r) \/ FailDispatch(r) \/ CloseOrder(r)
  PROVE  LegOK(leg[r])' /\ \A q \in Runners \ {r} : leg'[q] = leg[q]
<1> DEFINE Kept ==
      /\ leg'[r].new = leg[r].new
      /\ \A q \in Runners \ {r} : leg'[q] = leg[q]
      /\ \A i \in {leg'[r].pos} \union leg'[r].rest : i \in DOMAIN log' /\ log'[i].type \in Triggers
<1>1. leg \in [Runners -> Leg] /\ log \in Seq(Fact) /\ LegOK(leg[r]) /\ leg[r].at # "idle"
  BY DEF DispatchTypeOK, LegInv, Bear, Offer, FailDispatch, CloseOrder, At
<1>2. ASSUME NEW step \in LegSteps, GoTo(r, step)
      PROVE  leg'[r].at = step /\ Kept
  BY <1>1, <1>2, Goes, KeepsTriggers
<1>3. CASE Bear(r)
  <2>1. plan' = plan /\ offered' = offered /\ leg[r].new = OpeningRow
    BY <1>1, <1>3 DEF Bear, At, LegOK
  <2>2. Recorded("DeliveryRequested")'
    <3> DEFINE born == Moves("DeliveryRequested", "PENDING")
    <3>1. born \in Fact /\ born.type = "DeliveryRequested"
      BY MovingFact DEF Moving, JobStatuses
    <3>2. CASE JobStatus = "none"
      <4>1. log' = Append(log, born)
        BY <1>3, <3>2 DEF Bear
      <4> HIDE DEF born
      <4>2. Positions({"DeliveryRequested"})' # {}
        BY <1>1, <3>1, <4>1, AppendPositions
      <4> QED BY <4>2 DEF Recorded
    <3>3. CASE JobStatus # "none"
      BY <1>1, <3>3, JobStatusIs, Lasting DEF WalkInv
    <3> QED BY <3>2, <3>3
  <2>3. CASE plan.channels > 0
    <3>1. leg'[r].at = "offer" /\ Kept
      BY <1>2, <1>3, <2>3 DEF Bear, LegSteps
    <3>2. leg'[r].new.status = "OFFERED" /\ leg'[r].new.rank = 1
      BY <2>1, <2>3, <3>1, OpeningRowIs
    <3>3. 1 \in 1 .. plan.channels /\ 1 - 1 = 0
      BY <2>3, PlanIs
    <3> QED BY <2>1, <2>2, <3>1, <3>2, <3>3 DEF LegOK
  <2>4. CASE ~ (plan.channels > 0)
    <3>1. leg'[r].at = "upsert" /\ Kept
      BY <1>2, <1>3, <2>4 DEF Bear, LegSteps
    <3>2. leg'[r].new.status \in {"SELF_DISPATCHED", "OFFERED"} /\ leg'[r].new.rank = 0
      BY <2>1, <2>4, <3>1, OpeningRowIs
    <3> QED BY <2>2, <3>1, <3>2 DEF LegOK, RowTells
  <2> QED BY <2>3, <2>4
<1>4. CASE Offer(r)
  <2>1. leg'[r].at = "upsert" /\ Kept
    BY <1>2, <1>4 DEF Offer, LegSteps
  <2>2. leg[r].new.status = "OFFERED" /\ Recorded("DeliveryRequested") /\ leg[r].new.rank \in offered'
    BY <1>1, <1>4 DEF LegOK, Offer, At, Call
  <2>3. Recorded("DeliveryRequested")'
    BY <2>2, Lasting
  <2> QED BY <2>1, <2>2, <2>3 DEF LegOK, RowTells
<1>5. CASE FailDispatch(r)
  <2>1. leg'[r].at = "upsert" /\ Kept
    BY <1>2, <1>5 DEF FailDispatch, LegSteps
  <2>2. leg[r].new.status = "FAILED" /\ Recorded("DeliveryRequested")
    BY <1>1, <1>5 DEF LegOK, FailDispatch, At
  <2>3. Recorded("DeliveryRequested")'
    BY <2>2, Lasting
  <2>4. \E i \in Positions(Moving)' : log'[i].to = "FAILED"
    <3> DEFINE failed == Moves("DeliveryDispatchFailed", "FAILED")
    <3>1. failed \in Fact /\ failed.type \in Moving /\ failed.to = "FAILED"
      BY MovingFact DEF Moving, JobStatuses
    <3>2. CASE JobStatus = "FAILED"
      <4>1. log' = log /\ \E i \in Positions(Moving) : log[i].to = "FAILED"
        BY <1>1, <1>5, <3>2, JobStatusIs DEF FailDispatch
      <4> QED BY <4>1 DEF Positions
    <3>3. CASE JobStatus # "FAILED"
      <4>1. log' = Append(log, failed)
        BY <1>5, <3>3 DEF FailDispatch
      <4> HIDE DEF failed
      <4>2. Len(log) + 1 \in Positions(Moving)' /\ log'[Len(log) + 1] = failed
        BY <1>1, <3>1, <4>1, AppendPositions, Appended
      <4> QED BY <3>1, <4>2
    <3> QED BY <3>2, <3>3
  <2> QED BY <2>1, <2>2, <2>3, <2>4 DEF LegOK, RowTells
<1>6. CASE CloseOrder(r)
  <2>1. leg'[r].at = "upsert" /\ Kept
    BY <1>2, <1>6 DEF CloseOrder, LegSteps
  <2>2. leg[r].new.status = "COMPLETED" /\ Recorded("DeliveryRequested")
    BY <1>1, <1>6 DEF LegOK, CloseOrder, At
  <2>3. Recorded("DeliveryRequested")' /\ order' # "READY"
    BY <1>6, <2>2, Lasting DEF CloseOrder
  <2> QED BY <2>1, <2>2, <2>3 DEF LegOK, RowTells
<1> QED BY <1>3, <1>4, <1>5, <1>6

LEMMA LegStep ==
  ASSUME DispatchTypeOK, LegInv, WalkInv, RunFollowsJob, [DispatchNext]_vars
  PROVE  LegInv'
<1>1. leg \in [Runners -> Leg]
  BY DEF DispatchTypeOK
<1>2. CASE UNCHANGED leg
  BY <1>2, LegStays DEF LegInv
<1>3. ASSUME NEW r \in Runners, LegOK(leg[r])', \A q \in Runners \ {r} : leg'[q] = leg[q]
      PROVE  LegInv'
  BY <1>3, LegStays DEF LegInv
<1>4. ASSUME NEW r \in Runners, LegActions(r) PROVE LegInv'
  <2>1. CASE ReadOrder(r) \/ ReadAdvance(r) \/ ReadAcceptance(r) \/ ReadDelivery(r)
    BY <1>3, <2>1, ReadStep
  <2>2. CASE Bear(r) \/ Offer(r) \/ FailDispatch(r) \/ CloseOrder(r)
    BY <1>3, <2>2, ActStep
  <2>3. CASE OfferFails(r) \/ Upsert(r) \/ LegError(r)
    <3>1. leg[r].at # "idle" /\ (Finish(r) \/ GiveUp(r))
      BY <2>3 DEF OfferFails, Upsert, LegError, At
    <3> QED BY <1>3, <3>1, LegFinishes
  <2>4. ASSUME NEW l \in Leg, leg' = [leg EXCEPT ![r] = l], l.at \in {"idle", "read"},
               l.at # "idle" => \A i \in {l.pos} \union l.rest : i \in DOMAIN log /\ log[i].type \in Triggers
        PROVE  LegInv'
    <3>1. leg'[r] = l /\ \A q \in Runners \ {r} : leg'[q] = leg[q]
      BY <1>1, <2>4
    <3>2. LegOK(leg[r])'
      BY <2>4, <3>1, LegRests
    <3> QED BY <1>3, <3>1, <3>2
  <2>5. CASE Select(r)
    <3>1. leg' = [leg EXCEPT ![r] = Begin(Pending)] /\ Pending # {}
      BY <2>5 DEF Select
    <3> QED BY <2>4, <3>1, Begins, PendingIsInLog
  <2>6. CASE CommitLeg(r)
    <3>1. leg[r].at = "commit" /\ leg' = [leg EXCEPT ![r] = IF leg[r].rest = {} THEN IdleLeg ELSE Begin(leg[r].rest)]
      BY <2>6 DEF CommitLeg, At
    <3>2. leg[r].rest \subseteq Nat /\ \A i \in leg[r].rest : i \in DOMAIN log /\ log[i].type \in Triggers
      BY <1>1, <3>1 DEF LegInv, LegOK, Leg
    <3>3. CASE leg[r].rest = {}
      BY <2>4, <3>1, <3>3, IdleLegIsLeg
    <3>4. CASE leg[r].rest # {}
      <4> DEFINE l == Begin(leg[r].rest)
      <4>1. l \in Leg /\ l.at = "read" /\ l.pos \in leg[r].rest /\ l.rest \subseteq leg[r].rest
        BY <3>2, <3>4, Begins
      <4>2. leg' = [leg EXCEPT ![r] = l]
        BY <3>1, <3>4
      <4> HIDE DEF l
      <4>3. \A i \in {l.pos} \union l.rest : i \in DOMAIN log /\ log[i].type \in Triggers
        BY <3>2, <4>1
      <4> QED BY <2>4, <4>1, <4>2, <4>3
    <3> QED BY <3>3, <3>4
  <2>7. CASE CrashLeg(r)
    BY <2>4, <2>7, IdleLegIsLeg DEF CrashLeg
  <2> QED BY <1>4, <2>1, <2>2, <2>3, <2>5, <2>6, <2>7 DEF LegActions
<1>5. OtherActions \/ UNCHANGED steadyVars => UNCHANGED leg
  BY DEF OtherActions, ReadStale, RecordTimeout, MoveJob, PartnerDeclines, Escalate, Record, Project,
         steadyVars, runnerVars
<1> QED BY <1>2, <1>4, <1>5, EveryStep

-----------------------------------------------------------------------------
(***************************************************************************)
(* The row, the walk and the job.                                          *)
(***************************************************************************)
LEMMA RowMoves ==
  ASSUME [DispatchNext]_vars
  PROVE  row' = row \/ \E r \in Runners : leg[r].at = "upsert" /\ row' = leg[r].new
<1>1. ASSUME NEW r \in Runners, LegActions(r)
      PROVE  row' = row \/ (leg[r].at = "upsert" /\ row' = leg[r].new)
  BY <1>1 DEF LegActions, Select, ReadOrder, ReadAdvance, ReadAcceptance, ReadDelivery, Bear, Offer,
        OfferFails, FailDispatch, CloseOrder, Upsert, CommitLeg, CrashLeg, LegError, At
<1>2. OtherActions \/ UNCHANGED steadyVars => row' = row
  BY DEF OtherActions, ReadStale, RecordTimeout, MoveJob, PartnerDeclines, Escalate, Record, Project, steadyVars
<1> QED BY <1>1, <1>2, EveryStep

\* Whoever writes the row last, what it tells has happened.
LEMMA RowStep ==
  ASSUME DispatchTypeOK, LegInv, WalkInv, RunFollowsJob, [DispatchNext]_vars
  PROVE  /\ row'.status = "OFFERED" => row'.rank \in {0} \union offered'
         /\ RunFollowsJob'
<1>1. RowTells(row) /\ (row.status # "none" => Recorded("DeliveryRequested"))
  BY DEF WalkInv, RunFollowsJob, RowTells
<1>2. ASSUME NEW r \in Runners, leg[r].at = "upsert"
      PROVE  RowTells(leg[r].new) /\ Recorded("DeliveryRequested")
  BY <1>2 DEF LegInv, LegOK
<1>3. PICK x : row' = x /\ RowTells(x) /\ (x.status # "none" => Recorded("DeliveryRequested"))
  BY <1>1, <1>2, RowMoves
<1>4. /\ x.status # "none" => Recorded("DeliveryRequested")'
      /\ x.status = "OFFERED" => x.rank \in {0} \union offered'
      /\ x.status = "ACCEPTED" => Recorded("DeliveryAcceptedByPartner")'
      /\ x.status = "FAILED" => \E i \in Positions(Moving)' : log'[i].to = "FAILED"
      /\ x.status = "COMPLETED" => order' # "READY"
  BY <1>3, Lasting
<1> QED BY <1>3, <1>4 DEF RunFollowsJob

\* Nothing but the birth happens to a job that was not born.
LEMMA BornFirst ==
  ASSUME NEW f, <<"none", f>> \in Edges
  PROVE  f.type = "DeliveryRequested"
  BY DEF Edges, JobStatuses, Moves

LEMMA WalkStep ==
  ASSUME DispatchTypeOK, LegInv, WalkInv, RunFollowsJob, [DispatchNext]_vars
  PROVE  WalkInv'
<1> USE DEF DispatchTypeOK
<1>1. /\ plan' = plan
      /\ \E n \in 0 .. plan.channels : offered' = 1 .. n
      /\ offered = 1 .. plan.channels => offered' = 1 .. plan.channels
  BY OfferedStep
<1>2. row'.status = "OFFERED" => row'.rank \in {0} \union offered'
  BY RowStep
<1>3. Positions(Moving)' # {} => Recorded("DeliveryRequested")'
  <2>1. CASE UNCHANGED log
    BY <2>1 DEF WalkInv, Positions, Recorded
  <2>2. ASSUME NEW f \in Fact, log' = Append(log, f),
               \/ f.type \notin Moving
               \/ f.type \in Moving \ {"DeliveryDispatchFailed"} /\ <<JobStatus, f>> \in Edges
               \/ f = Moves("DeliveryDispatchFailed", "FAILED") /\ \E r \in Runners : leg[r].at = "fail"
        PROVE  Positions(Moving)' # {} => Recorded("DeliveryRequested")'
    <3>1. CASE f.type \notin Moving
      <4>1. Positions(Moving)' = Positions(Moving)
        BY <2>2, <3>1, OtherPositions
      <4> QED BY <4>1, Lasting DEF WalkInv
    <3>2. CASE <<JobStatus, f>> \in Edges /\ JobStatus = "none"
      <4>1. f.type = "DeliveryRequested"
        BY <3>2, BornFirst
      <4>2. Positions({"DeliveryRequested"})' # {}
        BY <2>2, <4>1, AppendPositions
      <4> QED BY <4>2 DEF Recorded
    <3>3. CASE JobStatus # "none"
      BY <3>3, JobStatusIs, Lasting DEF WalkInv
    <3>4. CASE \E r \in Runners : leg[r].at = "fail"
      BY <3>4, Lasting DEF LegInv, LegOK
    <3> QED BY <2>2, <3>1, <3>2, <3>3, <3>4
  <2> QED BY <2>1, <2>2, WhatIsAppended
<1>4. Recorded("DeliveryDispatchFailed")' => offered' = 1 .. plan.channels
  <2>1. CASE UNCHANGED log
    <3>1. Recorded("DeliveryDispatchFailed")' <=> Recorded("DeliveryDispatchFailed")
      BY <2>1 DEF Recorded, Positions
    <3> QED BY <1>1, <3>1 DEF WalkInv
  <2>2. ASSUME NEW f \in Fact, log' = Append(log, f), f.type # "DeliveryDispatchFailed"
        PROVE  Recorded("DeliveryDispatchFailed")' => offered' = 1 .. plan.channels
    <3>1. Positions({"DeliveryDispatchFailed"})' = Positions({"DeliveryDispatchFailed"})
      BY <2>2, OtherPositions
    <3>2. Recorded("DeliveryDispatchFailed")' <=> Recorded("DeliveryDispatchFailed")
      BY <3>1 DEF Recorded
    <3> QED BY <1>1, <3>2 DEF WalkInv
  <2>3. ASSUME NEW r \in Runners, leg[r].at = "fail" PROVE offered' = 1 .. plan.channels
    BY <1>1, <2>3 DEF LegInv, LegOK
  <2>4. "DeliveryDispatchFailed" \in Moving
    BY DEF Moving
  <2> QED BY <2>1, <2>2, <2>3, <2>4, WhatIsAppended
<1> QED BY <1>1, <1>2, <1>3, <1>4 DEF WalkInv

LEMMA MovesStep ==
  ASSUME DispatchTypeOK, CouriersMoveLegally, [DispatchNext]_vars
  PROVE  CouriersMoveLegally'
<1> USE DEF DispatchTypeOK
<1> DEFINE types == Moving \ {"DeliveryDispatchFailed"}
<1>1. CASE UNCHANGED log
  BY <1>1 DEF CouriersMoveLegally, Legal, Positions, StatusAfter
<1>2. ASSUME NEW f \in Fact, log' = Append(log, f), f.type \in types => <<JobStatus, f>> \in Edges
      PROVE  CouriersMoveLegally'
  <2>1. SUFFICES ASSUME NEW i \in Positions(types)'
                 PROVE  <<StatusAfter(i - 1)', log'[i]>> \in Edges
    BY DEF CouriersMoveLegally, Legal
  <2>2. Positions(types)' = Positions(types) \union (IF f.type \in types THEN {Len(log) + 1} ELSE {})
    BY <1>2, AppendPositions
  <2>3. CASE i \in Positions(types)
    <3>1. i - 1 \in Nat /\ i - 1 <= Len(log) /\ i \in DOMAIN log
      BY <2>3 DEF Positions
    <3>2. StatusAfter(i - 1)' = StatusAfter(i - 1) /\ log'[i] = log[i]
      BY <1>2, <3>1, StatusStays, Appended DEF LogGrows
    <3>3. <<StatusAfter(i - 1), log[i]>> \in Edges
      BY <2>3 DEF CouriersMoveLegally, Legal
    <3> QED BY <3>2, <3>3
  <2>4. CASE i = Len(log) + 1 /\ f.type \in types
    <3>1. PICK n \in Nat : n = Len(log)
      OBVIOUS
    <3>2. i - 1 = n /\ log'[i] = f
      BY <1>2, <2>4, <3>1, Appended
    <3>3. StatusAfter(n)' = StatusAfter(n)
      BY <1>2, <3>1, StatusStays
    <3>4. JobStatus = StatusAfter(n)
      BY <3>1 DEF JobStatus
    <3> QED BY <1>2, <2>4, <3>2, <3>3, <3>4
  <2> QED BY <2>2, <2>3, <2>4
<1>3. Moves("DeliveryDispatchFailed", "FAILED").type = "DeliveryDispatchFailed"
  BY DEF Moves
<1> QED BY <1>1, <1>2, <1>3, WhatIsAppended

-----------------------------------------------------------------------------
(***************************************************************************)
(* The invariant, and the theorems.                                        *)
(***************************************************************************)
LEMMA InitInv == DispatchInit => DispatchInv
<1> SUFFICES ASSUME DispatchInit PROVE DispatchInv
  OBVIOUS
<1> USE DEF DispatchInit
<1>1. /\ Neutrally("OrderMarkedReady", 0) \in Fact
      /\ Neutrally("OrderMarkedReady", 0).type \notin Moving
      /\ Neutrally("OrderMarkedReady", 0).type = "OrderMarkedReady"
  BY NeutralFact DEF Neutral
<1>2. log \in Seq(Fact) /\ log = <<Neutrally("OrderMarkedReady", 0)>>
  BY <1>1
<1>3. leg \in [Runners -> Leg] /\ \A r \in Runners : leg[r].at = "idle"
  BY IdleLegIsLeg
<1>4. DispatchTypeOK
  BY <1>2, <1>3, NoRowIsRow DEF DispatchTypeOK
<1>5. ASSUME NEW types, types \subseteq Moving PROVE Positions(types) = {}
  BY <1>1, <1>2, <1>5 DEF Positions
<1>6. LegInv
  BY <1>3 DEF LegInv, LegOK
<1>7. offered = 1 .. 0 /\ 0 \in 0 .. plan.channels
  BY <1>4, PlanIs
<1>8. row.status = "none"
  BY DEF NoRow
<1>9. ~Recorded("DeliveryDispatchFailed") /\ Positions(Moving) = {}
  BY <1>5 DEF Recorded, Moving
<1>10. WalkInv
  BY <1>7, <1>8, <1>9 DEF WalkInv
<1>11. CouriersMoveLegally
  BY <1>5 DEF CouriersMoveLegally, Legal
<1>12. RunFollowsJob
  BY <1>8 DEF RunFollowsJob
<1> QED BY <1>4, <1>6, <1>10, <1>11, <1>12 DEF DispatchInv

\* Of whatever legs are in hand, what they will write has happened, and the
\* walk went through the channels in rank order.
THEOREM DispatchInvariant == DispatchSpec => []DispatchInv
<1>1. DispatchInit => DispatchInv
  BY InitInv
<1>2. DispatchInv /\ [DispatchNext]_vars => DispatchInv'
  BY TypeStep, LegStep, WalkStep, MovesStep, RowStep DEF DispatchInv
<1> QED BY <1>1, <1>2, PTL DEF DispatchSpec

\* Every variable keeps its type: in particular a leg never begins without a
\* trigger, and no row has a status or a rank that is not one.
THEOREM DispatchTypesHold == DispatchSpec => []DispatchTypeOK
<1>1. DispatchInv => DispatchTypeOK
  BY DEF DispatchInv
<1> QED BY <1>1, DispatchInvariant, PTL

\* Whoever writes to the job's stream and in whatever order, the job is born
\* once, held by one courier at a time and moved along the declared lifecycle.
THEOREM CouriersKeepLifecycle == DispatchSpec => []CouriersMoveLegally
<1>1. DispatchInv => CouriersMoveLegally
  BY DEF DispatchInv
<1> QED BY <1>1, DispatchInvariant, PTL

\* The channels are offered the job in rank order with none left out, the row
\* claims no offer that was not made, and the dispatch fails only at the end of
\* the walk, however the legs crash and overlap and however long the walk is.
THEOREM WalkGoesInOrder == DispatchSpec => []WalkInOrder
<1>1. ASSUME DispatchInv PROVE WalkInOrder
  <2> USE <1>1 DEF DispatchInv, WalkInv
  <2>1. PICK n \in 0 .. plan.channels : offered = 1 .. n
    OBVIOUS
  <2>2. n \in Nat /\ row.rank \in Nat
    BY PlanIs DEF DispatchTypeOK, Row
  <2>3. Cardinality(1 .. n) = n
    <3>1. Cardinality(1 .. n) = IF 1 > n THEN 0 ELSE n - 1 + 1
      BY <2>2, FS_Interval
    <3> QED BY <2>2, <3>1
  <2>4. offered = 1 .. Cardinality(offered)
    BY <2>1, <2>3
  <2> QED BY <2>2, <2>4 DEF WalkInOrder
<1> QED BY <1>1, DispatchInvariant, PTL

\* What the row tells has happened, whichever of the overlapping legs wrote it
\* last.
THEOREM RunTellsJob == DispatchSpec => []RunFollowsJob
<1>1. DispatchInv => RunFollowsJob
  BY DEF DispatchInv
<1> QED BY <1>1, DispatchInvariant, PTL

-----------------------------------------------------------------------------
(***************************************************************************)
(* The promise: what it reads in the log, and how an append changes it.    *)
(***************************************************************************)
LEMMA MaxIs ==
  ASSUME NEW T, T \subseteq Nat, NEW x \in T, \A y \in T : y <= x
  PROVE  Max(T) = x
<1>1. \A y \in T : x >= y
  OBVIOUS
<1>2. \A z \in T : (\A y \in T : z >= y) => z = x
  OBVIOUS
<1>3. Max(T) = CHOOSE z \in T : \A y \in T : z >= y
  BY DEF Max
<1>4. (CHOOSE z \in T : \A y \in T : z >= y) \in T
       /\ \A y \in T : (CHOOSE z \in T : \A y_1 \in T : z >= y_1) >= y
  BY <1>1
<1> QED BY <1>2, <1>3, <1>4

\* What a kind of fact tells is what the last one told: of those appended, or
\* else of those before.
LEMMA NewestPosition ==
  ASSUME log \in Seq(Fact), NEW f \in Fact, log' = Append(log, f), NEW types
  PROVE  /\ f.type \in types =>
              Positions(types)' # {} /\ Max(Positions(types)') = Len(log) + 1
         /\ f.type \notin types => Positions(types)' = Positions(types)
         /\ Positions(types) # {} => Max(Positions(types)) \in Positions(types)
<1> DEFINE S == Positions(types)
           n == Len(log)
<1>1. n \in Nat /\ S \subseteq Nat /\ S \subseteq 0 .. n
  BY DEF Positions
<1>2. S' = S \union (IF f.type \in types THEN {n + 1} ELSE {})
  BY AppendPositions
<1>3. f.type \notin types => S' = S
  BY OtherPositions
<1>4. S # {} => Max(S) \in S
  <2> HIDE DEF S, n
  <2> SUFFICES ASSUME S # {} PROVE Max(S) \in S
    OBVIOUS
  <2>1. PICK x \in S : \A y \in S : y <= x
    BY <1>1, MaxExists
  <2>2. Max(S) = x
    BY <1>1, <2>1, MaxIs
  <2> QED BY <2>2
<1>5. ASSUME f.type \in types PROVE S' # {} /\ Max(S') = n + 1
  <2> DEFINE T == S \union {n + 1}
  <2>1. S' = T
    BY <1>2, <1>5
  <2> HIDE DEF S, n
  <2>2. T \subseteq Nat /\ n + 1 \in T /\ \A y \in T : y <= n + 1
    BY <1>1
  <2> HIDE DEF T
  <2>3. Max(T) = n + 1
    BY <2>2, MaxIs
  <2> QED BY <2>1, <2>2, <2>3
<1> QED BY <1>3, <1>4, <1>5 DEF S, n

LEMMA JobIs ==
  ASSUME log \in Seq(Fact)
  PROVE  JobStatus = IF Positions(Moving) = {} THEN "none" ELSE log[Max(Positions(Moving))].to
<1>1. {i \in Positions(Moving) : i <= Len(log)} = Positions(Moving)
  BY DEF Positions
<1> QED BY <1>1 DEF JobStatus, StatusAfter

\* A job that was born is in one of its statuses, and has been in it.
LEMMA JobIsBorn ==
  ASSUME log \in Seq(Fact)
  PROVE  /\ JobStatus = "none" <=> Positions(Moving) = {}
         /\ JobStatus # "none" => JobStatus \in JobStatuses /\ JobStatus \in Been
<1>1. CASE Positions(Moving) = {}
  BY <1>1, JobIs
<1>2. CASE Positions(Moving) # {}
  <2>1. Max(Positions(Moving)) \in Positions(Moving)
    <3>1. Positions(Moving) \subseteq 0 .. Len(log) /\ Len(log) \in Nat
      BY DEF Positions
    <3>2. PICK x \in Positions(Moving) : \A y \in Positions(Moving) : y <= x
      BY <1>2, <3>1, MaxExists
    <3>3. Positions(Moving) \subseteq Nat
      BY DEF Positions
    <3> QED BY <3>2, <3>3, MaxIs
  <2>2. PICK i \in Positions(Moving) : JobStatus = log[i].to
    BY <1>2, <2>1, JobIs
  <2>3. log[i] \in Fact /\ log[i].type \in Moving
    BY <2>2 DEF Positions
  <2>4. JobStatus \in JobStatuses
    BY <2>2, <2>3, FactIs
  <2> QED BY <1>2, <2>2, <2>4 DEF Been, JobStatuses
<1> QED BY <1>1, <1>2

\* What an append does to the job, to its past and to its courier.
LEMMA JobMoves ==
  ASSUME log \in Seq(Fact), NEW f \in Fact, log' = Append(log, f)
  PROVE  IF f.type \in Moving
         THEN JobStatus' = f.to /\ Been' = Been \union {f.to}
         ELSE JobStatus' = JobStatus /\ Been' = Been
<1>1. log' \in Seq(Fact) /\ log'[Len(log) + 1] = f /\ \A i \in Positions(Moving) : log'[i] = log[i]
  BY Appended DEF LogGrows, Positions
<1>2. JobStatus' = IF Positions(Moving)' = {} THEN "none" ELSE log'[Max(Positions(Moving)')].to
  <2>1. {i \in Positions(Moving)' : i <= Len(log')} = Positions(Moving)'
    BY <1>1 DEF Positions
  <2> QED BY <2>1 DEF JobStatus, StatusAfter
<1>3. Been' = {log'[i].to : i \in Positions(Moving)'}
  BY DEF Been
<1>4. CASE f.type \in Moving
  <2>1. JobStatus' = f.to
    BY <1>1, <1>2, <1>4, NewestPosition
  <2>2. Positions(Moving)' = Positions(Moving) \union {Len(log) + 1}
    BY <1>4, AppendPositions
  <2>3. Been' = Been \union {f.to}
    BY <1>1, <1>3, <2>2 DEF Been
  <2> QED BY <1>4, <2>1, <2>3
<1>5. CASE f.type \notin Moving
  <2>1. Positions(Moving)' = Positions(Moving)
    BY <1>5, OtherPositions
  <2>2. Positions(Moving) # {} => Max(Positions(Moving)) \in Positions(Moving)
    BY NewestPosition
  <2>3. JobStatus' = JobStatus
    BY <1>1, <1>2, <2>1, <2>2, JobIs
  <2>4. Been' = Been
    BY <1>1, <1>3, <2>1 DEF Been
  <2> QED BY <1>5, <2>3, <2>4
<1> QED BY <1>4, <1>5

Custodial == {"DeliveryAcceptedByRider", "DeliveryAcceptedByPartner",
              "DeliveryUnassignedFromPartner", "DeliveryHandedBackByRider"}

LEMMA HolderMoves ==
  ASSUME log \in Seq(Fact), NEW f \in Fact, log' = Append(log, f)
  PROVE  /\ f.type = "DeliveryAcceptedByRider" => Holder' = "rider"
         /\ f.type = "DeliveryAcceptedByPartner" => Holder' = "partner"
         /\ f.type \in {"DeliveryUnassignedFromPartner", "DeliveryHandedBackByRider"} => Holder' = "nobody"
         /\ f.type \notin Custodial => Holder' = Holder
<1> DEFINE S == Positions(Custodial)
<1>1. Custody = IF S = {} THEN "none" ELSE log[Max(S)].type
  BY DEF Custody, Custodial
<1>2. Custody' = IF S' = {} THEN "none" ELSE log'[Max(S')].type
  BY DEF Custody, Custodial
<1>3. log'[Len(log) + 1] = f /\ \A i \in S : log'[i] = log[i]
  BY Appended DEF LogGrows, Positions
<1>4. /\ f.type \in Custodial => S' # {} /\ Max(S') = Len(log) + 1
      /\ f.type \notin Custodial => S' = S
      /\ S # {} => Max(S) \in S
  BY NewestPosition
<1> HIDE DEF S
<1>5. f.type \in Custodial => Custody' = f.type
  BY <1>2, <1>3, <1>4
<1>6. f.type \notin Custodial => Custody' = Custody
  BY <1>1, <1>2, <1>3, <1>4
<1> QED BY <1>5, <1>6 DEF Holder, Custodial

LEMMA TakersMove ==
  ASSUME log \in Seq(Fact), NEW f \in Fact, log' = Append(log, f)
  PROVE  /\ f.type = "DeliveryAcceptedByRider" => Takers' = Takers \union {"rider"}
         /\ f.type = "DeliveryAcceptedByPartner" => Takers' = Takers \union {"partner"}
         /\ f.type \notin {"DeliveryAcceptedByRider", "DeliveryAcceptedByPartner"} => Takers' = Takers
<1>1. \A t : Recorded(t)' <=> Recorded(t) \/ f.type = t
  <2> SUFFICES ASSUME NEW t PROVE Recorded(t)' <=> Recorded(t) \/ f.type = t
    OBVIOUS
  <2>1. Positions({t})' = Positions({t}) \union (IF f.type \in {t} THEN {Len(log) + 1} ELSE {})
    BY AppendPositions
  <2> QED BY <2>1 DEF Recorded
<1> QED BY <1>1 DEF Takers

\* The lifecycle, as the promise speaks of it.
LEMMA EdgeIs ==
  ASSUME NEW s, NEW f, <<s, f>> \in Edges
  PROVE  \/ f.type = "DeliveryRequested" /\ s = "none" /\ f.to = "PENDING"
         \/ /\ f.type \in {"DeliveryAcceptedByRider", "DeliveryAcceptedByPartner"}
            /\ s = "PENDING" /\ f.to = "ASSIGNED"
         \/ f.type = "DeliveryUnassignedFromPartner" /\ s = "ASSIGNED" /\ f.to = "PENDING"
         \/ /\ f.type = "DeliveryHandedBackByRider"
            /\ \/ s \in {"ASSIGNED", "PICKED_UP"} /\ f.to = "PENDING"
               \/ s = "PICKED_UP" /\ f.to = "FAILED"
         \/ /\ f.type \notin Custodial \union {"DeliveryRequested"}
            /\ \/ s = "PENDING" /\ f.to = "ASSIGNED"
               \/ s = "ASSIGNED" /\ f.to = "PICKED_UP"
               \/ s = "PICKED_UP" /\ f.to = "DELIVERED"
               \/ s \in {"PENDING", "ASSIGNED", "PICKED_UP"} /\ f.to = "FAILED"
               \/ s \notin {"none", "DELIVERED", "CANCELLED"} /\ f.to = "CANCELLED"
<1>1. \A t, x : Moves(t, x).type = t /\ Moves(t, x).to = x
  BY DEF Moves
<1>2. "none" \notin JobStatuses
  BY DEF JobStatuses
<1> QED BY <1>1, <1>2 DEF Edges, Custodial

\* Of a leg, that what it will write goes on from what it read; of the job,
\* that nobody has it while it can be taken.
GoesOn(l) ==
  IF log[l.pos].type = "OrderMarkedReady" THEN l.new = OpeningRow ELSE Promise!Follows(l.over, l.new)

Busy == {"bear", "offer", "fail", "close", "upsert"}

LegGoes(l) ==
  /\ l.at = "close" => "DELIVERED" \in Been
  /\ l.at = "bear" => log[l.pos].type = "OrderMarkedReady"
  /\ l.at \in Busy => GoesOn(l)

ErrandInv ==
  /\ JobStatus = "PENDING" => Holder = "nobody"
  /\ \A r \in Runners : LegGoes(leg[r])

\* What riders, partners and operators record: the courier's own, or what the
\* guards admit of anybody.
LEMMA CourierSteps ==
  ASSUME DispatchTypeOK, MoveJob
  PROVE  \E f \in Fact :
           /\ log' = Append(log, f) /\ f.type \in Moving /\ <<JobStatus, f>> \in Edges
           /\ f.type \notin {"DeliveryRequested", "DeliveryDispatchFailed"}
           /\ f.type = "DeliveryAcceptedByPartner" => offered # {}
           /\ f.type = "DeliveryHandedBackByRider" => Holder = "rider"
           /\ f.type = "DeliveryUnassignedFromPartner" => Holder = "partner"
           /\ UNCHANGED <<plan, order, row, behind, offered, leg>>
<1>1. PICK f \in [type : LaneTypes \intersect Moving, to : JobStatuses] :
        /\ f.type = "DeliveryAcceptedByPartner" => offered # {}
        /\ Admits(f) /\ Record(f)
  BY DEF MoveJob
<1>2. LaneTypes \intersect Moving = Moving \ {"DeliveryRequested", "DeliveryDispatchFailed"}
  BY DEF LaneTypes, Moving
<1>3. f \in Fact /\ f.type \in Moving /\ f.type \notin {"DeliveryRequested", "DeliveryDispatchFailed"}
  BY <1>1, <1>2 DEF Fact
<1>4. /\ f.type = "DeliveryHandedBackByRider" => Holder = "rider"
      /\ f.type = "DeliveryUnassignedFromPartner" => Holder = "partner"
  BY <1>1 DEF Admits, PartnerHolds, Holder
<1>5. log' = Append(log, f) /\ UNCHANGED <<plan, order, row, behind, offered, leg>> /\ <<JobStatus, f>> \in Edges
  BY <1>1 DEF Record, runnerVars, Admits
<1> QED BY <1>1, <1>3, <1>4, <1>5

\* The other appends: the birth of the job, its failure at the end of the walk,
\* and facts that do not move it.
LEMMA JobSteps ==
  ASSUME DispatchInv, [DispatchNext]_vars
  PROVE  \/ UNCHANGED log
         \/ MoveJob
         \/ \E f \in Fact : log' = Append(log, f) /\ f.type \notin Moving
         \/ JobStatus = "none" /\ log' = Append(log, Moves("DeliveryRequested", "PENDING"))
         \/ /\ JobStatus \notin {"none", "FAILED"} /\ offered = 1 .. plan.channels
            /\ log' = Append(log, Moves("DeliveryDispatchFailed", "FAILED"))
<1> USE DEF DispatchInv, DispatchTypeOK
<1> DEFINE Goal ==
      \/ UNCHANGED log
      \/ MoveJob
      \/ \E f \in Fact : log' = Append(log, f) /\ f.type \notin Moving
      \/ JobStatus = "none" /\ log' = Append(log, Moves("DeliveryRequested", "PENDING"))
      \/ /\ JobStatus \notin {"none", "FAILED"} /\ offered = 1 .. plan.channels
         /\ log' = Append(log, Moves("DeliveryDispatchFailed", "FAILED"))
<1>1. ASSUME NEW r \in Runners, LegActions(r) PROVE Goal
  <2>1. CASE Bear(r)
    BY <2>1 DEF Bear
  <2>2. CASE FailDispatch(r)
    <3>1. leg[r].at = "fail" /\ (log' = log \/ (JobStatus # "FAILED" /\ log' = Append(log, Moves("DeliveryDispatchFailed", "FAILED"))))
      BY <2>2 DEF FailDispatch, At
    <3>2. Recorded("DeliveryRequested") /\ offered = 1 .. plan.channels
      BY <3>1 DEF LegInv, LegOK
    <3>3. JobStatus # "none"
      BY <3>2, JobIsBorn DEF Recorded, Positions, Moving
    <3> QED BY <3>1, <3>2, <3>3
  <2>3. Bear(r) \/ FailDispatch(r) \/ UNCHANGED log
    BY <1>1 DEF LegActions, Select, ReadOrder, ReadAdvance, ReadAcceptance, ReadDelivery, Offer,
          OfferFails, CloseOrder, Upsert, CommitLeg, CrashLeg, LegError
  <2> QED BY <2>1, <2>2, <2>3
<1>2. ASSUME NEW s \in Sweepers, ReadStale(s) \/ RecordTimeout(s) PROVE Goal
  <2> DEFINE timedOut == Neutrally("DeliveryOfferTimedOut", sweep[s])
  <2>1. timedOut \in Fact /\ timedOut.type \notin Moving
    BY NeutralFact DEF Neutral, Advances
  <2>2. log' = log \/ log' = Append(log, timedOut)
    BY <1>2 DEF ReadStale, RecordTimeout
  <2> HIDE DEF timedOut
  <2> QED BY <2>1, <2>2
<1>3. CASE PartnerDeclines \/ Escalate
  <2>1. PICK t \in {"DeliveryRejectedByPartner", "DeliveryEscalationRequested"} :
          log' = Append(log, Neutrally(t, 0))
    BY <1>3 DEF PartnerDeclines, Escalate, Record
  <2>2. Neutrally(t, 0) \in Fact /\ Neutrally(t, 0).type \notin Moving
    BY <2>1, NeutralFact DEF Neutral, Advances
  <2> QED BY <2>1, <2>2
<1> QED BY <1>1, <1>2, <1>3, EveryStep DEF OtherActions, Project, steadyVars

LEMMA ErrandInitially == DispatchInit => ErrandInv
<1> SUFFICES ASSUME DispatchInit PROVE ErrandInv
  OBVIOUS
<1>1. log \in Seq(Fact)
  BY InitInv DEF DispatchInv, DispatchTypeOK
<1>2. Neutrally("OrderMarkedReady", 0).type \notin Moving
  BY NeutralFact DEF Neutral
<1>3. Positions(Moving) = {}
  BY <1>2 DEF Positions, DispatchInit
<1>4. JobStatus = "none"
  BY <1>1, <1>3, JobIs
<1>5. \A r \in Runners : leg[r].at = "idle"
  BY IdleLegIsLeg DEF DispatchInit
<1> QED BY <1>4, <1>5 DEF ErrandInv, LegGoes, Busy

\* The job that can be taken was given back, or was just born.
LEMMA NobodyHasIt ==
  ASSUME DispatchInv, ErrandInv, [DispatchNext]_vars
  PROVE  JobStatus' = "PENDING" => Holder' = "nobody"
<1>1. DispatchTypeOK /\ log \in Seq(Fact) /\ (JobStatus = "PENDING" => Holder = "nobody")
  BY DEF DispatchInv, DispatchTypeOK, ErrandInv
<1>2. CASE UNCHANGED log
  BY <1>1, <1>2 DEF JobStatus, StatusAfter, Positions, Holder, Custody
<1>3. ASSUME NEW f \in Fact, log' = Append(log, f), f.type \notin Moving
      PROVE  JobStatus' = "PENDING" => Holder' = "nobody"
  <2>1. f.type \notin Custodial
    BY <1>3 DEF Custodial, Moving
  <2> QED BY <1>1, <1>3, <2>1, JobMoves, HolderMoves
<1>4. CASE JobStatus = "none" /\ log' = Append(log, Moves("DeliveryRequested", "PENDING"))
  <2>1. /\ Moves("DeliveryRequested", "PENDING") \in Fact
        /\ Moves("DeliveryRequested", "PENDING").type \notin Custodial
    BY MovingFact DEF Moving, JobStatuses, Custodial
  <2>2. Positions(Moving) = {}
    BY <1>1, <1>4, JobIsBorn
  <2>3. Positions(Custodial) = {}
    BY <2>2 DEF Positions, Custodial, Moving
  <2>4. Holder = "nobody"
    BY <2>3 DEF Holder, Custody, Custodial
  <2> QED BY <1>1, <1>4, <2>1, <2>4, HolderMoves
<1>5. CASE log' = Append(log, Moves("DeliveryDispatchFailed", "FAILED"))
  <2>1. /\ Moves("DeliveryDispatchFailed", "FAILED") \in Fact
        /\ Moves("DeliveryDispatchFailed", "FAILED").type \in Moving
        /\ Moves("DeliveryDispatchFailed", "FAILED").to = "FAILED"
    BY MovingFact DEF Moving, JobStatuses
  <2> QED BY <1>1, <1>5, <2>1, JobMoves
<1>6. CASE MoveJob
  <2>1. PICK f \in Fact : /\ log' = Append(log, f) /\ f.type \in Moving /\ <<JobStatus, f>> \in Edges
                          /\ f.type # "DeliveryRequested"
    BY <1>1, <1>6, CourierSteps
  <2>2. JobStatus' = f.to
    BY <1>1, <2>1, JobMoves
  <2>3. f.to = "PENDING" => f.type \in {"DeliveryUnassignedFromPartner", "DeliveryHandedBackByRider"}
    BY <2>1, EdgeIs
  <2> QED BY <1>1, <2>1, <2>2, <2>3, HolderMoves
<1> QED BY <1>2, <1>3, <1>4, <1>5, <1>6, JobSteps

\* What goes on from the row read, or opens the run, still does later.
LEMMA StillGoesOn ==
  ASSUME DispatchInv, [DispatchNext]_vars, NEW r \in Runners, leg[r].at \in Busy, GoesOn(leg[r]),
         leg'[r].pos = leg[r].pos, leg'[r].over = leg[r].over, leg'[r].new = leg[r].new
  PROVE  GoesOn(leg[r])'
<1>1. leg[r].pos \in DOMAIN log
  BY TriggerIs DEF DispatchInv, Busy
<1>2. log'[leg'[r].pos] = log[leg[r].pos]
  BY <1>1, LogStep DEF DispatchInv, LogGrows
<1>3. plan' = plan /\ (offered = 1 .. plan.channels => offered' = 1 .. plan.channels)
  BY OfferedStep DEF DispatchInv
<1>4. CASE log[leg[r].pos].type = "OrderMarkedReady"
  BY <1>2, <1>3, <1>4 DEF GoesOn, OpeningRow
<1>5. CASE log[leg[r].pos].type # "OrderMarkedReady"
  <2>1. Promise!Follows(leg[r].over, leg[r].new)
    BY <1>5 DEF GoesOn
  <2>2. Promise!Follows(leg[r].over, leg[r].new)'
    BY <1>3, <2>1 DEF Promise!Follows
  <2> QED BY <1>2, <1>5, <2>2 DEF GoesOn
<1> QED BY <1>4, <1>5

LEMMA BeenGrows ==
  ASSUME DispatchTypeOK, [DispatchNext]_vars
  PROVE  Been \subseteq Been'
<1>1. LogGrows
  BY LogStep
<1>2. \A i \in Positions(Moving) : i \in Positions(Moving)' /\ log'[i] = log[i]
  BY <1>1 DEF LogGrows, Positions
<1> QED BY <1>2 DEF Been

LEMMA StaysGoing ==
  ASSUME DispatchInv, [DispatchNext]_vars, NEW q \in Runners, LegGoes(leg[q]), leg'[q] = leg[q]
  PROVE  LegGoes(leg[q])'
<1>1. leg[q].at = "close" => "DELIVERED" \in Been'
  BY BeenGrows DEF LegGoes, DispatchInv
<1>2. leg[q].at = "bear" => log'[leg[q].pos].type = "OrderMarkedReady"
  BY TriggerIs, LogStep DEF LegGoes, DispatchInv, LogGrows
<1>3. leg[q].at \in Busy => GoesOn(leg[q])'
  BY StillGoesOn DEF LegGoes
<1> QED BY <1>1, <1>2, <1>3 DEF LegGoes

\* What a leg will write goes on from the row it reads now.
LEMMA ReadGoesOn ==
  ASSUME DispatchInv, DispatchInv', [DispatchNext]_vars, NEW r \in Runners,
         ReadOrder(r) \/ ReadAdvance(r) \/ ReadAcceptance(r) \/ ReadDelivery(r)
  PROVE  LegGoes(leg[r])'
<1>1. leg \in [Runners -> Leg] /\ row \in Row /\ leg[r].at = "read"
  BY DEF DispatchInv, DispatchTypeOK, ReadOrder, ReadAdvance, ReadAcceptance, ReadDelivery, At
<1>2. UNCHANGED <<log, plan, row, offered>>
  BY DEF ReadOrder, ReadAdvance, ReadAcceptance, ReadDelivery
<1>3. Finish(r) \/ GiveUp(r) => LegGoes(leg[r])'
  BY <1>1, Finishes DEF GiveUp, LegGoes, Busy
<1>4. ASSUME NEW step \in LegSteps, NEW new \in Row, Resume(r, step, new)
      PROVE  /\ leg'[r].at = step /\ leg'[r].new = new /\ leg'[r].over = row /\ leg'[r].pos = leg[r].pos
             /\ log'[leg'[r].pos] = Trigger(r)
  BY <1>1, <1>2, <1>4, Resumes DEF Trigger
<1>5. LegOK(leg[r])'
  BY DEF DispatchInv, LegInv
<1>6. CASE ReadOrder(r)
  <2>1. ASSUME Resume(r, "bear", OpeningRow) PROVE LegGoes(leg[r])'
    <3>1. /\ leg'[r].at = "bear" /\ leg'[r].new = OpeningRow
          /\ log'[leg'[r].pos].type = "OrderMarkedReady"
      BY <1>4, <1>6, <2>1, OpeningRowIs DEF DispatchInv, LegSteps, ReadOrder
    <3>2. OpeningRow' = OpeningRow
      BY <1>2 DEF OpeningRow
    <3> QED BY <3>1, <3>2 DEF LegGoes, GoesOn
  <2> QED BY <1>3, <1>6, <2>1 DEF ReadOrder
<1>7. ASSUME NEW step \in {"offer", "fail", "close", "upsert"}, NEW new \in Row, Resume(r, step, new),
             Trigger(r).type # "OrderMarkedReady", step = "close" => "DELIVERED" \in Been,
             Promise!Follows(row, new)
      PROVE  LegGoes(leg[r])'
  <2>1. /\ leg'[r].at = step /\ leg'[r].new = new /\ leg'[r].over = row
        /\ log'[leg'[r].pos].type # "OrderMarkedReady"
    BY <1>4, <1>7 DEF LegSteps
  <2>2. Promise!Follows(leg[r].over, leg[r].new)'
    BY <1>2, <1>7, <2>1 DEF Promise!Follows
  <2>3. step = "close" => "DELIVERED" \in Been'
    BY <1>7, BeenGrows DEF DispatchInv
  <2> QED BY <1>7, <2>1, <2>2, <2>3 DEF LegGoes, GoesOn
<1>8. CASE ReadAdvance(r)
  <2>1. Trigger(r).type # "OrderMarkedReady"
    BY <1>8 DEF ReadAdvance, Advances
  <2>2. ASSUME row.status = "OFFERED", Resume(r, "offer", [row EXCEPT !.rank = row.rank + 1])
        PROVE  LegGoes(leg[r])'
    <3> DEFINE new == [row EXCEPT !.rank = row.rank + 1]
    <3>1. row.rank + 1 \in Nat
      BY <1>1 DEF Row
    <3>2. new \in Row /\ new.status = row.status /\ new.rank = row.rank + 1
      BY <1>1, <3>1, RowWith
    <3> HIDE DEF new
    <3>3. Promise!Follows(row, new)
      BY <2>2, <3>2 DEF Promise!Follows
    <3> QED BY <1>7, <2>1, <2>2, <3>2, <3>3 DEF new
  <2>3. ASSUME row.status = "OFFERED", Resume(r, "fail", [row EXCEPT !.status = "FAILED"])
        PROVE  LegGoes(leg[r])'
    <3> DEFINE new == [row EXCEPT !.status = "FAILED"]
    <3>1. new \in Row /\ new.status = "FAILED"
      BY <1>1, RowWith DEF RunStatuses
    <3> HIDE DEF new
    <3>2. leg'[r].at = "fail"
      BY <1>4, <2>3, <3>1 DEF LegSteps, new
    <3>3. offered = 1 .. plan.channels
      BY <1>2, <1>5, <3>2 DEF LegOK
    <3>4. Promise!Follows(row, new)
      BY <2>3, <3>1, <3>3 DEF Promise!Follows
    <3> QED BY <1>7, <2>1, <2>3, <3>1, <3>4 DEF new
  <2> QED BY <1>3, <1>8, <2>2, <2>3 DEF ReadAdvance
<1>9. CASE ReadAcceptance(r)
  <2>1. ASSUME row.status # "none", Resume(r, "upsert", [row EXCEPT !.status = "ACCEPTED"])
        PROVE  LegGoes(leg[r])'
    <3> DEFINE new == [row EXCEPT !.status = "ACCEPTED"]
    <3>1. new \in Row /\ new.status = "ACCEPTED"
      BY <1>1, RowWith DEF RunStatuses
    <3> HIDE DEF new
    <3>2. Promise!Follows(row, new)
      BY <2>1, <3>1 DEF Promise!Follows
    <3>3. Trigger(r).type # "OrderMarkedReady"
      BY <1>9 DEF ReadAcceptance
    <3> QED BY <1>7, <2>1, <3>1, <3>2, <3>3 DEF new
  <2> QED BY <1>3, <1>9, <2>1 DEF ReadAcceptance
<1>10. CASE ReadDelivery(r)
  <2>1. ASSUME row.status # "none", Trigger(r).to = "DELIVERED",
               Resume(r, "close", [row EXCEPT !.status = "COMPLETED"])
        PROVE  LegGoes(leg[r])'
    <3> DEFINE new == [row EXCEPT !.status = "COMPLETED"]
    <3>1. new \in Row /\ new.status = "COMPLETED"
      BY <1>1, RowWith DEF RunStatuses
    <3> HIDE DEF new
    <3>2. Promise!Follows(row, new)
      BY <2>1, <3>1 DEF Promise!Follows
    <3>3. Trigger(r).type \in {"DeliveryStatusUpdated", "DeliveryCompleted"}
      BY <1>10 DEF ReadDelivery
    <3>4. leg[r].pos \in Positions(Moving)
      BY <1>1, <3>3, TriggerIs DEF DispatchInv, Positions, Moving, Trigger
    <3>5. "DELIVERED" \in Been
      BY <2>1, <3>4 DEF Been, Trigger
    <3> QED BY <1>7, <2>1, <3>1, <3>2, <3>3, <3>5 DEF new
  <2> QED BY <1>3, <1>10, <2>1 DEF ReadDelivery
<1> QED BY <1>6, <1>8, <1>9, <1>10

LEMMA ErrandStep ==
  ASSUME DispatchInv, DispatchInv', ErrandInv, [DispatchNext]_vars
  PROVE  ErrandInv'
<1>1. leg \in [Runners -> Leg] /\ \A q \in Runners : LegGoes(leg[q])
  BY DEF DispatchInv, DispatchTypeOK, ErrandInv
<1>2. ASSUME NEW r \in Runners, LegGoes(leg[r])', \A q \in Runners \ {r} : leg'[q] = leg[q]
      PROVE  \A q \in Runners : LegGoes(leg[q])'
  BY <1>1, <1>2, StaysGoing
<1>3. ASSUME NEW r \in Runners, LegActions(r) PROVE \A q \in Runners : LegGoes(leg[q])'
  <2>1. CASE ReadOrder(r) \/ ReadAdvance(r) \/ ReadAcceptance(r) \/ ReadDelivery(r)
    <3>1. \A q \in Runners \ {r} : leg'[q] = leg[q]
      BY <2>1, ReadStep DEF DispatchInv
    <3> QED BY <1>2, <2>1, <3>1, ReadGoesOn
  <2>2. CASE Bear(r) \/ Offer(r) \/ FailDispatch(r) \/ CloseOrder(r)
    <3>1. leg[r].at \in Busy
      BY <2>2 DEF Bear, Offer, FailDispatch, CloseOrder, At, Busy
    <3>2. PICK step \in {"offer", "upsert"} : GoTo(r, step)
      BY <2>2 DEF Bear, Offer, FailDispatch, CloseOrder
    <3>3. /\ leg'[r].at \in {"offer", "upsert"} /\ leg'[r].pos = leg[r].pos
          /\ leg'[r].over = leg[r].over /\ leg'[r].new = leg[r].new
          /\ \A q \in Runners \ {r} : leg'[q] = leg[q]
      BY <1>1, <3>2, Goes DEF LegSteps
    <3>4. GoesOn(leg[r])'
      BY <1>1, <3>1, <3>3, StillGoesOn DEF LegGoes
    <3>5. LegGoes(leg[r])'
      BY <3>3, <3>4 DEF LegGoes
    <3> QED BY <1>2, <3>3, <3>5
  <2>3. CASE OfferFails(r) \/ Upsert(r) \/ LegError(r)
    <3>1. Finish(r) \/ GiveUp(r)
      BY <2>3 DEF OfferFails, Upsert, LegError
    <3>2. leg'[r].at = "commit" /\ \A q \in Runners \ {r} : leg'[q] = leg[q]
      BY <1>1, <3>1, Finishes DEF GiveUp
    <3>3. LegGoes(leg[r])'
      BY <3>2 DEF LegGoes, Busy
    <3> QED BY <1>2, <3>2, <3>3
  <2>4. ASSUME NEW l \in Leg, leg' = [leg EXCEPT ![r] = l], l.at \in {"idle", "read"}
        PROVE  \A q \in Runners : LegGoes(leg[q])'
    <3>1. leg'[r] = l /\ \A q \in Runners \ {r} : leg'[q] = leg[q]
      BY <1>1, <2>4
    <3>2. LegGoes(leg[r])'
      BY <2>4, <3>1 DEF LegGoes, Busy
    <3> QED BY <1>2, <3>1, <3>2
  <2>5. CASE Select(r) \/ CommitLeg(r) \/ CrashLeg(r)
    <3>1. leg[r].rest \subseteq Nat
      BY <1>1 DEF Leg
    <3>2. Pending = {} \/ (Begin(Pending) \in Leg /\ Begin(Pending).at = "read")
      BY Begins, PendingIsInLog DEF DispatchInv
    <3>3. leg[r].rest = {} \/ (Begin(leg[r].rest) \in Leg /\ Begin(leg[r].rest).at = "read")
      BY <3>1, Begins
    <3> QED BY <2>4, <2>5, <3>2, <3>3, IdleLegIsLeg DEF Select, CommitLeg, CrashLeg
  <2> QED BY <1>3, <2>1, <2>2, <2>3, <2>5 DEF LegActions
<1>4. ASSUME UNCHANGED leg PROVE \A q \in Runners : LegGoes(leg[q])'
  BY <1>1, <1>4, StaysGoing
<1>5. OtherActions \/ UNCHANGED steadyVars => UNCHANGED leg
  BY DEF OtherActions, ReadStale, RecordTimeout, MoveJob, PartnerDeclines, Escalate, Record, Project,
         steadyVars, runnerVars
<1>6. \A q \in Runners : LegGoes(leg[q])'
  BY <1>3, <1>4, <1>5, EveryStep
<1>7. JobStatus' = "PENDING" => Holder' = "nobody"
  BY NobodyHasIt
<1> QED BY <1>6, <1>7 DEF ErrandInv

-----------------------------------------------------------------------------
(***************************************************************************)
(* The dispatch implements Errand.                                         *)
(***************************************************************************)
LEMMA JobWasBorn ==
  ASSUME DispatchTypeOK, Recorded("DeliveryRequested")
  PROVE  JobStatus # "none"
<1>1. Positions(Moving) # {}
  BY DEF Recorded, Positions, Moving
<1> QED BY <1>1, JobIsBorn DEF DispatchTypeOK

LEMMA JobStays ==
  ASSUME UNCHANGED log
  PROVE  UNCHANGED <<JobStatus, Been, Holder, Takers>>
<1>1. \A types : Positions(types)' = Positions(types)
  BY DEF Positions
<1> QED BY <1>1 DEF JobStatus, StatusAfter, Been, Holder, Custody, Takers, Recorded, Positions

\* An append is a step of the job, whoever makes it.
LEMMA AppendRefines ==
  ASSUME DispatchInv, ErrandInv, [DispatchNext]_vars,
         UNCHANGED <<plan, order, row, behind, offered>>
  PROVE  [Promise!ErrandNext]_(Promise!errandVars)
<1>1. /\ DispatchTypeOK /\ log \in Seq(Fact) /\ UNCHANGED <<plan.channels, offered, order, row, behind>>
      /\ JobStatus = "PENDING" => Holder = "nobody"
  BY DEF DispatchInv, DispatchTypeOK, ErrandInv
<1>2. CASE UNCHANGED log
  BY <1>1, <1>2, JobStays DEF Promise!errandVars
<1>3. ASSUME NEW f \in Fact, log' = Append(log, f), f.type \notin Moving
      PROVE  [Promise!ErrandNext]_(Promise!errandVars)
  <2>1. f.type \notin Custodial /\ f.type \notin {"DeliveryAcceptedByRider", "DeliveryAcceptedByPartner"}
    BY <1>3 DEF Custodial, Moving
  <2>2. UNCHANGED <<JobStatus, Been, Holder, Takers>>
    BY <1>1, <1>3, <2>1, JobMoves, HolderMoves, TakersMove
  <2> QED BY <1>1, <2>2 DEF Promise!errandVars
<1>4. CASE JobStatus = "none" /\ log' = Append(log, Moves("DeliveryRequested", "PENDING"))
  <2> DEFINE f == Moves("DeliveryRequested", "PENDING")
  <2>1. /\ f \in Fact /\ f.type = "DeliveryRequested" /\ f.to = "PENDING"
        /\ f.type \in Moving /\ f.type \notin Custodial
    BY MovingFact DEF Moving, JobStatuses, Custodial
  <2>2. log' = Append(log, f)
    BY <1>4
  <2> HIDE DEF f
  <2>3. /\ JobStatus' = "PENDING" /\ Been' = Been \union {"PENDING"}
        /\ Holder' = Holder /\ Takers' = Takers
    BY <1>1, <2>1, <2>2, JobMoves, HolderMoves, TakersMove
  <2>4. Promise!Request
    BY <1>1, <1>4, <2>3 DEF Promise!Request, Promise!MoveTo, Promise!runVars
  <2> QED BY <2>4 DEF Promise!ErrandNext
<1>5. CASE /\ JobStatus \notin {"none", "FAILED"} /\ offered = 1 .. plan.channels
           /\ log' = Append(log, Moves("DeliveryDispatchFailed", "FAILED"))
  <2> DEFINE f == Moves("DeliveryDispatchFailed", "FAILED")
  <2>1. /\ f \in Fact /\ f.type = "DeliveryDispatchFailed" /\ f.to = "FAILED"
        /\ f.type \in Moving /\ f.type \notin Custodial
    BY MovingFact DEF Moving, JobStatuses, Custodial
  <2>2. log' = Append(log, f)
    BY <1>5
  <2> HIDE DEF f
  <2>3. /\ JobStatus' = "FAILED" /\ Been' = Been \union {"FAILED"}
        /\ Holder' = Holder /\ Takers' = Takers
    BY <1>1, <2>1, <2>2, JobMoves, HolderMoves, TakersMove
  <2>4. Promise!Exhaust
    BY <1>1, <1>5, <2>3 DEF Promise!Exhaust, Promise!MoveTo, Promise!runVars
  <2> QED BY <2>4 DEF Promise!ErrandNext
<1>6. CASE MoveJob
  <2>1. PICK f \in Fact :
          /\ log' = Append(log, f) /\ f.type \in Moving /\ <<JobStatus, f>> \in Edges
          /\ f.type \notin {"DeliveryRequested", "DeliveryDispatchFailed"}
          /\ f.type = "DeliveryAcceptedByPartner" => offered # {}
          /\ f.type = "DeliveryHandedBackByRider" => Holder = "rider"
          /\ f.type = "DeliveryUnassignedFromPartner" => Holder = "partner"
    BY <1>1, <1>6, CourierSteps
  <2>2. JobStatus' = f.to /\ Been' = Been \union {f.to}
    BY <1>1, <2>1, JobMoves
  <2>3. UNCHANGED Promise!runVars
    BY <1>1 DEF Promise!runVars
  <2>4. ASSUME NEW w \in {"rider", "partner"}, w = "partner" => offered # {},
               JobStatus = "PENDING", f.to = "ASSIGNED", Holder' = w, Takers' = Takers \union {w}
        PROVE  [Promise!ErrandNext]_(Promise!errandVars)
    <3>1. Promise!Take(w)
      BY <1>1, <2>2, <2>3, <2>4 DEF Promise!Take, Promise!MoveTo
    <3> QED BY <3>1 DEF Promise!ErrandNext
  <2>5. CASE f.type \in {"DeliveryAcceptedByRider", "DeliveryAcceptedByPartner"}
    <3>1. JobStatus = "PENDING" /\ f.to = "ASSIGNED"
      <4>1. f.type \in Custodial
        BY <2>5 DEF Custodial
      <4> QED BY <2>1, <2>5, <4>1, EdgeIs
    <3>2. CASE f.type = "DeliveryAcceptedByRider"
      <4>1. Holder' = "rider" /\ Takers' = Takers \union {"rider"}
        BY <1>1, <2>1, <3>2, HolderMoves, TakersMove
      <4> QED BY <2>4, <3>1, <4>1
    <3>3. CASE f.type = "DeliveryAcceptedByPartner"
      <4>1. Holder' = "partner" /\ Takers' = Takers \union {"partner"}
        BY <1>1, <2>1, <3>3, HolderMoves, TakersMove
      <4> QED BY <2>1, <2>4, <3>1, <3>3, <4>1
    <3> QED BY <2>5, <3>2, <3>3
  <2>6. CASE f.type \in {"DeliveryUnassignedFromPartner", "DeliveryHandedBackByRider"}
    <3>1. Holder' = "nobody" /\ Takers' = Takers
      BY <1>1, <2>1, <2>6, HolderMoves, TakersMove
    <3>2. \/ Holder = "partner" /\ JobStatus = "ASSIGNED" /\ f.to = "PENDING"
          \/ Holder = "rider" /\ JobStatus \in {"ASSIGNED", "PICKED_UP"} /\ f.to = "PENDING"
          \/ Holder = "rider" /\ JobStatus = "PICKED_UP" /\ f.to = "FAILED"
      <4>1. f.type \in Custodial
        BY <2>6 DEF Custodial
      <4> QED BY <2>1, <2>6, <4>1, EdgeIs
    <3>3. Promise!GiveBack
      BY <2>2, <2>3, <3>1, <3>2 DEF Promise!GiveBack, Promise!MoveTo
    <3> QED BY <3>3 DEF Promise!ErrandNext
  <2>7. CASE f.type \notin Custodial
    <3>1. f.type \notin {"DeliveryAcceptedByRider", "DeliveryAcceptedByPartner"}
      BY <2>7 DEF Custodial
    <3>2. Holder' = Holder /\ Takers' = Takers
      BY <1>1, <2>1, <2>7, <3>1, HolderMoves, TakersMove
    <3>3. \/ JobStatus = "PENDING" /\ f.to = "ASSIGNED"
          \/ JobStatus = "ASSIGNED" /\ f.to = "PICKED_UP"
          \/ JobStatus = "PICKED_UP" /\ f.to = "DELIVERED"
          \/ JobStatus \in {"PENDING", "ASSIGNED", "PICKED_UP"} /\ f.to = "FAILED"
          \/ JobStatus \notin {"none", "DELIVERED", "CANCELLED"} /\ f.to = "CANCELLED"
      BY <2>1, <2>7, EdgeIs DEF Custodial
    <3>4. Promise!Progress
      BY <2>2, <2>3, <3>2, <3>3 DEF Promise!Progress, Promise!MoveTo
    <3> QED BY <3>4 DEF Promise!ErrandNext
  <2> QED BY <2>5, <2>6, <2>7 DEF Custodial
<1> QED BY <1>2, <1>3, <1>4, <1>5, <1>6, JobSteps

\* A call asks the channel after the one before it, or asks one once more.
LEMMA CallRefines ==
  ASSUME DispatchInv, NEW r \in Runners, leg[r].at = "offer",
         Call(r), UNCHANGED <<plan, log, order, row, behind>>
  PROVE  [Promise!ErrandNext]_(Promise!errandVars)
<1> DEFINE n == leg[r].new.rank
<1>1. DispatchTypeOK /\ LegOK(leg[r])
  BY DEF DispatchInv, LegInv
<1>2. n \in 1 .. plan.channels /\ n - 1 \in {0} \union offered /\ JobStatus # "none"
  BY <1>1, JobWasBorn DEF LegOK
<1>3. offered' = offered \union {n}
  BY DEF Call
<1>4. UNCHANGED <<JobStatus, Been, Holder, Takers>> /\ UNCHANGED <<plan.channels, order, row, behind>>
  BY JobStays
<1> HIDE DEF n
<1>5. Promise!Ask(n)
  BY <1>2, <1>3, <1>4 DEF Promise!Ask
<1> QED BY <1>2, <1>5 DEF Promise!ErrandNext

LEMMA CloseRefines ==
  ASSUME DispatchInv, ErrandInv, NEW r \in Runners, CloseOrder(r)
  PROVE  [Promise!ErrandNext]_(Promise!errandVars)
<1>1. "DELIVERED" \in Been
  BY DEF ErrandInv, LegGoes, CloseOrder, At
<1>2. /\ UNCHANGED <<JobStatus, Been, Holder, Takers>>
      /\ UNCHANGED <<plan.channels, offered, row, behind>>
  BY JobStays DEF CloseOrder
<1>3. CASE order = "READY"
  <2>1. Promise!Close
    BY <1>1, <1>2, <1>3 DEF Promise!Close, CloseOrder
  <2> QED BY <2>1 DEF Promise!ErrandNext
<1>4. CASE order # "READY"
  BY <1>2, <1>4 DEF Promise!errandVars, CloseOrder
<1> QED BY <1>3, <1>4

\* What the row tells has happened; and unless the leg takes the run back, it
\* goes on from what the row told.
LEMMA TellRefines ==
  ASSUME DispatchInv, ErrandInv, NEW r \in Runners, Upsert(r)
  PROVE  [Promise!ErrandNext]_(Promise!errandVars)
<1>1. /\ DispatchTypeOK /\ leg[r].at = "upsert" /\ row' = leg[r].new
      /\ behind' = (behind \/ row # leg[r].over \/ Reopens(r))
  BY DEF DispatchInv, Upsert, At
<1>2. LegOK(leg[r]) /\ LegGoes(leg[r])
  BY DEF DispatchInv, LegInv, ErrandInv
<1>3. RowTells(row') /\ JobStatus # "none"
  BY <1>1, <1>2, JobWasBorn DEF LegOK
<1>4. Promise!Happened(row')
  BY <1>3 DEF Promise!Happened, RowTells, Takers, Been
<1>5. Promise!Follows(row, row') \/ behind'
  <2>1. SUFFICES ASSUME row = leg[r].over, ~Reopens(r)
                 PROVE  Promise!Follows(row, row')
    BY <1>1
  <2>2. CASE Trigger(r).type = "OrderMarkedReady"
    <3>1. row' = OpeningRow /\ row \in {NoRow, row'}
      BY <1>1, <1>2, <2>1, <2>2 DEF LegGoes, GoesOn, Busy, Trigger, Reopens
    <3>2. /\ OpeningRow.status \in {"SELF_DISPATCHED", "OFFERED"}
          /\ OpeningRow.rank \in {0, 1}
      BY <1>1, PlanIs DEF OpeningRow
    <3> QED BY <3>1, <3>2 DEF Promise!Follows, NoRow
  <2>3. CASE Trigger(r).type # "OrderMarkedReady"
    BY <1>1, <1>2, <2>1, <2>3 DEF LegGoes, GoesOn, Busy, Trigger
  <2> QED BY <2>2, <2>3
<1>6. behind' \in {behind, TRUE}
  BY <1>1 DEF DispatchTypeOK
<1>7. /\ UNCHANGED <<JobStatus, Been, Holder, Takers>>
      /\ UNCHANGED <<plan.channels, offered, order>>
  BY JobStays DEF Upsert
<1>8. Promise!Tell
  BY <1>4, <1>5, <1>6, <1>7 DEF Promise!Tell
<1> QED BY <1>8 DEF Promise!ErrandNext

LEMMA StepRefines ==
  ASSUME DispatchInv, ErrandInv, [DispatchNext]_vars
  PROVE  [Promise!ErrandNext]_(Promise!errandVars)
<1>1. ASSUME NEW r \in Runners, LegActions(r)
      PROVE  \/ UNCHANGED <<plan, order, row, behind, offered>>
             \/ leg[r].at = "offer" /\ Call(r) /\ UNCHANGED <<plan, log, order, row, behind>>
             \/ CloseOrder(r) \/ Upsert(r)
  BY <1>1 DEF LegActions, Select, ReadOrder, ReadAdvance, ReadAcceptance, ReadDelivery, Bear, Offer,
        OfferFails, FailDispatch, CommitLeg, CrashLeg, LegError, At
<1>2. OtherActions \/ UNCHANGED steadyVars => UNCHANGED <<plan, order, row, behind, offered>>
  BY DEF OtherActions, ReadStale, RecordTimeout, MoveJob, PartnerDeclines, Escalate, Record, Project, steadyVars
<1> QED BY <1>1, <1>2, EveryStep, AppendRefines, CallRefines, CloseRefines, TellRefines

LEMMA InitRefines == DispatchInit => Promise!ErrandInit
<1> SUFFICES ASSUME DispatchInit PROVE Promise!ErrandInit
  OBVIOUS
<1>1. DispatchTypeOK /\ log \in Seq(Fact)
  BY InitInv DEF DispatchInv, DispatchTypeOK
<1>2. Neutrally("OrderMarkedReady", 0).type \notin Moving
  BY NeutralFact DEF Neutral
<1>3. Positions(Moving) = {}
  BY <1>2 DEF Positions, DispatchInit
<1>4. \A types : types \subseteq Moving => Positions(types) = {}
  BY <1>3 DEF Positions
<1>5. JobStatus = "none" /\ Been = {}
  BY <1>1, <1>3, JobIs DEF Been
<1>6. Holder = "nobody" /\ Takers = {}
  BY <1>4 DEF Holder, Custody, Takers, Recorded, Moving
<1>7. plan.channels \in Nat
  BY <1>1, PlanIs
<1> QED BY <1>5, <1>6, <1>7 DEF DispatchInit, Promise!ErrandInit, NoRow

\* The dispatch keeps what was promised about the delivery of an order, for
\* any runners, any walk and any couriers, however legs crash, overlap and
\* replay, and whatever riders, partners and operators record meanwhile.
THEOREM DispatchKeepsErrand == DispatchSpec => KeepsErrand
<1>1. DispatchInit => Promise!ErrandInit
  BY InitRefines
<1>2. DispatchInv /\ DispatchInv' /\ ErrandInv /\ [DispatchNext]_vars => ErrandInv'
  BY ErrandStep
<1>3. DispatchInv /\ ErrandInv /\ [DispatchNext]_vars => [Promise!ErrandNext]_(Promise!errandVars)
  BY StepRefines
<1> QED BY <1>1, <1>2, <1>3, ErrandInitially, DispatchInvariant, PTL
        DEF DispatchSpec, KeepsErrand, Promise!ErrandSpec
=============================================================================
