--------------------------- MODULE Mailbox_proofs ---------------------------
(***************************************************************************)
(* Theorems about the mailbox for any workers, lanes, messages, batch      *)
(* size, poison cap and number of failures.                                *)
(***************************************************************************)
EXTENDS Mailbox, Lease_proofs, FiniteSetTheorems

MailboxInv == MailboxTypeOK /\ LeaseInv

-----------------------------------------------------------------------------
(***************************************************************************)
(* Type correctness.                                                       *)
(***************************************************************************)
LEMMA OnlyChurnInv ==
  ASSUME LeaseInv, Disturb, UNCHANGED <<owner, lease, version, lanes, warm, life>>
  PROVE  LeaseInv'
<1>1. LeaseTypeOK'
  BY DisturbType DEF LeaseInv, LeaseTypeOK
<1>2. Beliefs'
  BY ForgettingKeepsBeliefs DEF LeaseInv
<1> QED BY <1>1, <1>2 DEF LeaseInv

LEMMA ForgetInv ==
  ASSUME LeaseInv, NEW w \in Workers, NEW a, Forget(w, a),
         UNCHANGED <<owner, lease, version, life, churn>>
  PROVE  LeaseInv'
<1>1. LeaseTypeOK'
  BY ForgetType DEF LeaseInv, LeaseTypeOK
<1>2. Beliefs'
  BY ForgetType, ForgettingKeepsBeliefs DEF LeaseInv
<1> QED BY <1>1, <1>2 DEF LeaseInv

LEMMA RowMessage ==
  ASSUME MailboxTypeOK, NEW w \in Workers, NEW r \in pass[w].rows
  PROVE  r.msg \in Messages
  BY DEF MailboxTypeOK, Pass, Row

LEMMA IdleIsPass == IdlePass \in Pass
  BY LeaseAssumption DEF IdlePass, Pass, Steps, NoAuthority, Authority, Lanes

LEMMA GotoType ==
  ASSUME MailboxTypeOK, NEW w \in Workers, NEW step \in Steps, Goto(w, step)
  PROVE  pass' \in [Workers -> Pass]
  BY DEF MailboxTypeOK, Goto, Pass

LEMMA EndLaneType ==
  ASSUME MailboxTypeOK, NEW w \in Workers, EndLane(w)
  PROVE  pass' \in [Workers -> Pass]
<1>1. [IdlePass EXCEPT !.todo = pass[w].todo] \in Pass
  BY IdleIsPass DEF MailboxTypeOK, Pass, IdlePass
<1> QED BY <1>1 DEF MailboxTypeOK, EndLane

LEMMA NextRowType ==
  ASSUME MailboxTypeOK, NEW w \in Workers, NEW r, NextRow(w, r)
  PROVE  pass' \in [Workers -> Pass]
  BY DEF MailboxTypeOK, NextRow, Pass, Steps

\* The registry part, with the beliefs it needs, step by step.
LEMMA LeaseStep ==
  ASSUME MailboxInv, [MailboxNext]_mailboxVars PROVE LeaseInv'
<1>1. ASSUME NEW w \in Workers, StartDrain(w) PROVE LeaseInv'
  BY <1>1, LeaseStutter DEF MailboxInv, StartDrain
<1>2. ASSUME NEW w \in Workers, OpenLane(w) PROVE LeaseInv'
  BY <1>2, LeaseStutter DEF MailboxInv, OpenLane
<1>3. ASSUME NEW w \in Workers, ReadBatch(w) PROVE LeaseInv'
  BY <1>3, LeaseStutter DEF MailboxInv, ReadBatch
<1>4. ASSUME NEW w \in Workers, WaitBackoff(w) PROVE LeaseInv'
  BY <1>4, LeaseStutter DEF MailboxInv, WaitBackoff
<1>5. ASSUME NEW w \in Workers, Attempt(w) PROVE LeaseInv'
  <2>1. warm' \in [Workers -> SUBSET Lanes]
    BY <1>5 DEF MailboxInv, MailboxTypeOK, LeaseTypeOK, Pass, Authority, Attempt
  <2>2. LeaseTypeOK'
    BY <1>5, <2>1 DEF MailboxInv, LeaseInv, LeaseTypeOK, Attempt
  <2>3. Beliefs'
    BY <1>5, ForgettingKeepsBeliefs DEF MailboxInv, LeaseInv, Attempt
  <2> QED BY <2>2, <2>3 DEF LeaseInv
<1>6. ASSUME NEW w \in Workers, Complete(w) PROVE LeaseInv'
  BY <1>6, LeaseStutter DEF MailboxInv, Complete
<1>7. ASSUME NEW w \in Workers, DropLane(w) PROVE LeaseInv'
  BY <1>7, ForgetInv DEF MailboxInv, DropLane
<1>8. ASSUME NEW w \in Workers, CountAttempt(w) PROVE LeaseInv'
  BY <1>8, LeaseStutter DEF MailboxInv, CountAttempt
<1>9. ASSUME NEW w \in Workers, Poison(w) PROVE LeaseInv'
  BY <1>9, LeaseStutter DEF MailboxInv, Poison
<1>10. ASSUME NEW w \in Workers, BatchDone(w) PROVE LeaseInv'
  BY <1>10, LeaseStutter DEF MailboxInv, BatchDone
<1>11. ASSUME NEW w \in Workers, RenewMidDrain(w) PROVE LeaseInv'
  <2>1. CASE HasAuthority(w, pass[w].auth)
    <3>1. LeaseTypeOK'
      BY <1>11, <2>1 DEF MailboxInv, LeaseInv, LeaseTypeOK, RenewMidDrain
    <3>2. Beliefs'
      BY <1>11, <2>1, ForgettingKeepsBeliefs DEF MailboxInv, LeaseInv, RenewMidDrain
    <3> QED BY <3>1, <3>2 DEF LeaseInv
  <2>2. CASE ~HasAuthority(w, pass[w].auth)
    BY <1>11, <2>2, ForgetInv DEF MailboxInv, RenewMidDrain
  <2> QED BY <2>1, <2>2
<1>12. ASSUME NEW w \in Workers, CompleteUnacked(w) PROVE LeaseInv'
  BY <1>12, OnlyChurnInv DEF MailboxInv, CompleteUnacked
<1>13. ASSUME NEW w \in Workers, HandlerFails(w) PROVE LeaseInv'
  BY <1>13, OnlyChurnInv DEF MailboxInv, HandlerFails
<1>14. ASSUME NEW w \in Workers, HandlerPanics(w) PROVE LeaseInv'
  BY <1>14, OnlyChurnInv DEF MailboxInv, HandlerPanics
<1>15. ASSUME NEW w \in Workers, StatementFails(w) PROVE LeaseInv'
  BY <1>15, OnlyChurnInv DEF MailboxInv, StatementFails
<1>16. ASSUME NEW w \in Workers, StartWorker(w) PROVE LeaseInv'
  BY <1>16, StartInv DEF MailboxInv, StartWorker
<1>17. ASSUME NEW w \in Workers, ClaimLanes(w) PROVE LeaseInv'
  BY <1>17, ClaimInv, ClaimUnackedInv DEF MailboxInv, ClaimLanes
<1>18. ASSUME NEW w \in Workers, StealOne(w) PROVE LeaseInv'
  <2>1. PICK l \in Lanes : StealLane(w, l)
    BY <1>18 DEF StealOne
  <2>2. churn' \in 0 .. MaxChurn
    BY <1>18, DisturbType DEF MailboxInv, LeaseInv, StealOne
  <2> QED BY <2>1, <2>2, StealLaneInv DEF MailboxInv
<1>19. ASSUME NEW w \in Workers, Beat(w) PROVE LeaseInv'
  <2>1. CASE BeatFails(w)
    BY <2>1, BeatFailsInv DEF MailboxInv
  <2>2. CASE \E a \in lanes[w] : Renew(w, a)
    BY <2>2, RenewInv DEF MailboxInv
  <2> QED BY <1>19, <2>1, <2>2 DEF Beat
<1>20. ASSUME NEW w \in Workers, Leave(w) PROVE LeaseInv'
  BY <1>20, ShutdownInv DEF MailboxInv, Leave
<1>21. ASSUME NEW w \in Workers, CrashWorker(w) PROVE LeaseInv'
  BY <1>21, CrashInv DEF MailboxInv, CrashWorker
<1>22. ASSUME NEW w \in Workers, NEW m \in Messages, Promote(w, m) PROVE LeaseInv'
  BY <1>22, LeaseStutter DEF MailboxInv, Promote
<1>23. ASSUME NEW m \in Messages, Insert(m) PROVE LeaseInv'
  BY <1>23, LeaseStutter DEF MailboxInv, Insert
<1>24. ASSUME NEW m \in Messages, Schedule(m) PROVE LeaseInv'
  BY <1>24, LeaseStutter DEF MailboxInv, Schedule
<1>25. ASSUME NEW m \in Messages, Cancel(m) PROVE LeaseInv'
  BY <1>25, LeaseStutter DEF MailboxInv, Cancel
<1>26. ASSUME NEW m \in Messages, Land(m) PROVE LeaseInv'
  BY <1>26, LeaseStutter DEF MailboxInv, Land
<1>27. ASSUME NEW m \in Messages, Abort(m) PROVE LeaseInv'
  BY <1>27, OnlyChurnInv DEF MailboxInv, Abort
<1>28. ASSUME NEW m \in Messages, Requeue(m) PROVE LeaseInv'
  BY <1>28, OnlyChurnInv DEF MailboxInv, Requeue
<1>29. ASSUME NEW m \in Messages, BackoffElapses(m) PROVE LeaseInv'
  BY <1>29, LeaseStutter DEF MailboxInv, BackoffElapses
<1>30. ASSUME NEW l \in Lanes, Expire(l) PROVE LeaseInv'
  BY <1>30, LeaseExpiresInv DEF MailboxInv, Expire
<1>31. CASE UNCHANGED mailboxVars
  BY <1>31, LeaseStutter DEF MailboxInv, mailboxVars
<1> QED
  BY <1>1, <1>2, <1>3, <1>4, <1>5, <1>6, <1>7, <1>8, <1>9, <1>10, <1>11,
     <1>12, <1>13, <1>14, <1>15, <1>16, <1>17, <1>18, <1>19, <1>20,
     <1>21, <1>22, <1>23, <1>24, <1>25, <1>26, <1>27, <1>28, <1>29,
     <1>30, <1>31 DEF MailboxNext, WorkerStep, DrainStep, StoreStep

\* The rows, step by step.
LEMMA StoreStepType ==
  ASSUME MailboxTypeOK, [MailboxNext]_mailboxVars PROVE StoreTypeOK'
<1> USE DEF MailboxTypeOK
<1>1. ASSUME NEW w \in Workers, StartDrain(w) PROVE StoreTypeOK'
  BY <1>1 DEF StartDrain, StoreTypeOK, storeVars
<1>2. ASSUME NEW w \in Workers, OpenLane(w) PROVE StoreTypeOK'
  BY <1>2 DEF OpenLane, StoreTypeOK, storeVars
<1>3. ASSUME NEW w \in Workers, ReadBatch(w) PROVE StoreTypeOK'
  BY <1>3 DEF ReadBatch, StoreTypeOK, storeVars
<1>4. ASSUME NEW w \in Workers, WaitBackoff(w) PROVE StoreTypeOK'
  BY <1>4 DEF WaitBackoff, StoreTypeOK, storeVars
<1>5. ASSUME NEW w \in Workers, Attempt(w) PROVE StoreTypeOK'
  BY <1>5 DEF Attempt, StoreTypeOK, storeVars
<1>6. ASSUME NEW w \in Workers, Complete(w) PROVE StoreTypeOK'
  <2>1. PICK r \in pass[w].rows : Deliver(r.msg, pass[w].auth[1])
    BY <1>6 DEF Complete
  <2>2. r.msg \in Messages /\ pass[w].auth[1] \in Lanes
    BY <2>1 DEF MailboxTypeOK, Pass, Row, Authority
  <2> QED BY <1>6, <2>1, <2>2 DEF Complete, Deliver, StoreTypeOK, Statuses
<1>7. ASSUME NEW w \in Workers, DropLane(w) PROVE StoreTypeOK'
  BY <1>7 DEF DropLane, StoreTypeOK, storeVars
<1>8. ASSUME NEW w \in Workers, CountAttempt(w) PROVE StoreTypeOK'
  <2>1. PICK r \in pass[w].rows :
          \/ /\ attempts' = [attempts EXCEPT ![r.msg] = @ + 1]
             /\ backingOff' = [backingOff EXCEPT ![r.msg] = TRUE]
          \/ UNCHANGED <<attempts, backingOff>>
    BY <1>8 DEF CountAttempt
  <2>2. r.msg \in Messages
    BY RowMessage
  <2>3. attempts' \in [Messages -> Nat]
    BY <2>1, <2>2 DEF StoreTypeOK
  <2>4. backingOff' \in [Messages -> BOOLEAN]
    BY <2>1, <2>2 DEF StoreTypeOK
  <2>5. UNCHANGED <<status, position, lastPosition, checkpoint, effects, late>>
    BY <1>8 DEF CountAttempt
  <2> QED BY <2>3, <2>4, <2>5 DEF StoreTypeOK
<1>9. ASSUME NEW w \in Workers, Poison(w) PROVE StoreTypeOK'
  BY <1>9, RowMessage DEF Poison, StoreTypeOK, Statuses
<1>10. ASSUME NEW w \in Workers, BatchDone(w) PROVE StoreTypeOK'
  BY <1>10 DEF BatchDone, StoreTypeOK, storeVars
<1>11. ASSUME NEW w \in Workers, RenewMidDrain(w) PROVE StoreTypeOK'
  BY <1>11 DEF RenewMidDrain, StoreTypeOK, storeVars
<1>12. ASSUME NEW w \in Workers, CompleteUnacked(w) PROVE StoreTypeOK'
  <2>1. PICK r \in pass[w].rows : Deliver(r.msg, pass[w].auth[1])
    BY <1>12 DEF CompleteUnacked
  <2>2. r.msg \in Messages /\ pass[w].auth[1] \in Lanes
    BY <2>1 DEF MailboxTypeOK, Pass, Row, Authority
  <2> QED BY <1>12, <2>1, <2>2 DEF CompleteUnacked, Deliver, StoreTypeOK, Statuses
<1>13. ASSUME NEW w \in Workers, HandlerFails(w) PROVE StoreTypeOK'
  BY <1>13 DEF HandlerFails, StoreTypeOK, storeVars
<1>14. ASSUME NEW w \in Workers, HandlerPanics(w) PROVE StoreTypeOK'
  BY <1>14 DEF HandlerPanics, StoreTypeOK, storeVars
<1>15. ASSUME NEW w \in Workers, StatementFails(w) PROVE StoreTypeOK'
  BY <1>15 DEF StatementFails, StoreTypeOK, storeVars
<1>16. ASSUME NEW w \in Workers, StartWorker(w) PROVE StoreTypeOK'
  BY <1>16 DEF StartWorker, StoreTypeOK, storeVars
<1>17. ASSUME NEW w \in Workers, ClaimLanes(w) PROVE StoreTypeOK'
  BY <1>17 DEF ClaimLanes, StoreTypeOK, storeVars
<1>18. ASSUME NEW w \in Workers, StealOne(w) PROVE StoreTypeOK'
  BY <1>18 DEF StealOne, StoreTypeOK, storeVars
<1>19. ASSUME NEW w \in Workers, Beat(w) PROVE StoreTypeOK'
  BY <1>19 DEF Beat, StoreTypeOK, storeVars
<1>20. ASSUME NEW w \in Workers, Leave(w) PROVE StoreTypeOK'
  BY <1>20 DEF Leave, StoreTypeOK, storeVars
<1>21. ASSUME NEW w \in Workers, CrashWorker(w) PROVE StoreTypeOK'
  BY <1>21 DEF CrashWorker, StoreTypeOK, storeVars
<1>22. ASSUME NEW w \in Workers, NEW m \in Messages, Promote(w, m) PROVE StoreTypeOK'
  BY <1>22 DEF Promote, StoreTypeOK, Statuses
<1>23. ASSUME NEW m \in Messages, Insert(m) PROVE StoreTypeOK'
  BY <1>23 DEF Insert, StoreTypeOK, Statuses
<1>24. ASSUME NEW m \in Messages, Schedule(m) PROVE StoreTypeOK'
  BY <1>24 DEF Schedule, StoreTypeOK, Statuses
<1>25. ASSUME NEW m \in Messages, Cancel(m) PROVE StoreTypeOK'
  BY <1>25 DEF Cancel, StoreTypeOK, Statuses
<1>26. ASSUME NEW m \in Messages, Land(m) PROVE StoreTypeOK'
  BY <1>26 DEF Land, StoreTypeOK, Statuses
<1>27. ASSUME NEW m \in Messages, Abort(m) PROVE StoreTypeOK'
  BY <1>27 DEF Abort, StoreTypeOK, Statuses
<1>28. ASSUME NEW m \in Messages, Requeue(m) PROVE StoreTypeOK'
  BY <1>28 DEF Requeue, StoreTypeOK, Statuses
<1>29. ASSUME NEW m \in Messages, BackoffElapses(m) PROVE StoreTypeOK'
  BY <1>29 DEF BackoffElapses, StoreTypeOK, Statuses
<1>30. ASSUME NEW l \in Lanes, Expire(l) PROVE StoreTypeOK'
  BY <1>30 DEF Expire, StoreTypeOK, storeVars
<1>31. CASE UNCHANGED mailboxVars
  BY <1>31 DEF StoreTypeOK, mailboxVars, storeVars
<1> QED
  BY <1>1, <1>2, <1>3, <1>4, <1>5, <1>6, <1>7, <1>8, <1>9, <1>10, <1>11,
     <1>12, <1>13, <1>14, <1>15, <1>16, <1>17, <1>18, <1>19, <1>20,
     <1>21, <1>22, <1>23, <1>24, <1>25, <1>26, <1>27, <1>28, <1>29,
     <1>30, <1>31 DEF MailboxNext, WorkerStep, DrainStep, StoreStep

\* The drains, step by step.
LEMMA PassStepType ==
  ASSUME MailboxTypeOK, [MailboxNext]_mailboxVars PROVE pass' \in [Workers -> Pass]
<1> USE DEF MailboxTypeOK
<1>1. ASSUME NEW w \in Workers, StartDrain(w) PROVE pass' \in [Workers -> Pass]
  <2> DEFINE work == {a \in lanes[w] : Deliverable(a[1]) # {}}
  <2>1. work \in SUBSET Authority
    BY DEF LeaseTypeOK, MailboxTypeOK
  <2>2. pass' = [pass EXCEPT ![w].todo = work]
    BY <1>1 DEF StartDrain
  <2> HIDE DEF work
  <2> QED BY <2>1, <2>2 DEF Pass
<1>2. ASSUME NEW w \in Workers, OpenLane(w) PROVE pass' \in [Workers -> Pass]
  BY <1>2 DEF OpenLane, Pass, Steps
<1>3. ASSUME NEW w \in Workers, ReadBatch(w) PROVE pass' \in [Workers -> Pass]
  <2> DEFINE got == FirstBatch(Deliverable(pass[w].auth[1]))
             read == {[msg |-> m, wait |-> IF backingOff[m] THEN attempts[m] ELSE 0] : m \in got}
             full == (Cardinality(got) = Batch)
  <2>1. got \subseteq Messages
    BY DEF FirstBatch, Deliverable, InLane
  <2>2. read \in SUBSET Row
    BY <2>1 DEF Row, MailboxTypeOK, StoreTypeOK
  <2>3. full \in BOOLEAN
    OBVIOUS
  <2>4. \/ EndLane(w)
        \/ pass' = [pass EXCEPT ![w].at = "rows", ![w].rows = read, ![w].full = full]
    BY <1>3 DEF ReadBatch
  <2> HIDE DEF got, read, full
  <2>5. CASE EndLane(w)
    BY <2>5, EndLaneType
  <2>6. CASE pass' = [pass EXCEPT ![w].at = "rows", ![w].rows = read, ![w].full = full]
    BY <2>2, <2>3, <2>6 DEF Pass, Steps
  <2> QED BY <2>4, <2>5, <2>6
<1>4. ASSUME NEW w \in Workers, WaitBackoff(w) PROVE pass' \in [Workers -> Pass]
  BY <1>4, EndLaneType DEF WaitBackoff
<1>5. ASSUME NEW w \in Workers, Attempt(w) PROVE pass' \in [Workers -> Pass]
  BY <1>5, GotoType DEF Attempt, Steps
<1>6. ASSUME NEW w \in Workers, Complete(w) PROVE pass' \in [Workers -> Pass]
  BY <1>6, NextRowType DEF Complete
<1>7. ASSUME NEW w \in Workers, DropLane(w) PROVE pass' \in [Workers -> Pass]
  BY <1>7, EndLaneType DEF DropLane
<1>8. ASSUME NEW w \in Workers, CountAttempt(w) PROVE pass' \in [Workers -> Pass]
  BY <1>8, GotoType, EndLaneType DEF CountAttempt, Steps
<1>9. ASSUME NEW w \in Workers, Poison(w) PROVE pass' \in [Workers -> Pass]
  BY <1>9, NextRowType, EndLaneType DEF Poison
<1>10. ASSUME NEW w \in Workers, BatchDone(w) PROVE pass' \in [Workers -> Pass]
  BY <1>10, GotoType, EndLaneType DEF BatchDone, Steps
<1>11. ASSUME NEW w \in Workers, RenewMidDrain(w) PROVE pass' \in [Workers -> Pass]
  BY <1>11, GotoType, EndLaneType DEF RenewMidDrain, Steps
<1>12. ASSUME NEW w \in Workers, CompleteUnacked(w) PROVE pass' \in [Workers -> Pass]
  BY <1>12, GotoType DEF CompleteUnacked, Steps
<1>13. ASSUME NEW w \in Workers, HandlerFails(w) PROVE pass' \in [Workers -> Pass]
  BY <1>13, GotoType DEF HandlerFails, Steps
<1>14. ASSUME NEW w \in Workers, HandlerPanics(w) PROVE pass' \in [Workers -> Pass]
  BY <1>14, IdleIsPass DEF HandlerPanics
<1>15. ASSUME NEW w \in Workers, StatementFails(w) PROVE pass' \in [Workers -> Pass]
  BY <1>15, EndLaneType DEF StatementFails
<1>16. ASSUME NEW w \in Workers, StartWorker(w) PROVE pass' \in [Workers -> Pass]
  BY <1>16 DEF StartWorker
<1>17. ASSUME NEW w \in Workers, ClaimLanes(w) PROVE pass' \in [Workers -> Pass]
  BY <1>17 DEF ClaimLanes
<1>18. ASSUME NEW w \in Workers, StealOne(w) PROVE pass' \in [Workers -> Pass]
  BY <1>18 DEF StealOne
<1>19. ASSUME NEW w \in Workers, Beat(w) PROVE pass' \in [Workers -> Pass]
  BY <1>19 DEF Beat
<1>20. ASSUME NEW w \in Workers, Leave(w) PROVE pass' \in [Workers -> Pass]
  BY <1>20 DEF Leave
<1>21. ASSUME NEW w \in Workers, CrashWorker(w) PROVE pass' \in [Workers -> Pass]
  BY <1>21, IdleIsPass DEF CrashWorker
<1>22. ASSUME NEW w \in Workers, NEW m \in Messages, Promote(w, m) PROVE pass' \in [Workers -> Pass]
  BY <1>22 DEF Promote
<1>23. ASSUME NEW m \in Messages, Insert(m) PROVE pass' \in [Workers -> Pass]
  BY <1>23 DEF Insert
<1>24. ASSUME NEW m \in Messages, Schedule(m) PROVE pass' \in [Workers -> Pass]
  BY <1>24 DEF Schedule
<1>25. ASSUME NEW m \in Messages, Cancel(m) PROVE pass' \in [Workers -> Pass]
  BY <1>25 DEF Cancel
<1>26. ASSUME NEW m \in Messages, Land(m) PROVE pass' \in [Workers -> Pass]
  BY <1>26 DEF Land
<1>27. ASSUME NEW m \in Messages, Abort(m) PROVE pass' \in [Workers -> Pass]
  BY <1>27 DEF Abort
<1>28. ASSUME NEW m \in Messages, Requeue(m) PROVE pass' \in [Workers -> Pass]
  BY <1>28 DEF Requeue
<1>29. ASSUME NEW m \in Messages, BackoffElapses(m) PROVE pass' \in [Workers -> Pass]
  BY <1>29 DEF BackoffElapses
<1>30. ASSUME NEW l \in Lanes, Expire(l) PROVE pass' \in [Workers -> Pass]
  BY <1>30 DEF Expire
<1>31. CASE UNCHANGED mailboxVars
  BY <1>31 DEF mailboxVars
<1> QED
  BY <1>1, <1>2, <1>3, <1>4, <1>5, <1>6, <1>7, <1>8, <1>9, <1>10, <1>11,
     <1>12, <1>13, <1>14, <1>15, <1>16, <1>17, <1>18, <1>19, <1>20,
     <1>21, <1>22, <1>23, <1>24, <1>25, <1>26, <1>27, <1>28, <1>29,
     <1>30, <1>31 DEF MailboxNext, WorkerStep, DrainStep, StoreStep

LEMMA MailboxInitInv == ASSUME MailboxInit PROVE MailboxInv
<1>1. LeaseInv
  BY LeaseInitInv DEF MailboxInit
<1>2. StoreTypeOK
  BY DEF MailboxInit, StoreTypeOK, Statuses
<1>3. pass \in [Workers -> Pass]
  BY IdleIsPass DEF MailboxInit
<1> QED BY <1>1, <1>2, <1>3 DEF MailboxInv, MailboxTypeOK, LeaseInv

\* Every state of the mailbox has its types, no belief is ahead of the
\* registry and no authority is shared.
THEOREM MailboxInvariant == MailboxSpec => []MailboxInv
<1>1. MailboxInit => MailboxInv
  BY MailboxInitInv
<1>2. MailboxInv /\ [MailboxNext]_mailboxVars => MailboxInv'
  BY LeaseStep, StoreStepType, PassStepType DEF MailboxInv, MailboxTypeOK, LeaseInv
<1> QED BY <1>1, <1>2, PTL DEF MailboxSpec

\* Every variable of the mailbox keeps its type.
THEOREM TypesHold == MailboxSpec => []MailboxTypeOK
  BY MailboxInvariant, PTL DEF MailboxInv

\* No two workers ever hold the same authority over a lane, whatever is
\* stolen, released, forgotten or left behind by a crash.
THEOREM AuthorityIsUnique == MailboxSpec => []NoSharedAuthority
  BY MailboxInvariant, PTL DEF MailboxInv, LeaseInv, Beliefs

\* What the fence relies on: no belief is ahead of the registry, and a belief
\* in the current version is the owner's.
THEOREM BeliefsStayBehind == MailboxSpec => []BeliefIsBehind
  BY MailboxInvariant, PTL DEF MailboxInv, LeaseInv, Beliefs

-----------------------------------------------------------------------------
(***************************************************************************)
(* What one step does to the rows: every step leaves status and effects    *)
(* alone, or moves one message along one of these edges.                   *)
(***************************************************************************)
\* The status of m alone changes, between these two values.
Edge(m, from, to) ==
  /\ status[m] \in from
  /\ status' = [status EXCEPT ![m] = to]

StatusStep ==
  \/ UNCHANGED <<status, effects>>
  \/ \E m \in Messages :
       \/ /\ effects' = effects
          /\ \/ m \in Commands /\ Edge(m, {"absent"}, "inserting")
             \/ m \in Reminders /\ Edge(m, {"absent"}, "SCHEDULED")
             \/ Edge(m, {"SCHEDULED"}, "CANCELLED")
             \/ Edge(m, {"SCHEDULED"}, "promoting")
             \/ Edge(m, {"inserting", "promoting"}, "RECEIVED")
             \/ m \in Commands /\ Edge(m, {"inserting", "promoting"}, "absent")
             \/ m \in Reminders /\ Edge(m, {"inserting", "promoting"}, "SCHEDULED")
             \/ Edge(m, {"RECEIVED"}, "POISONED")
             \/ Edge(m, {"POISONED"}, "RECEIVED")
       \/ /\ Edge(m, {"RECEIVED"}, "COMPLETED")
          /\ effects' = [effects EXCEPT ![m] = @ + 1]

LEMMA EveryStepIsAStatusStep ==
  ASSUME MailboxTypeOK, [MailboxNext]_mailboxVars PROVE StatusStep
<1>1. ASSUME NEW w \in Workers, StartDrain(w) PROVE StatusStep
  BY <1>1 DEF StartDrain, storeVars, StatusStep
<1>2. ASSUME NEW w \in Workers, OpenLane(w) PROVE StatusStep
  BY <1>2 DEF OpenLane, storeVars, StatusStep
<1>3. ASSUME NEW w \in Workers, ReadBatch(w) PROVE StatusStep
  BY <1>3 DEF ReadBatch, storeVars, StatusStep
<1>4. ASSUME NEW w \in Workers, WaitBackoff(w) PROVE StatusStep
  BY <1>4 DEF WaitBackoff, storeVars, StatusStep
<1>5. ASSUME NEW w \in Workers, Attempt(w) PROVE StatusStep
  BY <1>5 DEF Attempt, storeVars, StatusStep
<1>6. ASSUME NEW w \in Workers, Complete(w) PROVE StatusStep
  <2>1. PICK r \in pass[w].rows : MayCommit(w, r.msg) /\ Deliver(r.msg, pass[w].auth[1])
    BY <1>6 DEF Complete
  <2>2. r.msg \in Messages
    BY RowMessage
  <2> QED BY <2>1, <2>2 DEF MayCommit, Deliver, StatusStep, Edge
<1>7. ASSUME NEW w \in Workers, DropLane(w) PROVE StatusStep
  BY <1>7 DEF DropLane, storeVars, StatusStep
<1>8. ASSUME NEW w \in Workers, CountAttempt(w) PROVE StatusStep
  BY <1>8 DEF CountAttempt, storeVars, StatusStep
<1>9. ASSUME NEW w \in Workers, Poison(w) PROVE StatusStep
  <2>1. effects' = effects
    BY <1>9 DEF Poison
  <2>2. PICK r \in pass[w].rows :
          \/ status[r.msg] = "RECEIVED" /\ status' = [status EXCEPT ![r.msg] = "POISONED"]
          \/ status' = status
    BY <1>9 DEF Poison
  <2>3. r.msg \in Messages
    BY RowMessage
  <2> QED BY <2>1, <2>2, <2>3 DEF StatusStep, Edge
<1>10. ASSUME NEW w \in Workers, BatchDone(w) PROVE StatusStep
  BY <1>10 DEF BatchDone, storeVars, StatusStep
<1>11. ASSUME NEW w \in Workers, RenewMidDrain(w) PROVE StatusStep
  BY <1>11 DEF RenewMidDrain, storeVars, StatusStep
<1>12. ASSUME NEW w \in Workers, CompleteUnacked(w) PROVE StatusStep
  <2>1. PICK r \in pass[w].rows : MayCommit(w, r.msg) /\ Deliver(r.msg, pass[w].auth[1])
    BY <1>12 DEF CompleteUnacked
  <2>2. r.msg \in Messages
    BY RowMessage
  <2> QED BY <2>1, <2>2 DEF MayCommit, Deliver, StatusStep, Edge
<1>13. ASSUME NEW w \in Workers, HandlerFails(w) PROVE StatusStep
  BY <1>13 DEF HandlerFails, storeVars, StatusStep
<1>14. ASSUME NEW w \in Workers, HandlerPanics(w) PROVE StatusStep
  BY <1>14 DEF HandlerPanics, storeVars, StatusStep
<1>15. ASSUME NEW w \in Workers, StatementFails(w) PROVE StatusStep
  BY <1>15 DEF StatementFails, storeVars, StatusStep
<1>16. ASSUME NEW w \in Workers, StartWorker(w) PROVE StatusStep
  BY <1>16 DEF StartWorker, storeVars, StatusStep
<1>17. ASSUME NEW w \in Workers, ClaimLanes(w) PROVE StatusStep
  BY <1>17 DEF ClaimLanes, storeVars, StatusStep
<1>18. ASSUME NEW w \in Workers, StealOne(w) PROVE StatusStep
  BY <1>18 DEF StealOne, storeVars, StatusStep
<1>19. ASSUME NEW w \in Workers, Beat(w) PROVE StatusStep
  BY <1>19 DEF Beat, storeVars, StatusStep
<1>20. ASSUME NEW w \in Workers, Leave(w) PROVE StatusStep
  BY <1>20 DEF Leave, storeVars, StatusStep
<1>21. ASSUME NEW w \in Workers, CrashWorker(w) PROVE StatusStep
  BY <1>21 DEF CrashWorker, storeVars, StatusStep
<1>22. ASSUME NEW w \in Workers, NEW m \in Messages, Promote(w, m) PROVE StatusStep
  BY <1>22 DEF Promote, StatusStep, Edge
<1>23. ASSUME NEW m \in Messages, Insert(m) PROVE StatusStep
  BY <1>23 DEF Insert, StatusStep, Edge
<1>24. ASSUME NEW m \in Messages, Schedule(m) PROVE StatusStep
  BY <1>24 DEF Schedule, StatusStep, Edge
<1>25. ASSUME NEW m \in Messages, Cancel(m) PROVE StatusStep
  BY <1>25 DEF Cancel, StatusStep, Edge
<1>26. ASSUME NEW m \in Messages, Land(m) PROVE StatusStep
  BY <1>26 DEF Land, StatusStep, Edge
<1>27. ASSUME NEW m \in Messages, Abort(m) PROVE StatusStep
  BY <1>27 DEF Abort, StatusStep, Edge, Messages
<1>28. ASSUME NEW m \in Messages, Requeue(m) PROVE StatusStep
  BY <1>28 DEF Requeue, StatusStep, Edge
<1>29. ASSUME NEW m \in Messages, BackoffElapses(m) PROVE StatusStep
  BY <1>29 DEF BackoffElapses, StatusStep
<1>30. ASSUME NEW l \in Lanes, Expire(l) PROVE StatusStep
  BY <1>30 DEF Expire, storeVars, StatusStep
<1>31. CASE UNCHANGED mailboxVars
  BY <1>31 DEF mailboxVars, storeVars, StatusStep
<1> QED
  BY <1>1, <1>2, <1>3, <1>4, <1>5, <1>6, <1>7, <1>8, <1>9, <1>10, <1>11,
     <1>12, <1>13, <1>14, <1>15, <1>16, <1>17, <1>18, <1>19, <1>20,
     <1>21, <1>22, <1>23, <1>24, <1>25, <1>26, <1>27, <1>28, <1>29,
     <1>30, <1>31 DEF MailboxNext, WorkerStep, DrainStep, StoreStep

-----------------------------------------------------------------------------
(***************************************************************************)
(* Exactly-once effects.                                                   *)
(***************************************************************************)
\* Whatever is retried, stolen, fenced, poisoned, requeued or lost, the
\* effects of a message are committed at most once, and its row says
\* COMPLETED exactly when they were (the two guards of complete_fenced).
THEOREM EffectsOnce == MailboxSpec => []ExactlyOnce
<1>1. MailboxInit => ExactlyOnce
  BY DEF MailboxInit, ExactlyOnce
<1>2. ASSUME MailboxTypeOK, ExactlyOnce, StatusStep PROVE ExactlyOnce'
  <2>1. status \in [Messages -> Statuses] /\ effects \in [Messages -> Nat]
    BY <1>2 DEF MailboxTypeOK, StoreTypeOK
  <2>2. CASE UNCHANGED <<status, effects>>
    BY <1>2, <2>2 DEF ExactlyOnce
  <2>3. ASSUME NEW m \in Messages, NEW from \in SUBSET (Statuses \ {"COMPLETED"}),
               NEW to \in Statuses \ {"COMPLETED"}, Edge(m, from, to), effects' = effects
        PROVE  ExactlyOnce'
    BY <1>2, <2>1, <2>3 DEF ExactlyOnce, Edge
  <2>4. ASSUME NEW m \in Messages, Edge(m, {"RECEIVED"}, "COMPLETED"),
               effects' = [effects EXCEPT ![m] = @ + 1]
        PROVE  ExactlyOnce'
    <3>1. effects[m] = 0
      BY <1>2, <2>1, <2>4 DEF ExactlyOnce, Edge
    <3> QED BY <1>2, <2>1, <2>4, <3>1 DEF ExactlyOnce, Edge
  <2> QED BY <1>2, <2>2, <2>3, <2>4 DEF StatusStep, Statuses
<1>3. MailboxTypeOK /\ ExactlyOnce /\ [MailboxNext]_mailboxVars => ExactlyOnce'
  BY <1>2, EveryStepIsAStatusStep
<1>4. MailboxInv => MailboxTypeOK
  BY DEF MailboxInv
<1> QED BY <1>1, <1>3, <1>4, MailboxInvariant, PTL DEF MailboxSpec

-----------------------------------------------------------------------------
(***************************************************************************)
(* The mailbox keeps the promise of OnceDelivery.                          *)
(***************************************************************************)
LEMMA ViewOf ==
  /\ View("absent") = "unknown" /\ View("inserting") = "unknown"
  /\ View("SCHEDULED") = "waiting" /\ View("promoting") = "waiting"
  /\ View("CANCELLED") = "cancelled" /\ View("RECEIVED") = "due"
  /\ View("COMPLETED") = "delivered" /\ View("POISONED") = "abandoned"
  BY DEF View

\* Moving one row moves what is observed of that message alone.
LEMMA EdgeIsMove ==
  ASSUME MailboxTypeOK, NEW m \in Messages, NEW from, NEW to, Edge(m, from, to)
  PROVE  /\ Observed[m] = View(status[m])
         /\ Observed' = [Observed EXCEPT ![m] = View(to)]
<1>1. status \in [Messages -> Statuses]
  BY DEF MailboxTypeOK, StoreTypeOK
<1>2. \A k \in Messages : status'[k] = IF k = m THEN to ELSE status[k]
  BY <1>1 DEF Edge
<1>3. Observed' = [k \in Messages |-> View(status'[k])]
  BY DEF Observed
<1> QED BY <1>2, <1>3 DEF Observed

\* Only commands are being inserted, only reminders wait to be promoted.
KindsOK ==
  \A m \in Messages :
    /\ status[m] = "inserting" => m \in Commands
    /\ status[m] \in {"SCHEDULED", "promoting"} => m \in Reminders

LEMMA KindsStep ==
  ASSUME MailboxTypeOK, KindsOK, StatusStep PROVE KindsOK'
<1>1. status \in [Messages -> Statuses]
  BY DEF MailboxTypeOK, StoreTypeOK
<1>2. CASE UNCHANGED <<status, effects>>
  BY <1>2 DEF KindsOK
<1>3. ASSUME NEW m \in Messages, NEW from, NEW to, Edge(m, from, to),
             to = "inserting" => m \in Commands,
             to \in {"SCHEDULED", "promoting"} => m \in Reminders
      PROVE  KindsOK'
  BY <1>1, <1>3 DEF KindsOK, Edge
<1>4. ASSUME NEW m \in Messages, Edge(m, {"SCHEDULED"}, "promoting") PROVE KindsOK'
  BY <1>3, <1>4 DEF KindsOK, Edge
<1> QED BY <1>2, <1>3, <1>4 DEF StatusStep

\* Every step of the mailbox is one the promise allows, or leaves what it
\* speaks of unchanged.
LEMMA StatusStepRefines ==
  ASSUME MailboxTypeOK, KindsOK, StatusStep PROVE [Once!OnceNext]_Once!onceVars
<1> USE ViewOf
<1> DEFINE Goal == [Once!OnceNext]_Once!onceVars
<1>1. CASE UNCHANGED <<status, effects>>
  BY <1>1 DEF Once!onceVars, Observed
<1>2. ASSUME NEW m \in Messages, effects' = effects, NEW from, NEW to, Edge(m, from, to),
             \E x, y \in {"unknown", "waiting", "due", "abandoned", "cancelled"} :
               /\ View(status[m]) = x
               /\ View(to) = y
               /\ \/ x = y
                  \/ m \in Commands /\ x = "unknown" /\ y = "due"
                  \/ m \in Reminders /\ x = "unknown" /\ y = "waiting"
                  \/ x = "waiting" /\ y \in {"due", "cancelled"}
                  \/ x = "due" /\ y = "abandoned"
                  \/ x = "abandoned" /\ y = "due"
      PROVE  Goal
  <2>1. Observed[m] = View(status[m]) /\ Observed' = [Observed EXCEPT ![m] = View(to)]
    BY <1>2, EdgeIsMove
  <2>2. CASE View(status[m]) = View(to)
    <3>1. Observed' = Observed
      BY <2>1, <2>2 DEF Observed
    <3> QED BY <3>1, <1>2 DEF Once!onceVars
  <2>3. CASE View(status[m]) # View(to)
    <3>1. Observed' = [Observed EXCEPT ![m] = View(to)] /\ effects' = effects
      BY <1>2, <2>1
    <3>2. CASE m \in Commands /\ Observed[m] = "unknown" /\ View(to) = "due"
      BY <3>1, <3>2 DEF Once!OnceNext, Once!Accept, Once!Move, Once!Messages, Messages
    <3>3. CASE m \in Reminders /\ Observed[m] = "unknown" /\ View(to) = "waiting"
      BY <3>1, <3>3 DEF Once!OnceNext, Once!Plan, Once!Move, Once!Messages, Messages
    <3>4. CASE Observed[m] = "waiting" /\ View(to) = "due"
      BY <3>1, <3>4 DEF Once!OnceNext, Once!FallDue, Once!Move, Once!Messages, Messages
    <3>5. CASE Observed[m] = "waiting" /\ View(to) = "cancelled"
      BY <3>1, <3>5 DEF Once!OnceNext, Once!CallOff, Once!Move, Once!Messages, Messages
    <3>6. CASE Observed[m] = "due" /\ View(to) = "abandoned"
      BY <3>1, <3>6 DEF Once!OnceNext, Once!GiveUp, Once!Move, Once!Messages, Messages
    <3>7. CASE Observed[m] = "abandoned" /\ View(to) = "due"
      BY <3>1, <3>7 DEF Once!OnceNext, Once!Revive, Once!Move, Once!Messages, Messages
    <3>8. PICK x, y \in {"unknown", "waiting", "due", "abandoned", "cancelled"} :
            /\ Observed[m] = x
            /\ View(to) = y
            /\ \/ x = y
               \/ m \in Commands /\ x = "unknown" /\ y = "due"
               \/ m \in Reminders /\ x = "unknown" /\ y = "waiting"
               \/ x = "waiting" /\ y \in {"due", "cancelled"}
               \/ x = "due" /\ y = "abandoned"
               \/ x = "abandoned" /\ y = "due"
      BY <1>2, <2>1
    <3> QED BY <2>1, <2>3, <3>2, <3>3, <3>4, <3>5, <3>6, <3>7, <3>8
  <2> QED BY <2>2, <2>3
<1>3. ASSUME NEW m \in Messages, Edge(m, {"RECEIVED"}, "COMPLETED"),
             effects' = [effects EXCEPT ![m] = @ + 1]
      PROVE  Goal
  <2>1. status[m] = "RECEIVED"
    BY <1>3 DEF Edge
  <2>2. Observed[m] = "due" /\ Observed' = [Observed EXCEPT ![m] = "delivered"]
    BY <1>3, <2>1, EdgeIsMove
  <2>3. Once!Happen(m)
    BY <1>3, <2>2 DEF Once!Happen, Once!Move
  <2> QED BY <2>3 DEF Once!OnceNext, Once!Messages, Messages
<1>4. ASSUME NEW m \in Messages, effects' = effects, m \in Commands, Edge(m, {"absent"}, "inserting")
      PROVE  Goal
  BY <1>2, <1>4 DEF Edge
<1>5. ASSUME NEW m \in Messages, effects' = effects, m \in Reminders, Edge(m, {"absent"}, "SCHEDULED")
      PROVE  Goal
  BY <1>2, <1>5 DEF Edge
<1>6. ASSUME NEW m \in Messages, effects' = effects, Edge(m, {"SCHEDULED"}, "CANCELLED")
      PROVE  Goal
  BY <1>2, <1>6 DEF Edge
<1>7. ASSUME NEW m \in Messages, effects' = effects, Edge(m, {"SCHEDULED"}, "promoting")
      PROVE  Goal
  BY <1>2, <1>7 DEF Edge
<1>8. ASSUME NEW m \in Messages, effects' = effects, Edge(m, {"inserting", "promoting"}, "RECEIVED")
      PROVE  Goal
  <2>1. CASE status[m] = "inserting"
    BY <1>2, <1>8, <2>1 DEF Edge, KindsOK
  <2>2. CASE status[m] = "promoting"
    BY <1>2, <1>8, <2>2 DEF Edge
  <2> QED BY <1>8, <2>1, <2>2 DEF Edge
<1>9. ASSUME NEW m \in Messages, effects' = effects, m \in Commands,
             Edge(m, {"inserting", "promoting"}, "absent")
      PROVE  Goal
  <2>1. status[m] = "inserting"
    BY <1>9, MailboxAssumption DEF Edge, KindsOK
  <2> QED BY <1>2, <1>9, <2>1
<1>10. ASSUME NEW m \in Messages, effects' = effects, m \in Reminders,
             Edge(m, {"inserting", "promoting"}, "SCHEDULED")
      PROVE  Goal
  <2>1. status[m] = "promoting"
    BY <1>10, MailboxAssumption DEF Edge, KindsOK
  <2> QED BY <1>2, <1>10, <2>1
<1>11. ASSUME NEW m \in Messages, effects' = effects, Edge(m, {"RECEIVED"}, "POISONED")
      PROVE  Goal
  BY <1>2, <1>11 DEF Edge
<1>12. ASSUME NEW m \in Messages, effects' = effects, Edge(m, {"POISONED"}, "RECEIVED")
      PROVE  Goal
  BY <1>2, <1>12 DEF Edge
<1> QED BY <1>1, <1>3, <1>4, <1>5, <1>6, <1>7, <1>8, <1>9, <1>10, <1>11, <1>12
        DEF StatusStep

\* The mailbox implements OnceDelivery: at most one delivery, a cancelled
\* message never delivered, a delivered one never anything else.
THEOREM MailboxKeepsPromise == MailboxSpec => KeepsPromise
<1>1. MailboxInit => Once!OnceInit /\ KindsOK
  BY ViewOf DEF MailboxInit, KindsOK, Observed, Once!OnceInit, Once!Messages, Messages
<1>2. MailboxTypeOK /\ KindsOK /\ [MailboxNext]_mailboxVars => KindsOK'
  BY EveryStepIsAStatusStep, KindsStep
<1>3. MailboxTypeOK /\ KindsOK /\ [MailboxNext]_mailboxVars => [Once!OnceNext]_Once!onceVars
  BY EveryStepIsAStatusStep, StatusStepRefines
<1>4. MailboxInv => MailboxTypeOK
  BY DEF MailboxInv
<1> QED BY <1>1, <1>2, <1>3, <1>4, MailboxInvariant, PTL
        DEF MailboxSpec, KeepsPromise, Once!OnceSpec

-----------------------------------------------------------------------------
(***************************************************************************)
(* The fence.                                                              *)
(***************************************************************************)
\* Only these two actions of w change both the effects and the pass of w.
LEMMA CommitsAreFenced ==
  ASSUME MailboxTypeOK, MailboxNext, NEW w \in Workers,
         effects' # effects, pass'[w] # pass[w]
  PROVE  HasAuthority(w, pass[w].auth)
<1>1. PICK v \in Workers : Complete(v) \/ CompleteUnacked(v)
  <2>1. ASSUME NEW v \in Workers, WorkerStep(v) PROVE Complete(v) \/ CompleteUnacked(v)
    BY <2>1 DEF WorkerStep, DrainStep, storeVars, StartDrain, OpenLane, ReadBatch,
       WaitBackoff, Attempt, DropLane, CountAttempt, Poison, BatchDone, RenewMidDrain,
       HandlerFails, HandlerPanics, StatementFails, StartWorker, ClaimLanes, StealOne,
       Beat, Leave, CrashWorker, Promote
  <2>2. ASSUME NEW m \in Messages, StoreStep(m) PROVE FALSE
    BY <2>2 DEF StoreStep, Insert, Schedule, Cancel, Land, Abort, Requeue, BackoffElapses
  <2>3. ASSUME NEW l \in Lanes, Expire(l) PROVE FALSE
    BY <2>3 DEF Expire, storeVars
  <2> QED BY <2>1, <2>2, <2>3 DEF MailboxNext
<1>2. HasAuthority(v, pass[v].auth)
  BY <1>1 DEF Complete, CompleteUnacked, MayCommit
<1>3. v = w
  <2>1. CASE Complete(v)
    BY <2>1 DEF Complete, NextRow, MailboxTypeOK
  <2>2. CASE CompleteUnacked(v)
    BY <2>2 DEF CompleteUnacked, Goto, MailboxTypeOK
  <2> QED BY <1>1, <2>1, <2>2
<1> QED BY <1>2, <1>3

\* Whoever commits a delivery holds the newest claim of the lane: a worker
\* whose lane was stolen or re-claimed cannot commit any more, whether or not
\* it has noticed.
THEOREM FenceHolds == MailboxSpec => NewestBeliefCommits
<1> DEFINE Newest ==
      \A w \in Workers : effects' # effects /\ pass'[w] # pass[w] =>
        \A v \in Workers \ {w} : \A b \in lanes[v] :
          b[1] = pass[w].auth[1] => b[2] < pass[w].auth[2]
<1>1. ASSUME MailboxInv, [MailboxNext]_mailboxVars PROVE [Newest]_mailboxVars
  <2> SUFFICES ASSUME MailboxNext, NEW w \in Workers, effects' # effects, pass'[w] # pass[w],
                      NEW v \in Workers \ {w}, NEW b \in lanes[v], b[1] = pass[w].auth[1]
               PROVE  b[2] < pass[w].auth[2]
    BY <1>1
  <2>1. owner[b[1]] = w /\ version[b[1]] = pass[w].auth[2]
    BY <1>1, CommitsAreFenced DEF MailboxInv, HasAuthority
  <2>2. b[2] <= version[b[1]] /\ (b[2] = version[b[1]] => owner[b[1]] = v)
    BY <1>1 DEF MailboxInv, LeaseInv, Beliefs, BeliefIsBehind
  <2>3. b[2] \in Nat /\ version[b[1]] \in Nat
    BY <1>1 DEF MailboxInv, LeaseInv, LeaseTypeOK, Authority
  <2> QED BY <2>1, <2>2, <2>3
<1> QED BY <1>1, MailboxInvariant, PTL DEF MailboxSpec, NewestBeliefCommits

-----------------------------------------------------------------------------
(***************************************************************************)
(* Delivery order and the checkpoint.                                      *)
(*                                                                         *)
(* The argument is about what a batch still knows when its rows are        *)
(* handled, long after the read: whatever has become deliverable below one *)
(* of its rows is in the batch too, or arrived late.                       *)
(***************************************************************************)

\* Every row of a batch is a visible row of the lane the worker works on,
\* and nothing is left of a batch when the worker is between two lanes.
RowsOfLane ==
  \A w \in Workers :
    /\ pass[w].at = "idle" => pass[w].rows = {}
    /\ \A r \in pass[w].rows :
         LaneOf[r.msg] = pass[w].auth[1] /\ status[r.msg] \in Visible

\* A deliverable row below a row of the batch is in the batch, or late.
BatchKnows ==
  \A w \in Workers : \A r \in pass[w].rows : \A m \in Messages :
    /\ LaneOf[m] = LaneOf[r.msg]
    /\ status[m] = "RECEIVED"
    /\ m \notin late
    /\ position[m] < position[r.msg]
    => \E q \in pass[w].rows : q.msg = m

OrderInv == RowsOfLane /\ BatchKnows /\ HeadOfLine /\ CheckpointIsHighWater

-----------------------------------------------------------------------------
(***************************************************************************)
(* What one step does to the rows of the mailbox.                          *)
(***************************************************************************)
\* A worker commits the delivery of the row its batch is at.
Commits ==
  \E w \in Workers : \E r \in pass[w].rows :
    /\ IsHead(w, r)
    /\ status[r.msg] = "RECEIVED"
    /\ Deliver(r.msg, pass[w].auth[1])
    /\ UNCHANGED <<position, late>>

\* No delivery is committed.  A row that becomes deliverable in time is at
\* the end of its lane.
Settles ==
  /\ UNCHANGED checkpoint
  /\ late \subseteq late'
  /\ \A m \in Messages :
       /\ status[m] \in Visible => status'[m] \in Visible /\ position'[m] = position[m]
       /\ status'[m] = "COMPLETED" <=> status[m] = "COMPLETED"
       /\ status'[m] = "RECEIVED" /\ m \notin late' =>
            /\ position'[m] = position[m]
            /\ \/ status[m] = "RECEIVED" /\ m \notin late
               \/ status[m] \notin Visible /\ ~Overtaken(m)

StoreMove == Commits \/ Settles

LEMMA Unmoved ==
  ASSUME UNCHANGED storeVars PROVE StoreMove
  BY DEF storeVars, StoreMove, Settles, Visible

LEMMA EveryStepMovesTheStore ==
  ASSUME MailboxTypeOK, [MailboxNext]_mailboxVars PROVE StoreMove
<1> USE DEF MailboxTypeOK, StoreTypeOK, Visible
<1>1. ASSUME NEW w \in Workers, CountAttempt(w) PROVE StoreMove
  BY <1>1 DEF CountAttempt, StoreMove, Settles
<1>2. ASSUME NEW w \in Workers, Complete(w) PROVE StoreMove
  BY <1>2 DEF Complete, MayCommit, StoreMove, Commits
<1>3. ASSUME NEW w \in Workers, CompleteUnacked(w) PROVE StoreMove
  BY <1>3 DEF CompleteUnacked, MayCommit, StoreMove, Commits
<1>4. ASSUME NEW w \in Workers, Poison(w) PROVE StoreMove
  <2>1. PICK r \in pass[w].rows :
          \/ status[r.msg] = "RECEIVED" /\ status' = [status EXCEPT ![r.msg] = "POISONED"]
          \/ status' = status
    BY <1>4 DEF Poison
  <2>2. r.msg \in Messages
    BY RowMessage
  <2>3. UNCHANGED <<position, checkpoint, late>>
    BY <1>4 DEF Poison
  <2> QED BY <2>1, <2>2, <2>3 DEF StoreMove, Settles
<1>5. ASSUME NEW w \in Workers, NEW m \in Messages, Promote(w, m) PROVE StoreMove
  BY <1>5 DEF Promote, StoreMove, Settles
<1>6. ASSUME NEW m \in Messages, Insert(m) PROVE StoreMove
  BY <1>6 DEF Insert, StoreMove, Settles
<1>7. ASSUME NEW m \in Messages, Schedule(m) PROVE StoreMove
  BY <1>7 DEF Schedule, StoreMove, Settles
<1>8. ASSUME NEW m \in Messages, Cancel(m) PROVE StoreMove
  BY <1>8 DEF Cancel, StoreMove, Settles
<1>9. ASSUME NEW m \in Messages, Land(m) PROVE StoreMove
  <2>1. /\ status[m] \in {"inserting", "promoting"}
        /\ \A k \in Messages : status'[k] = IF k = m THEN "RECEIVED" ELSE status[k]
        /\ UNCHANGED <<position, checkpoint>>
        /\ late' = IF Overtaken(m) THEN late \union {m} ELSE late
    BY <1>9 DEF Land
  <2>2. late \subseteq late' /\ (m \notin late' => ~Overtaken(m))
    BY <2>1
  <2>3. \A k \in Messages : k # m /\ k \notin late' => k \notin late
    BY <2>2
  <2> QED BY <2>1, <2>2, <2>3 DEF StoreMove, Settles
<1>10. ASSUME NEW m \in Messages, Abort(m) PROVE StoreMove
  BY <1>10 DEF Abort, StoreMove, Settles
<1>11. ASSUME NEW m \in Messages, Requeue(m) PROVE StoreMove
  BY <1>11 DEF Requeue, StoreMove, Settles
<1>12. ASSUME NEW m \in Messages, BackoffElapses(m) PROVE StoreMove
  BY <1>12 DEF BackoffElapses, StoreMove, Settles
<1>13. ASSUME UNCHANGED storeVars PROVE StoreMove
  BY <1>13, Unmoved
<1>14. CASE UNCHANGED mailboxVars
  BY <1>14, Unmoved DEF mailboxVars
<1>15. ASSUME NEW w \in Workers, WorkerStep(w) PROVE StoreMove
  BY <1>15, <1>1, <1>2, <1>3, <1>4, <1>5, <1>13
     DEF WorkerStep, DrainStep, StartDrain, OpenLane, ReadBatch, WaitBackoff, Attempt,
         DropLane, BatchDone, RenewMidDrain, HandlerFails, HandlerPanics, StatementFails,
         StartWorker, ClaimLanes, StealOne, Beat, Leave, CrashWorker
<1>16. ASSUME NEW m \in Messages, StoreStep(m) PROVE StoreMove
  BY <1>16, <1>6, <1>7, <1>8, <1>9, <1>10, <1>11, <1>12 DEF StoreStep
<1>17. ASSUME NEW l \in Lanes, Expire(l) PROVE StoreMove
  BY <1>17, <1>13 DEF Expire
<1> QED BY <1>14, <1>15, <1>16, <1>17 DEF MailboxNext

-----------------------------------------------------------------------------
(***************************************************************************)
(* What one step does to the batch of a worker.                            *)
(***************************************************************************)
\* The worker reads a batch.
Reads(v) ==
  /\ UNCHANGED storeVars
  /\ pass'[v].at # "idle"
  /\ pass'[v].auth = pass[v].auth
  /\ \A r \in pass'[v].rows : r.msg \in FirstBatch(Deliverable(pass[v].auth[1]))
  /\ \A m \in FirstBatch(Deliverable(pass[v].auth[1])) : \E q \in pass'[v].rows : q.msg = m

\* It keeps the batch, or all of it but a row that is settled.
Keeps(v) ==
  /\ pass'[v].at # "idle"
  /\ pass'[v].auth = pass[v].auth
  /\ \/ pass'[v].rows = pass[v].rows
     \/ \E r \in pass[v].rows : /\ pass'[v].rows = pass[v].rows \ {r}
                                /\ status'[r.msg] # "RECEIVED"

BatchMove(v) ==
  pass'[v] = pass[v] \/ pass'[v].rows = {} \/ Reads(v) \/ Keeps(v)

LEMMA EveryStepMovesBatches ==
  ASSUME MailboxTypeOK, RowsOfLane, [MailboxNext]_mailboxVars, NEW v \in Workers
  PROVE  BatchMove(v)
<1> USE DEF MailboxTypeOK, BatchMove
<1>1. ASSUME NEW w \in Workers, EndLane(w) PROVE BatchMove(v)
  BY <1>1 DEF EndLane, IdlePass
<1>2. ASSUME NEW w \in Workers, NEW step \in Steps \ {"idle"}, Goto(w, step) PROVE BatchMove(v)
  BY <1>2 DEF Goto, Keeps, Pass
<1>3. ASSUME NEW w \in Workers, NEW r \in pass[w].rows, NextRow(w, r), status'[r.msg] # "RECEIVED"
      PROVE  BatchMove(v)
  BY <1>3 DEF NextRow, Keeps, Pass
<1>4. ASSUME UNCHANGED pass PROVE BatchMove(v)
  BY <1>4
<1>5. ASSUME NEW w \in Workers, StartDrain(w) PROVE BatchMove(v)
  BY <1>5 DEF StartDrain, Resting, RowsOfLane, Pass
<1>6. ASSUME NEW w \in Workers, OpenLane(w) PROVE BatchMove(v)
  BY <1>6 DEF OpenLane, At, RowsOfLane, Pass
<1>7. ASSUME NEW w \in Workers, ReadBatch(w) PROVE BatchMove(v)
  <2> DEFINE got == FirstBatch(Deliverable(pass[w].auth[1]))
             read == {[msg |-> m, wait |-> IF backingOff[m] THEN attempts[m] ELSE 0] : m \in got}
  <2>1. CASE got = {}
    BY <1>7, <2>1, <1>1 DEF ReadBatch
  <2>2. CASE got # {}
    <3>1. pass' = [pass EXCEPT ![w].at = "rows", ![w].rows = read,
                               ![w].full = (Cardinality(got) = Batch)]
      BY <1>7, <2>2 DEF ReadBatch
    <3>2. CASE v # w
      BY <3>1, <3>2
    <3>3. CASE v = w
      <4>1. /\ pass'[v].at = "rows"
            /\ pass'[v].auth = pass[v].auth
            /\ pass'[v].rows = read
        BY <3>1, <3>3 DEF Pass
      <4>2. UNCHANGED storeVars
        BY <1>7 DEF ReadBatch
      <4>3. \A r \in read : r.msg \in got
        <5> HIDE DEF got
        <5> QED OBVIOUS
      <4>4. ASSUME NEW m \in got PROVE \E q \in read : q.msg = m
        <5> HIDE DEF got
        <5> DEFINE q == [msg |-> m, wait |-> IF backingOff[m] THEN attempts[m] ELSE 0]
        <5>1. q \in read /\ q.msg = m
          OBVIOUS
        <5> HIDE DEF q, read
        <5> QED BY <5>1
      <4> QED BY <3>3, <4>1, <4>2, <4>3, <4>4 DEF Reads
    <3> QED BY <3>2, <3>3
  <2> QED BY <2>1, <2>2
<1>8. ASSUME NEW w \in Workers, WaitBackoff(w) PROVE BatchMove(v)
  BY <1>8, <1>1 DEF WaitBackoff
<1>9. ASSUME NEW w \in Workers, Attempt(w) PROVE BatchMove(v)
  BY <1>9, <1>2 DEF Attempt, Steps
<1>10. ASSUME NEW w \in Workers, Complete(w) PROVE BatchMove(v)
  <2>1. PICK r \in pass[w].rows : Deliver(r.msg, pass[w].auth[1]) /\ NextRow(w, r)
    BY <1>10 DEF Complete
  <2>2. status'[r.msg] = "COMPLETED"
    BY <2>1, RowMessage DEF Deliver, StoreTypeOK
  <2> QED BY <2>1, <2>2, <1>3
<1>11. ASSUME NEW w \in Workers, DropLane(w) PROVE BatchMove(v)
  BY <1>11, <1>1 DEF DropLane
<1>12. ASSUME NEW w \in Workers, CountAttempt(w) PROVE BatchMove(v)
  BY <1>12, <1>1, <1>2 DEF CountAttempt, Steps
<1>13. ASSUME NEW w \in Workers, Poison(w) PROVE BatchMove(v)
  <2>1. PICK r \in pass[w].rows :
          IF status[r.msg] = "RECEIVED"
            THEN status' = [status EXCEPT ![r.msg] = "POISONED"] /\ NextRow(w, r)
            ELSE EndLane(w) /\ UNCHANGED status
    BY <1>13 DEF Poison
  <2>2. CASE status[r.msg] = "RECEIVED"
    <3>1. status'[r.msg] = "POISONED"
      BY <2>1, <2>2, RowMessage DEF StoreTypeOK
    <3> QED BY <2>1, <2>2, <3>1, <1>3
  <2>3. CASE status[r.msg] # "RECEIVED"
    BY <2>1, <2>3, <1>1
  <2> QED BY <2>2, <2>3
<1>14. ASSUME NEW w \in Workers, BatchDone(w) PROVE BatchMove(v)
  BY <1>14, <1>1, <1>2 DEF BatchDone, Steps
<1>15. ASSUME NEW w \in Workers, RenewMidDrain(w) PROVE BatchMove(v)
  BY <1>15, <1>1, <1>2 DEF RenewMidDrain, Steps
<1>16. ASSUME NEW w \in Workers, CompleteUnacked(w) PROVE BatchMove(v)
  BY <1>16, <1>2 DEF CompleteUnacked, Steps
<1>17. ASSUME NEW w \in Workers, HandlerFails(w) PROVE BatchMove(v)
  BY <1>17, <1>2 DEF HandlerFails, Steps
<1>18. ASSUME NEW w \in Workers, HandlerPanics(w) PROVE BatchMove(v)
  BY <1>18 DEF HandlerPanics, IdlePass
<1>19. ASSUME NEW w \in Workers, StatementFails(w) PROVE BatchMove(v)
  BY <1>19, <1>1 DEF StatementFails
<1>20. ASSUME NEW w \in Workers, CrashWorker(w) PROVE BatchMove(v)
  BY <1>20 DEF CrashWorker, IdlePass
<1>21. ASSUME NEW w \in Workers, WorkerStep(w) PROVE BatchMove(v)
  BY <1>21, <1>4, <1>5, <1>6, <1>7, <1>8, <1>9, <1>10, <1>11, <1>12, <1>13,
     <1>14, <1>15, <1>16, <1>17, <1>18, <1>19, <1>20
     DEF WorkerStep, DrainStep, StartWorker, ClaimLanes, StealOne, Beat, Leave, Promote
<1>22. ASSUME NEW m \in Messages, StoreStep(m) PROVE BatchMove(v)
  BY <1>22, <1>4 DEF StoreStep, Insert, Schedule, Cancel, Land, Abort, Requeue, BackoffElapses
<1>23. ASSUME NEW l \in Lanes, Expire(l) PROVE BatchMove(v)
  BY <1>23, <1>4 DEF Expire
<1>24. CASE UNCHANGED mailboxVars
  BY <1>24, <1>4 DEF mailboxVars
<1> QED BY <1>21, <1>22, <1>23, <1>24 DEF MailboxNext

-----------------------------------------------------------------------------
(***************************************************************************)
(* The invariant is kept.                                                  *)
(***************************************************************************)
LEMMA VisibleStays ==
  ASSUME MailboxTypeOK, StoreMove, NEW m \in Messages, status[m] \in Visible
  PROVE  status'[m] \in Visible /\ position'[m] = position[m]
<1>1. CASE Settles
  BY <1>1 DEF Settles
<1>2. CASE Commits
  BY <1>2, RowMessage DEF Commits, Deliver, Visible, MailboxTypeOK, StoreTypeOK
<1> QED BY <1>1, <1>2 DEF StoreMove

\* A deliverable row that is not late was so before, or has just come to the
\* end of its lane.
LEMMA NewlyDue ==
  ASSUME MailboxTypeOK, StoreMove, NEW m \in Messages, status'[m] = "RECEIVED", m \notin late'
  PROVE  /\ position'[m] = position[m]
         /\ \/ status[m] = "RECEIVED" /\ m \notin late
            \/ status[m] \notin Visible /\ ~Overtaken(m)
<1>1. CASE Settles
  BY <1>1 DEF Settles
<1>2. CASE Commits
  BY <1>2, RowMessage DEF Commits, Deliver, MailboxTypeOK, StoreTypeOK
<1> QED BY <1>1, <1>2 DEF StoreMove

LEMMA DeliverableIsReceived ==
  ASSUME NEW l, NEW m \in FirstBatch(Deliverable(l))
  PROVE  m \in Messages /\ LaneOf[m] = l /\ status[m] = "RECEIVED"
  BY DEF FirstBatch, Deliverable, InLane

\* The first batch of a lane has no gaps.
LEMMA FirstBatchIsPrefix ==
  ASSUME MailboxTypeOK, NEW l, NEW n \in FirstBatch(Deliverable(l)),
         NEW m \in Deliverable(l), position[m] < position[n]
  PROVE  m \in FirstBatch(Deliverable(l))
<1> DEFINE S == Deliverable(l)
           below(k) == {j \in S : position[j] < position[k]}
<1>1. S \subseteq Messages /\ n \in S
  BY DEF Deliverable, InLane, FirstBatch
<1>2. \A k \in S : position[k] \in Nat
  BY <1>1 DEF MailboxTypeOK, StoreTypeOK
<1>3. below(m) \subseteq below(n) /\ below(n) \subseteq Messages
  BY <1>1, <1>2
<1>4. IsFiniteSet(below(n))
  BY <1>3, FS_Subset, MailboxAssumption
<1>5. /\ Cardinality(below(m)) \in Nat
      /\ Cardinality(below(n)) \in Nat
      /\ Cardinality(below(m)) <= Cardinality(below(n))
  BY <1>3, <1>4, FS_Subset, FS_CardinalityType
<1>6. Cardinality(below(n)) < Batch
  BY DEF FirstBatch
<1>7. Cardinality(below(m)) < Batch
  BY <1>5, <1>6, MailboxAssumption
<1> QED BY <1>7 DEF FirstBatch

LEMMA RowsOfLaneStep ==
  ASSUME MailboxTypeOK, RowsOfLane, StoreMove, \A v \in Workers : BatchMove(v)
  PROVE  RowsOfLane'
<1> SUFFICES ASSUME NEW w \in Workers
             PROVE  /\ pass'[w].at = "idle" => pass'[w].rows = {}
                    /\ \A r \in pass'[w].rows :
                         LaneOf[r.msg] = pass'[w].auth[1] /\ status'[r.msg] \in Visible
  BY DEF RowsOfLane, Visible
<1>1. CASE pass'[w] = pass[w]
  BY <1>1, VisibleStays, RowMessage DEF RowsOfLane
<1>2. CASE pass'[w].rows = {}
  BY <1>2
<1>3. CASE Reads(w)
  BY <1>3, DeliverableIsReceived DEF Reads, storeVars, Visible
<1>4. CASE Keeps(w)
  BY <1>4, VisibleStays, RowMessage DEF Keeps, RowsOfLane
<1> QED BY <1>1, <1>2, <1>3, <1>4 DEF BatchMove

LEMMA BatchKnowsStep ==
  ASSUME MailboxTypeOK, MailboxTypeOK', RowsOfLane, BatchKnows, StoreMove,
         \A v \in Workers : BatchMove(v)
  PROVE  BatchKnows'
<1> SUFFICES ASSUME NEW w \in Workers, NEW r \in pass'[w].rows, NEW m \in Messages,
                    LaneOf[m] = LaneOf[r.msg], status'[m] = "RECEIVED", m \notin late',
                    position'[m] < position'[r.msg]
             PROVE  \E q \in pass'[w].rows : q.msg = m
  BY DEF BatchKnows
\* A row the batch already had.
<1>1. ASSUME r \in pass[w].rows PROVE \E q \in pass[w].rows : q.msg = m
  <2>1. r.msg \in Messages /\ status[r.msg] \in Visible
    BY <1>1, RowMessage DEF RowsOfLane
  <2>2. position'[r.msg] = position[r.msg] /\ position'[m] = position[m]
    BY <2>1, VisibleStays, NewlyDue
  <2>3. position[m] < position[r.msg]
    BY <2>2
  <2>4. Overtaken(m)
    BY <2>1, <2>3 DEF Overtaken, InLane, MailboxTypeOK, StoreTypeOK
  <2>5. status[m] = "RECEIVED" /\ m \notin late
    BY <2>4, NewlyDue
  <2> QED BY <1>1, <2>3, <2>5 DEF BatchKnows
<1>2. CASE pass'[w] = pass[w]
  BY <1>1, <1>2
<1>3. CASE pass'[w].rows = {}
  BY <1>3
<1>4. CASE Reads(w)
  <2> DEFINE l == pass[w].auth[1]
  <2>1. r.msg \in FirstBatch(Deliverable(l)) /\ UNCHANGED storeVars
    BY <1>4 DEF Reads
  <2>2. LaneOf[r.msg] = l
    BY <2>1, DeliverableIsReceived
  <2>3. m \in Deliverable(l) /\ position[m] < position[r.msg]
    BY <2>1, <2>2 DEF storeVars, Deliverable, InLane
  <2>4. m \in FirstBatch(Deliverable(l))
    BY <2>1, <2>3, FirstBatchIsPrefix
  <2> QED BY <1>4, <2>4 DEF Reads
<1>5. CASE Keeps(w)
  <2>1. r \in pass[w].rows
    BY <1>5 DEF Keeps
  <2>2. PICK q \in pass[w].rows : q.msg = m
    BY <1>1, <2>1
  <2>3. q \in pass'[w].rows
    BY <1>5, <2>2 DEF Keeps
  <2> QED BY <2>2, <2>3
<1> QED BY <1>2, <1>3, <1>4, <1>5 DEF BatchMove

LEMMA HeadOfLineStep ==
  ASSUME MailboxTypeOK, MailboxTypeOK', RowsOfLane, BatchKnows, HeadOfLine, StoreMove
  PROVE  HeadOfLine'
<1> SUFFICES ASSUME NEW m \in Messages, NEW n \in Messages, LaneOf[m] = LaneOf[n],
                    position'[m] < position'[n], status'[m] = "RECEIVED",
                    status'[n] = "COMPLETED", m \notin late'
             PROVE  FALSE
  BY DEF HeadOfLine
<1> USE DEF MailboxTypeOK, StoreTypeOK
<1>1. ASSUME status[n] = "COMPLETED" PROVE FALSE
  <2>1. position[m] < position[n]
    BY <1>1, VisibleStays, NewlyDue DEF Visible
  <2>2. Overtaken(m)
    BY <1>1, <2>1 DEF Overtaken, InLane, Visible
  <2>3. status[m] = "RECEIVED" /\ m \notin late
    BY <2>2, NewlyDue
  <2> QED BY <1>1, <2>1, <2>3 DEF HeadOfLine
<1>2. CASE Settles
  BY <1>1, <1>2 DEF Settles
<1>3. CASE Commits
  <2>0. PICK w \in Workers : \E r \in pass[w].rows :
          /\ IsHead(w, r)
          /\ status[r.msg] = "RECEIVED"
          /\ status' = [status EXCEPT ![r.msg] = "COMPLETED"]
          /\ UNCHANGED <<position, late>>
    BY <1>3 DEF Commits, Deliver
  <2>1. PICK r \in pass[w].rows :
          /\ IsHead(w, r)
          /\ status[r.msg] = "RECEIVED"
          /\ status' = [status EXCEPT ![r.msg] = "COMPLETED"]
          /\ UNCHANGED <<position, late>>
    BY <2>0
  <2>2. r.msg \in Messages
    BY RowMessage
  <2>3. r.msg = n
    BY <1>1, <2>1, <2>2
  <2>4. status[m] = "RECEIVED" /\ m \notin late
    BY <2>1, <2>2
  <2>5. PICK q \in pass[w].rows : q.msg = m
    BY <2>1, <2>3, <2>4 DEF BatchKnows
  <2>6. position[n] <= position[m]
    BY <2>1, <2>3, <2>5 DEF IsHead
  <2> QED BY <2>1, <2>6
<1> QED BY <1>2, <1>3 DEF StoreMove

LEMMA HighWaterStep ==
  ASSUME MailboxTypeOK, MailboxTypeOK', RowsOfLane, CheckpointIsHighWater, StoreMove
  PROVE  CheckpointIsHighWater'
<1> DEFINE done(l) == {position[m] : m \in {k \in InLane(l) : status[k] = "COMPLETED"}}
           next(l) == {position'[m] : m \in {k \in InLane(l) : status'[k] = "COMPLETED"}}
<1> SUFFICES ASSUME NEW l \in Lanes
             PROVE  /\ \A p \in next(l) : p <= checkpoint'[l]
                    /\ checkpoint'[l] \in next(l) \union {0}
  BY DEF CheckpointIsHighWater, InLane
<1>1. /\ \A p \in done(l) : p <= checkpoint[l]
      /\ checkpoint[l] \in done(l) \union {0}
  BY DEF CheckpointIsHighWater
<1> USE DEF MailboxTypeOK, StoreTypeOK
<1>2. CASE Settles
  <2>1. next(l) = done(l)
    BY <1>2 DEF Settles, Visible, InLane
  <2> QED BY <1>1, <1>2, <2>1 DEF Settles
<1>3. CASE Commits
  <2>0. PICK w \in Workers : \E r \in pass[w].rows :
          /\ status[r.msg] = "RECEIVED"
          /\ Deliver(r.msg, pass[w].auth[1])
          /\ UNCHANGED <<position, late>>
    BY <1>3 DEF Commits
  <2>1. PICK r \in pass[w].rows :
          /\ status[r.msg] = "RECEIVED"
          /\ Deliver(r.msg, pass[w].auth[1])
          /\ UNCHANGED <<position, late>>
    BY <2>0
  <2> DEFINE n == r.msg
             c == checkpoint[LaneOf[n]]
  <2>2. n \in Messages /\ LaneOf[n] = pass[w].auth[1] /\ LaneOf[n] \in Lanes
    BY RowMessage, MailboxAssumption DEF RowsOfLane
  <2>3. /\ \A k \in Messages : status'[k] = IF k = n THEN "COMPLETED" ELSE status[k]
        /\ \A k \in Lanes : checkpoint'[k] =
             IF k = LaneOf[n] /\ position[n] > c THEN position[n] ELSE checkpoint[k]
    BY <2>1, <2>2 DEF Deliver
  <2>4. next(l) = IF l = LaneOf[n] THEN done(l) \union {position[n]} ELSE done(l)
    <3>1. {k \in InLane(l) : status'[k] = "COMPLETED"} =
            {k \in InLane(l) : status[k] = "COMPLETED"} \union {k \in InLane(l) : k = n}
      BY <2>2, <2>3 DEF InLane
    <3>2. {k \in InLane(l) : k = n} = IF l = LaneOf[n] THEN {n} ELSE {}
      BY <2>2 DEF InLane
    <3>3. \A S \in SUBSET Messages :
            /\ {position'[m] : m \in S \union {n}} = {position[m] : m \in S} \union {position[n]}
            /\ {position'[m] : m \in S \union {}} = {position[m] : m \in S}
      BY <2>1
    <3> DEFINE S == {k \in InLane(l) : status[k] = "COMPLETED"}
    <3>4. S \in SUBSET Messages
      BY DEF InLane
    <3>5. next(l) = {position'[m] : m \in S \union (IF l = LaneOf[n] THEN {n} ELSE {})}
      BY <3>1, <3>2
    <3> HIDE DEF S
    <3>6. {position'[m] : m \in S \union (IF l = LaneOf[n] THEN {n} ELSE {})} =
            IF l = LaneOf[n] THEN {position[m] : m \in S} \union {position[n]}
                             ELSE {position[m] : m \in S}
      BY <3>3, <3>4
    <3> QED BY <3>5, <3>6 DEF S
  <2>5. checkpoint[l] \in Nat /\ position[n] \in Nat
    BY <2>2
  <2>6. CASE l # LaneOf[n]
    BY <1>1, <2>3, <2>4, <2>6
  <2>7. CASE l = LaneOf[n] /\ position[n] > c
    <3>1. \A p \in done(l) : p \in Nat
      BY DEF InLane
    <3>2. checkpoint'[l] = position[n]
      BY <2>3, <2>7
    <3>3. next(l) = done(l) \union {position[n]}
      BY <2>4, <2>7
    <3>4. \A p \in done(l) : p <= position[n]
      <4> HIDE DEF done
      <4> QED BY <1>1, <2>5, <2>7, <3>1
    <3> HIDE DEF done, next
    <3> QED BY <2>5, <3>2, <3>3, <3>4
  <2>8. CASE l = LaneOf[n] /\ ~(position[n] > c)
    BY <1>1, <2>3, <2>4, <2>5, <2>8
  <2> QED BY <2>6, <2>7, <2>8
<1> QED BY <1>2, <1>3 DEF StoreMove

LEMMA OrderInitInv == ASSUME MailboxInit PROVE OrderInv
  BY MailboxAssumption DEF MailboxInit, OrderInv, RowsOfLane, BatchKnows, HeadOfLine,
     CheckpointIsHighWater, IdlePass, InLane

\* The inductive invariant of the mailbox's order.
THEOREM OrderInvariant == MailboxSpec => []OrderInv
<1>1. MailboxInit => OrderInv
  BY OrderInitInv
<1>2. MailboxInv /\ MailboxInv' /\ OrderInv /\ [MailboxNext]_mailboxVars => OrderInv'
  <2> SUFFICES ASSUME MailboxTypeOK, MailboxTypeOK', OrderInv, [MailboxNext]_mailboxVars
               PROVE  OrderInv'
    BY DEF MailboxInv
  <2>1. StoreMove
    BY EveryStepMovesTheStore
  <2>2. \A v \in Workers : BatchMove(v)
    BY EveryStepMovesBatches DEF OrderInv
  <2> QED BY <2>1, <2>2, RowsOfLaneStep, BatchKnowsStep, HeadOfLineStep, HighWaterStep
          DEF OrderInv
<1> QED BY <1>1, <1>2, MailboxInvariant, PTL DEF MailboxSpec

\* Rows are delivered in position order, save those that became deliverable
\* late: the head-of-line read of drain_lane, whatever is stolen, retried,
\* poisoned or requeued between the read and the commit.
THEOREM DeliveredInOrder == MailboxSpec => []HeadOfLine
  BY OrderInvariant, PTL DEF OrderInv

\* The checkpoint of a lane is the highest position delivered in it, although
\* rows are delivered out of position order when they land late.
THEOREM CheckpointHolds == MailboxSpec => []CheckpointIsHighWater
  BY OrderInvariant, PTL DEF OrderInv
=============================================================================
