------------------------------ MODULE Mailbox ------------------------------
(***************************************************************************)
(* The mailbox `inbound_messages` and the workers that drain it            *)
(* (crates/actor_runtime/src/worker.rs, completion.rs, schedule.rs and     *)
(* crates/infrastructure/src/persistence/mailbox_store.rs,                 *)
(* mailbox_lanes.rs), on top of the lane registry of module Lease.         *)
(*                                                                         *)
(* Accepting writes a row; a worker reads a batch of the rows of a lane it *)
(* believes it owns, runs the handler and commits the handler's effects,   *)
(* the row's terminal status and the lane's checkpoint in one fenced       *)
(* transaction; a delivery that keeps failing is poisoned and may be       *)
(* requeued by an operator.  Between any two statements of a worker, every *)
(* other worker, a sender, an operator, a crash or the clock may move.     *)
(*                                                                         *)
(* A row's payload, headers and error text are left out.  COMPLETED stands *)
(* for every verdict a handler commits; POISONED is FAILED with the code   *)
(* DeliveryInfrastructureError.                                            *)
(***************************************************************************)
EXTENDS Lease

CONSTANTS
  Commands,     \* messages written by insert()
  Reminders,    \* messages written by schedule()
  Undecodable,  \* messages InboundMessage::decode refuses
  LaneOf,       \* the lane of each message, stamped at INSERT
  Cap,          \* WorkerConfig.max_delivery_attempts; 0 = no cap
  Batch         \* WorkerConfig.batch

Messages == Commands \union Reminders

ASSUME MailboxAssumption ==
  /\ IsFiniteSet(Messages)
  /\ Commands \intersect Reminders = {}
  /\ Undecodable \subseteq Messages
  /\ LaneOf \in [Messages -> Lanes]
  /\ Cap \in Nat
  /\ Batch \in Nat \ {0}

VARIABLES
  status,        \* "absent", the row's status, or what an open transaction does
  position,      \* the row's position; 0 while it has none
  lastPosition,  \* last value drawn from inbound_messages_position_seq
  attempts,      \* attempts of the row
  backingOff,    \* next_attempt_at is in the future
  checkpoint,    \* mailbox_partitions.checkpoint of each lane
  effects,       \* history: how often the handler's effects were committed
  late,          \* history: rows that became deliverable below a visible one
  pass           \* per worker: where its drain stands

storeVars == <<status, position, lastPosition, attempts, backingOff,
               checkpoint, effects, late>>
mailboxVars == <<leaseVars, storeVars, pass>>

Statuses == {"absent", "inserting", "SCHEDULED", "promoting", "CANCELLED",
             "RECEIVED", "COMPLETED", "POISONED"}
\* Rows with a position that other transactions can see.
Visible == {"RECEIVED", "COMPLETED", "POISONED"}

\* A row as the drain read it: wait is its attempt count if its backoff was
\* still running then, and 0 if it was deliverable.
Row == [msg : Messages, wait : Nat]

NoAuthority == <<0, 0>>
IdlePass == [at |-> "idle", todo |-> {}, auth |-> NoAuthority, rows |-> {},
             full |-> FALSE]

Steps == {"idle", "read", "rows", "handle", "failed", "capped", "renew"}
Pass == [at : Steps, todo : SUBSET Authority, auth : Authority,
         rows : SUBSET Row, full : BOOLEAN]

StoreTypeOK ==
  /\ status \in [Messages -> Statuses]
  /\ position \in [Messages -> Nat]
  /\ lastPosition \in Nat
  /\ attempts \in [Messages -> Nat]
  /\ backingOff \in [Messages -> BOOLEAN]
  /\ checkpoint \in [Lanes -> Nat]
  /\ effects \in [Messages -> Nat]
  /\ late \in SUBSET Messages

MailboxTypeOK == LeaseTypeOK /\ StoreTypeOK /\ pass \in [Workers -> Pass]

MailboxInit ==
  /\ LeaseInit
  /\ status = [m \in Messages |-> "absent"]
  /\ position = [m \in Messages |-> 0]
  /\ lastPosition = 0
  /\ attempts = [m \in Messages |-> 0]
  /\ backingOff = [m \in Messages |-> FALSE]
  /\ checkpoint = [l \in Lanes |-> 0]
  /\ effects = [m \in Messages |-> 0]
  /\ late = {}
  /\ pass = [w \in Workers |-> IdlePass]

(***************************************************************************)
(* Helpers.                                                                *)
(***************************************************************************)
\* The rows of a lane.
InLane(l) == {m \in Messages : LaneOf[m] = l}

\* Mutation: the drain also filters on position > checkpoint.
DeliverableAbove(l) ==
  {m \in InLane(l) : status[m] = "RECEIVED" /\ position[m] > checkpoint[l]}

\* status = 'RECEIVED' alone.
Deliverable(l) == {m \in InLane(l) : status[m] = "RECEIVED"}

\* ORDER BY position LIMIT batch.
FirstBatch(S) ==
  {m \in S : Cardinality({k \in S : position[k] < position[m]}) < Batch}

\* Position k drawn for a row of m's lane was overtaken before it could be seen.
Overtaken(m) ==
  \E k \in InLane(LaneOf[m]) : status[k] \in Visible /\ position[k] > position[m]

\* The loop of worker w is between two passes: full_pass and the nudge pass
\* claim, steal, promote and beat only there.
Resting(w) == life[w] = "up" /\ pass[w].at = "idle" /\ pass[w].todo = {}

At(w, step) == life[w] = "up" /\ pass[w].at = step

Goto(w, step) == pass' = [pass EXCEPT ![w].at = step]

\* drain_lane returns; the drain goes on with the lanes it still has to do.
EndLane(w) == pass' = [pass EXCEPT ![w] = [IdlePass EXCEPT !.todo = pass[w].todo]]

\* Mutation: any row of the batch.
IsAnyRow(w, r) == r \in pass[w].rows

\* The row being looked at: the lowest position of those left of the batch.
IsHead(w, r) ==
  /\ r \in pass[w].rows
  /\ \A q \in pass[w].rows : position[r.msg] <= position[q.msg]

\* `continue`: on to the next row of the batch.
NextRow(w, r) ==
  pass' = [pass EXCEPT ![w].at = "rows", ![w].rows = @ \ {r}]

(***************************************************************************)
(* Accepting: senders, reminders and the promotion pass.  A position is    *)
(* drawn when the statement runs and seen when its transaction commits, so *)
(* rows do not become visible in position order.                           *)
(***************************************************************************)
\* insert / insert_many, ON CONFLICT (message_id) DO NOTHING: a message id
\* that is already there, or that another transaction is inserting, adds
\* nothing.
Insert(m) ==
  /\ m \in Commands
  /\ status[m] = "absent"
  /\ lastPosition' = lastPosition + 1
  /\ status' = [status EXCEPT ![m] = "inserting"]
  /\ position' = [position EXCEPT ![m] = lastPosition + 1]
  /\ UNCHANGED <<leaseVars, attempts, backingOff, checkpoint, effects, late, pass>>

\* schedule() of a new reminder; over an existing row it moves at most the
\* due time, which is not modelled.
Schedule(m) ==
  /\ m \in Reminders
  /\ status[m] = "absent"
  /\ status' = [status EXCEPT ![m] = "SCHEDULED"]
  /\ UNCHANGED <<leaseVars, position, lastPosition, attempts, backingOff,
                 checkpoint, effects, late, pass>>

\* cancel_scheduled: WHERE status = 'SCHEDULED'; it waits for the row lock
\* of a promotion and then matches nothing.
Cancel(m) ==
  /\ status[m] = "SCHEDULED"
  /\ status' = [status EXCEPT ![m] = "CANCELLED"]
  /\ UNCHANGED <<leaseVars, position, lastPosition, attempts, backingOff,
                 checkpoint, effects, late, pass>>

\* promote_due of one due reminder, by any worker, with or without a lease.
\* A reminder may be due as soon as it is scheduled.
Promote(w, m) ==
  /\ Resting(w)
  /\ status[m] = "SCHEDULED"
  /\ lastPosition' = lastPosition + 1
  /\ status' = [status EXCEPT ![m] = "promoting"]
  /\ position' = [position EXCEPT ![m] = lastPosition + 1]
  /\ UNCHANGED <<leaseVars, attempts, backingOff, checkpoint, effects, late, pass>>

\* The insert or the promotion commits.
Land(m) ==
  /\ status[m] \in {"inserting", "promoting"}
  /\ status' = [status EXCEPT ![m] = "RECEIVED"]
  /\ late' = IF Overtaken(m) THEN late \union {m} ELSE late
  /\ UNCHANGED <<leaseVars, position, lastPosition, attempts, backingOff,
                 checkpoint, effects, pass>>

\* It rolls back: the position is burnt.
Abort(m) ==
  /\ status[m] \in {"inserting", "promoting"}
  /\ Disturb
  /\ status' = [status EXCEPT ![m] = IF m \in Commands THEN "absent" ELSE "SCHEDULED"]
  /\ position' = [position EXCEPT ![m] = 0]
  /\ UNCHANGED <<owner, lease, version, lanes, warm, life, lastPosition,
                 attempts, backingOff, checkpoint, effects, late, pass>>

(***************************************************************************)
(* The drain of one worker.                                                *)
(***************************************************************************)
\* drain: the believed lanes that have work.
StartDrain(w) ==
  LET work == {a \in lanes[w] : Deliverable(a[1]) # {}} IN
  /\ Resting(w)
  /\ work # {}
  /\ pass' = [pass EXCEPT ![w].todo = work]
  /\ UNCHANGED <<leaseVars, storeVars>>

\* drain_lane of the next of them; their order is left open.
OpenLane(w) ==
  /\ At(w, "idle")
  /\ \E a \in pass[w].todo :
       pass' = [pass EXCEPT ![w].at = "read", ![w].todo = @ \ {a}, ![w].auth = a]
  /\ UNCHANGED <<leaseVars, storeVars>>

\* The head-of-line read: RECEIVED alone, never position > checkpoint.
ReadBatch(w) ==
  LET got == FirstBatch(Deliverable(pass[w].auth[1])) IN
  /\ At(w, "read")
  /\ IF got = {}
       THEN EndLane(w)
       ELSE pass' = [pass EXCEPT
              ![w].at = "rows",
              ![w].rows = {[msg |-> m, wait |-> IF backingOff[m] THEN attempts[m] ELSE 0]
                             : m \in got},
              ![w].full = (Cardinality(got) = Batch)]
  /\ UNCHANGED <<leaseVars, storeVars>>

\* next_attempt_at of the row as it was read is still in the future: the
\* whole lane waits.  If attempts moved meanwhile, that time may be over.
WaitBackoff(w) ==
  /\ At(w, "rows")
  /\ \E r \in pass[w].rows :
       /\ IsHead(w, r)
       /\ r.wait # 0
       /\ backingOff[r.msg] \/ attempts[r.msg] # r.wait
  /\ EndLane(w)
  /\ UNCHANGED <<leaseVars, storeVars>>

\* The row may be attempted.  The handler's prepare fills the activation
\* cache; a row that does not decode fails at once.
Attempt(w) ==
  /\ At(w, "rows")
  /\ \E r \in pass[w].rows :
       /\ IsHead(w, r)
       /\ r.wait = 0 \/ ~backingOff[r.msg] \/ attempts[r.msg] # r.wait
       /\ IF r.msg \in Undecodable
            THEN Goto(w, "failed") /\ UNCHANGED warm
            ELSE /\ Goto(w, "handle")
                 /\ warm' = [warm EXCEPT ![w] = @ \union {pass[w].auth[1]}]
  /\ UNCHANGED <<owner, lease, version, lanes, life, churn, storeVars>>

\* Mutation: the checkpoint is set, not raised.
DeliverPlainly(m, l) ==
  /\ status' = [status EXCEPT ![m] = "COMPLETED"]
  /\ effects' = [effects EXCEPT ![m] = @ + 1]
  /\ checkpoint' = [checkpoint EXCEPT ![l] = position[m]]

\* What the completion transaction writes.
Deliver(m, l) ==
  /\ status' = [status EXCEPT ![m] = "COMPLETED"]
  /\ effects' = [effects EXCEPT ![m] = @ + 1]
  /\ checkpoint' = [checkpoint EXCEPT ![l] = IF position[m] > @ THEN position[m] ELSE @]

\* Mutation: the fence of complete_fenced is missing.
MayCommitUnfenced(w, m) == status[m] = "RECEIVED"

\* Both guards of complete_fenced: the row is still RECEIVED, and the
\* worker's authority is the registry's.
MayCommit(w, m) == status[m] = "RECEIVED" /\ HasAuthority(w, pass[w].auth)

Complete(w) ==
  /\ At(w, "handle")
  /\ \E r \in pass[w].rows :
       /\ IsHead(w, r)
       /\ MayCommit(w, r.msg)
       /\ Deliver(r.msg, pass[w].auth[1])
       /\ NextRow(w, r)
  /\ UNCHANGED <<leaseVars, position, lastPosition, attempts, backingOff, late>>

\* The commit took effect but its answer was lost: a database error for the
\* worker.
CompleteUnacked(w) ==
  /\ At(w, "handle")
  /\ Disturb
  /\ \E r \in pass[w].rows :
       /\ IsHead(w, r)
       /\ MayCommit(w, r.msg)
       /\ Deliver(r.msg, pass[w].auth[1])
  /\ Goto(w, "failed")
  /\ UNCHANGED <<owner, lease, version, lanes, warm, life, position,
                 lastPosition, attempts, backingOff, late>>

\* AlreadyCompleted or FencedOut: everything rolls back, and the worker
\* drops exactly this authority.
DropLane(w) ==
  /\ At(w, "handle")
  /\ \E r \in pass[w].rows : IsHead(w, r) /\ ~MayCommit(w, r.msg)
  /\ Forget(w, pass[w].auth)
  /\ EndLane(w)
  /\ UNCHANGED <<owner, lease, version, life, churn, storeVars>>

\* prepare, handle or a statement of the transaction fails: it rolls back.
HandlerFails(w) ==
  /\ At(w, "handle")
  /\ Disturb
  /\ Goto(w, "failed")
  /\ UNCHANGED <<owner, lease, version, lanes, warm, life, storeVars>>

\* A panic unwinds run(); the supervisor starts the same worker again, its
\* lanes intact, and nothing is recorded on the row.
HandlerPanics(w) ==
  /\ At(w, "handle")
  /\ Disturb
  /\ pass' = [pass EXCEPT ![w] = IdlePass]
  /\ UNCHANGED <<owner, lease, version, lanes, warm, life, storeVars>>

\* poison_raw, first statement: count the attempt if the row is still
\* RECEIVED.  At the cap the flip follows; below it, or if the row is gone,
\* the lane's pass ends.
CountAttempt(w) ==
  /\ At(w, "failed")
  /\ \E r \in pass[w].rows :
       /\ IsHead(w, r)
       /\ IF status[r.msg] = "RECEIVED"
            THEN /\ attempts' = [attempts EXCEPT ![r.msg] = @ + 1]
                 /\ backingOff' = [backingOff EXCEPT ![r.msg] = TRUE]
                 /\ IF Cap > 0 /\ attempts[r.msg] + 1 >= Cap
                      THEN Goto(w, "capped")
                      ELSE EndLane(w)
            ELSE EndLane(w) /\ UNCHANGED <<attempts, backingOff>>
  /\ UNCHANGED <<leaseVars, status, position, lastPosition, checkpoint, effects, late>>

\* poison_raw, second statement: flip the row if it is still RECEIVED, and
\* drain past it.
Poison(w) ==
  /\ At(w, "capped")
  /\ \E r \in pass[w].rows :
       /\ IsHead(w, r)
       /\ IF status[r.msg] = "RECEIVED"
            THEN status' = [status EXCEPT ![r.msg] = "POISONED"] /\ NextRow(w, r)
            ELSE EndLane(w) /\ UNCHANGED status
  /\ UNCHANGED <<leaseVars, position, lastPosition, attempts, backingOff,
                 checkpoint, effects, late>>

\* The batch is done: a short one ends the lane, a full one renews the lease
\* and reads again.
BatchDone(w) ==
  /\ At(w, "rows")
  /\ pass[w].rows = {}
  /\ IF pass[w].full THEN Goto(w, "renew") ELSE EndLane(w)
  /\ UNCHANGED <<leaseVars, storeVars>>

RenewMidDrain(w) ==
  /\ At(w, "renew")
  /\ IF HasAuthority(w, pass[w].auth)
       THEN /\ lease' = [lease EXCEPT ![pass[w].auth[1]] = "live"]
            /\ Goto(w, "read")
            /\ UNCHANGED <<lanes, warm>>
       ELSE /\ Forget(w, pass[w].auth)
            /\ EndLane(w)
            /\ UNCHANGED lease
  /\ UNCHANGED <<owner, version, life, churn, storeVars>>

\* A read, bookkeeping or renewal statement fails: the lane's pass ends.
StatementFails(w) ==
  /\ life[w] = "up"
  /\ pass[w].at \in {"read", "failed", "capped", "renew"}
  /\ Disturb
  /\ EndLane(w)
  /\ UNCHANGED <<owner, lease, version, lanes, warm, life, storeVars>>

(***************************************************************************)
(* The operator, the clock, and the registry moves between passes.         *)
(***************************************************************************)

\* Mutation: the error code is not part of the predicate, so a row the
\* handler has settled is requeued.
RequeueAnyFailed(m) ==
  /\ status[m] \in {"POISONED", "COMPLETED"}
  /\ Disturb
  /\ status' = [status EXCEPT ![m] = "RECEIVED"]
  /\ attempts' = [attempts EXCEPT ![m] = 0]
  /\ backingOff' = [backingOff EXCEPT ![m] = FALSE]
  /\ late' = late \union {m}
  /\ UNCHANGED <<owner, lease, version, lanes, warm, life, position,
                 lastPosition, checkpoint, effects, pass>>

\* requeue_if_poisoned.
Requeue(m) ==
  /\ status[m] = "POISONED"
  /\ Disturb
  /\ status' = [status EXCEPT ![m] = "RECEIVED"]
  /\ attempts' = [attempts EXCEPT ![m] = 0]
  /\ backingOff' = [backingOff EXCEPT ![m] = FALSE]
  /\ late' = late \union {m}
  /\ UNCHANGED <<owner, lease, version, lanes, warm, life, position,
                 lastPosition, checkpoint, effects, pass>>

BackoffElapses(m) ==
  /\ backingOff[m]
  /\ backingOff' = [backingOff EXCEPT ![m] = FALSE]
  /\ UNCHANGED <<leaseVars, status, position, lastPosition, attempts,
                 checkpoint, effects, late, pass>>

StartWorker(w) == Start(w) /\ UNCHANGED <<storeVars, pass>>
ClaimLanes(w) == Resting(w) /\ (Claim(w) \/ ClaimUnacked(w)) /\ UNCHANGED <<storeVars, pass>>
StealOne(w) ==
  /\ Resting(w)
  /\ Disturb
  /\ \E l \in Lanes : StealLane(w, l)
  /\ UNCHANGED <<storeVars, pass>>
Beat(w) ==
  /\ Resting(w)
  /\ BeatFails(w) \/ \E a \in lanes[w] : Renew(w, a)
  /\ UNCHANGED <<storeVars, pass>>
Leave(w) == Resting(w) /\ Shutdown(w) /\ UNCHANGED <<storeVars, pass>>
CrashWorker(w) == Crash(w) /\ pass' = [pass EXCEPT ![w] = IdlePass] /\ UNCHANGED storeVars
Expire(l) == LeaseExpires(l) /\ UNCHANGED <<storeVars, pass>>

-----------------------------------------------------------------------------
DrainStep(w) ==
  \/ StartDrain(w) \/ OpenLane(w) \/ ReadBatch(w) \/ WaitBackoff(w) \/ Attempt(w)
  \/ Complete(w) \/ DropLane(w) \/ CountAttempt(w) \/ Poison(w) \/ BatchDone(w)
  \/ RenewMidDrain(w)

WorkerStep(w) ==
  \/ DrainStep(w)
  \/ CompleteUnacked(w) \/ HandlerFails(w) \/ HandlerPanics(w) \/ StatementFails(w)
  \/ StartWorker(w) \/ ClaimLanes(w) \/ StealOne(w) \/ Beat(w) \/ Leave(w) \/ CrashWorker(w)
  \/ \E m \in Messages : Promote(w, m)

StoreStep(m) ==
  Insert(m) \/ Schedule(m) \/ Cancel(m) \/ Land(m) \/ Abort(m) \/ Requeue(m) \/ BackoffElapses(m)

MailboxNext ==
  \/ \E w \in Workers : WorkerStep(w)
  \/ \E m \in Messages : StoreStep(m)
  \/ \E l \in Lanes : Expire(l)

\* Every process starts; an open transaction ends; the worker loop makes its
\* passes and a pass its steps; backoffs run out; a lease nobody renews runs
\* out.  Senders, operators and failures are under no obligation.
MailboxFairness ==
  /\ \A w \in Workers :
       /\ WF_mailboxVars(StartWorker(w))
       /\ WF_mailboxVars(ClaimLanes(w))
       /\ WF_mailboxVars(DrainStep(w))
       /\ WF_mailboxVars(\E m \in Messages : Promote(w, m))
  /\ \A m \in Messages : WF_mailboxVars(Land(m)) /\ WF_mailboxVars(BackoffElapses(m))
  /\ \A l \in Lanes : WF_mailboxVars(Expire(l) /\ ~Held(l))

MailboxSpec == MailboxInit /\ [][MailboxNext]_mailboxVars
LiveMailboxSpec == MailboxSpec /\ MailboxFairness

-----------------------------------------------------------------------------
(***************************************************************************)
(* Safety.                                                                 *)
(***************************************************************************)
\* "dual BELIEF is tolerated because dual AUTHORITY is impossible"
\* (completion.rs): the handler's effects are committed at most once, and
\* the row says COMPLETED exactly when they were, whatever was retried,
\* stolen, poisoned, requeued or lost on the way.
ExactlyOnce ==
  \A m \in Messages :
    /\ effects[m] <= 1
    /\ status[m] = "COMPLETED" <=> effects[m] = 1

\* "head-of-line means never skipping past an undelivered row" (worker.rs,
\* drain_lane): a row waits behind a completed one of its lane only if it
\* became deliverable late, below a position others could already see.
HeadOfLine ==
  \A m, n \in Messages :
    /\ LaneOf[m] = LaneOf[n]
    /\ position[m] < position[n]
    /\ status[m] = "RECEIVED"
    /\ status[n] = "COMPLETED"
    => m \in late

\* The checkpoint is a monotonic high-water mark (worker.rs, drain_lane):
\* the highest completed position, although rows complete out of position
\* order when they land late.
CheckpointIsHighWater ==
  \A l \in Lanes :
    LET done == {position[m] : m \in {k \in InLane(l) : status[k] = "COMPLETED"}}
    IN  /\ \A p \in done : p <= checkpoint[l]
        /\ checkpoint[l] \in done \union {0}

\* The fence (completion.rs): the worker that commits a delivery is the one
\* with the newest claim of the lane; no other running worker believes in a
\* later one.
NewestBeliefCommits ==
  [][\A w \in Workers :
       effects' # effects /\ pass'[w] # pass[w] =>
         \A v \in Workers \ {w} : \A b \in lanes[v] :
           b[1] = pass[w].auth[1] => b[2] < pass[w].auth[2]]_mailboxVars

(***************************************************************************)
(* The mailbox implements OnceDelivery.                                    *)
(***************************************************************************)
View(s) ==
  CASE s \in {"absent", "inserting"} -> "unknown"
    [] s \in {"SCHEDULED", "promoting"} -> "waiting"
    [] s = "CANCELLED" -> "cancelled"
    [] s = "RECEIVED" -> "due"
    [] s = "COMPLETED" -> "delivered"
    [] s = "POISONED" -> "abandoned"

Observed == [m \in Messages |-> View(status[m])]

Once == INSTANCE OnceDelivery WITH state <- Observed, deliveries <- effects

\* Every step of the mailbox is one the promise allows, or none.
KeepsPromise == Once!OnceSpec

\* With fair workers and finitely many failures, the promise is also met in
\* the end: nothing accepted is stranded.
MeetsPromise == Once!LiveOnceSpec
=============================================================================
