----------------------------- MODULE Activation -----------------------------
(***************************************************************************)
(* The activation cache of one process: actor_runtime/src/activation.rs,   *)
(* infrastructure/src/mailbox/activation.rs, and the deliveries that fold  *)
(* over it (mailbox/handler.rs, flush.rs, actor_runtime/src/completion.rs).*)
(*                                                                         *)
(* One actor, its stream and its lane.  The workers of the process share   *)
(* one cache; a worker whose lane was taken goes on delivering until it is *)
(* fenced out.  The stream is also written by others: legs of the saga     *)
(* runner, process-manager lanes, peer processes and the deletion engine,  *)
(* of which those of this process announce it to the cache afterwards.     *)
(*                                                                         *)
(* A row of the log is its version and an id that stands for its contents. *)
(* An erased stream is not born again.                                     *)
(***************************************************************************)
EXTENDS Naturals, FiniteSets, FiniteSetsExt

CONSTANTS
  Workers,    \* mailbox workers of this process
  NoWorker,   \* the lane belongs to a peer process
  Messages,   \* number of messages of the actor
  MaxAppends, \* bound on rows written
  MaxTroubles \* bound on erasures, takeovers of a lane in use, and failures

ASSUME ActivationAssumption ==
  /\ NoWorker \notin Workers
  /\ {Messages, MaxAppends, MaxTroubles} \subseteq Nat

VARIABLES
  log,        \* the rows of the stream
  owner,      \* the worker the registry says owns the lane
  believing,  \* workers that believe they own it
  answered,   \* number of messages with a committed verdict
  held,       \* the cached rows: none, or one set of rows
  behind,     \* workers whose captured epoch an invalidation has left behind
  delivery,   \* what each worker is doing
  announcing, \* a writer of this process committed and is to invalidate
  written,    \* number of rows written, the id of the last one
  troubles,   \* number of erasures, takeovers and failures so far
  past,       \* history: every contents the log has had
  obsolete,   \* history: contents that were out of date at the last invalidation
  gapped,     \* history: a row was appended to a stream erased under the delivery
  raced       \* history: a promotion came after an invalidation it did not see

logVars == <<log, written, past, gapped>>
cacheVars == <<held, behind, raced>>
laneVars == <<owner, believing>>
vars == <<logVars, cacheVars, laneVars, obsolete, answered, delivery, announcing, troubles>>

Rows == SUBSET ((Nat \ {0}) \X Nat)
NoRow == <<0, 0>>

\* MAX(version), 0 for no rows.
Version(rows) == IF rows = {} THEN 0 ELSE Max({r[1] : r \in rows})

Deciding == {"load", "read", "fill", "guard", "flush"}
DeliverySteps == Deciding \union {"idle", "promote", "put"}
Delivery == [at : DeliverySteps, message : Nat, fold : Rows, served : BOOLEAN,
             row : Nat \X Nat, seen : SUBSET Rows]
IdleDelivery == [at |-> "idle", message |-> 0, fold |-> {}, served |-> FALSE,
                 row |-> NoRow, seen |-> {}]

\* Steps at which a worker remembers an epoch.
Capturing == {"read", "fill", "put"}

ActivationTypeOK ==
  /\ log \in Rows
  /\ owner \in Workers \union {NoWorker}
  /\ believing \in SUBSET Workers
  /\ answered \in Nat
  /\ held \in SUBSET Rows
  /\ \A x, y \in held : x = y
  /\ behind \in SUBSET Workers
  /\ delivery \in [Workers -> Delivery]
  /\ announcing \in BOOLEAN
  /\ {written, troubles} \subseteq Nat
  /\ past \in SUBSET Rows
  /\ obsolete \in SUBSET Rows
  /\ gapped \in BOOLEAN
  /\ raced \in BOOLEAN

ActivationInit ==
  /\ log = {<<1, 1>>}
  /\ owner = NoWorker
  /\ believing = {}
  /\ answered = 0
  /\ held = {}
  /\ behind = {}
  /\ delivery = [w \in Workers |-> IdleDelivery]
  /\ announcing = FALSE
  /\ written = 1
  /\ troubles = 0
  /\ past = {log}
  /\ obsolete = {}
  /\ gapped = FALSE
  /\ raced = FALSE

(***************************************************************************)
(* The cache.                                                              *)
(***************************************************************************)

\* invalidate, drop_partition: the entry goes and the epoch moves on, past
\* every epoch captured so far.
Invalidate ==
  /\ held' = {}
  /\ behind' = {w \in Workers : delivery[w].at \in Capturing}
  /\ obsolete' = past \ {log}
  /\ UNCHANGED raced

\* Passivation of an idle entry, by a lookup or the sweep; LRU eviction.
Passivate ==
  /\ held # {}
  /\ held' = {}
  /\ UNCHANGED <<behind, raced, logVars, laneVars, obsolete, answered, delivery, announcing, troubles>>

(***************************************************************************)
(* The log.                                                                *)
(***************************************************************************)

\* What deliveries under way have seen of the log, and the histories.
Witness(rows, deliveries) ==
  delivery' = [w \in Workers |->
                 [deliveries[w] EXCEPT !.seen = IF deliveries[w].at \in Deciding THEN @ \union {rows} ELSE {}]]
Store(rows) ==
  /\ log' = rows
  /\ past' = past \union {rows}
  /\ obsolete' = obsolete \ {rows}

HasVersion(rows, n) == \E r \in rows : r[1] = n
NewRow(n) == <<n, written + 1>>

Trouble == troubles < MaxTroubles /\ troubles' = troubles + 1

\* A writer that does not go through this lane.
OutsideAppend ==
  /\ written < MaxAppends
  /\ log # {}
  /\ written' = written + 1
  /\ Store(log \union {NewRow(Version(log) + 1)})
  /\ Witness(log', delivery)
  /\ announcing' \in {announcing, TRUE}
  /\ UNCHANGED <<gapped, cacheVars, laneVars, answered, troubles>>

\* The deletion engine, of this process or of another one.
Erase ==
  /\ Trouble
  /\ Store({})
  /\ Witness({}, delivery)
  /\ announcing' \in {announcing, TRUE}
  /\ UNCHANGED <<written, gapped, cacheVars, laneVars, answered>>

Announce ==
  /\ announcing
  /\ announcing' = FALSE
  /\ Invalidate
  /\ UNCHANGED <<logVars, laneVars, answered, delivery, troubles>>

(***************************************************************************)
(* The lane.                                                               *)
(***************************************************************************)
At(w, step) == delivery[w].at = step
Become(w, d) == delivery' = [delivery EXCEPT ![w] = d]
GoTo(w, step) == Become(w, [delivery[w] EXCEPT !.at = step])
Abort(w) == Become(w, IdleDelivery)

\* Nobody renews the lease, or it is taken all the same: a steal, a late beat.
Take == IF owner \in believing THEN Trouble ELSE UNCHANGED troubles

Claim(w) ==
  /\ At(w, "idle")
  /\ w \notin believing
  /\ Take
  /\ owner' = w
  /\ believing' = believing \union {w}
  /\ UNCHANGED <<logVars, cacheVars, obsolete, answered, delivery, announcing>>

PeerClaims ==
  /\ owner # NoWorker
  /\ Trouble
  /\ owner' = NoWorker
  /\ UNCHANGED <<believing, logVars, cacheVars, obsolete, answered, delivery, announcing>>

\* A peer delivers the head; what it appends is an OutsideAppend.
PeerDelivers ==
  /\ owner = NoWorker
  /\ answered < Messages
  /\ answered' = answered + 1
  /\ UNCHANGED <<logVars, cacheVars, laneVars, obsolete, delivery, announcing, troubles>>

\* lane_dropped: the worker found out, and the entries of the lane go.
DropLane(w) ==
  /\ believing' = believing \ {w}
  /\ Invalidate
  /\ UNCHANGED owner

Notice(w) ==
  /\ At(w, "idle")
  /\ w \in believing
  /\ owner # w
  /\ DropLane(w)
  /\ UNCHANGED <<logVars, answered, delivery, announcing, troubles>>

(***************************************************************************)
(* A delivery.                                                             *)
(***************************************************************************)
Begin(w) ==
  /\ At(w, "idle")
  /\ w \in believing
  /\ answered < Messages
  /\ Become(w, [IdleDelivery EXCEPT !.at = "load", !.message = answered + 1, !.seen = {log}])
  /\ UNCHANGED <<logVars, cacheVars, laneVars, obsolete, answered, announcing, troubles>>

\* A hit serves the held rows; a miss captures the epoch before it reads.
Load(w) ==
  /\ At(w, "load")
  /\ \/ \E rows \in held :
           Become(w, [delivery[w] EXCEPT !.at = "guard", !.fold = rows, !.served = TRUE])
     \/ held = {} /\ GoTo(w, "read")
  /\ UNCHANGED <<logVars, cacheVars, laneVars, obsolete, answered, announcing, troubles>>

ReadLog(w) ==
  /\ At(w, "read")
  /\ Become(w, [delivery[w] EXCEPT !.at = "fill", !.fold = log])
  /\ UNCHANGED <<logVars, cacheVars, laneVars, obsolete, answered, announcing, troubles>>

\* Mutation: the fill is a plain put.
FillAnyway(w) ==
  /\ At(w, "fill")
  /\ held' = {delivery[w].fold}
  /\ behind' = behind \ {w}
  /\ GoTo(w, "guard")
  /\ UNCHANGED <<raced, logVars, laneVars, obsolete, answered, announcing, troubles>>

\* put_at_epoch: refused if an invalidation came since.
Fill(w) ==
  /\ At(w, "fill")
  /\ held' = IF w \in behind THEN held ELSE {delivery[w].fold}
  /\ behind' = behind \ {w}
  /\ GoTo(w, "guard")
  /\ UNCHANGED <<raced, logVars, laneVars, obsolete, answered, announcing, troubles>>

Stale(w) == delivery[w].served /\ Version(delivery[w].fold) # Version(log)

\* Mutation: only deliveries that append are guarded, by the unique version.
GuardNothing(w) ==
  /\ At(w, "guard")
  /\ GoTo(w, "flush")
  /\ UNCHANGED <<cacheVars, obsolete, logVars, laneVars, answered, announcing, troubles>>

\* Mutation: the delivery is aborted and the entry stays.
GuardKeepingEntry(w) ==
  /\ At(w, "guard")
  /\ IF Stale(w) THEN Abort(w) ELSE GoTo(w, "flush")
  /\ UNCHANGED <<cacheVars, obsolete, logVars, laneVars, answered, announcing, troubles>>

\* guard_freshness_in_tx.
Guard(w) ==
  /\ At(w, "guard")
  /\ IF Stale(w) THEN Abort(w) /\ Invalidate
     ELSE GoTo(w, "flush") /\ UNCHANGED <<cacheVars, obsolete>>
  /\ UNCHANGED <<logVars, laneVars, answered, announcing, troubles>>

MayCommit(w) == owner = w /\ answered + 1 = delivery[w].message
NextVersion(w) == Version(delivery[w].fold) + 1

\* The completion transaction of a verdict without events.
CommitVerdict(w) ==
  /\ At(w, "flush")
  /\ MayCommit(w)
  /\ answered' = answered + 1
  /\ Abort(w)
  /\ UNCHANGED <<logVars, cacheVars, laneVars, obsolete, announcing, troubles>>

\* The completion transaction of an event; the version must be free.
CommitEvent(w) ==
  /\ At(w, "flush")
  /\ MayCommit(w)
  /\ delivery[w].fold # {}
  /\ ~HasVersion(log, NextVersion(w))
  /\ written < MaxAppends
  /\ written' = written + 1
  /\ gapped' = (gapped \/ Version(delivery[w].fold) # Version(log))
  /\ Store(log \union {NewRow(NextVersion(w))})
  /\ Witness(log', [delivery EXCEPT ![w] = [IdleDelivery EXCEPT
                       !.at = "promote", !.fold = delivery[w].fold, !.row = NewRow(NextVersion(w))]])
  /\ answered' = answered + 1
  /\ UNCHANGED <<cacheVars, laneVars, announcing, troubles>>

\* The version was taken: the held rows lost the race.
Conflict(w) ==
  /\ At(w, "flush")
  /\ delivery[w].fold # {}
  /\ HasVersion(log, NextVersion(w))
  /\ Abort(w)
  /\ Invalidate
  /\ UNCHANGED <<logVars, laneVars, answered, announcing, troubles>>

\* AlreadyCompleted or FencedOut: the worker drops the lane.
CommitRefused(w) ==
  /\ At(w, "flush")
  /\ ~MayCommit(w)
  /\ Abort(w)
  /\ DropLane(w)
  /\ UNCHANGED <<logVars, answered, announcing, troubles>>

Extend(w, rows) == Become(w, [delivery[w] EXCEPT !.at = "put", !.fold = rows])

\* Mutation: whatever is held is extended.
PromoteAnyVersion(w) ==
  /\ At(w, "promote")
  /\ \/ held = {} /\ Abort(w)
     \/ \E rows \in held : Extend(w, rows)
  /\ UNCHANGED <<cacheVars, obsolete, logVars, laneVars, answered, announcing, troubles>>

\* promote_after_commit looks the entry up; one of another version is dropped.
Promote(w) ==
  /\ At(w, "promote")
  /\ \/ held = {} /\ Abort(w) /\ UNCHANGED <<cacheVars, obsolete>>
     \/ \E rows \in held :
          IF Version(rows) = Version(delivery[w].fold)
          THEN Extend(w, rows) /\ UNCHANGED <<cacheVars, obsolete>>
          ELSE Abort(w) /\ Invalidate
  /\ UNCHANGED <<logVars, laneVars, answered, announcing, troubles>>

\* The extended entry is put in a second call, without the epoch.
Put(w) ==
  /\ At(w, "put")
  /\ held' = {delivery[w].fold \union {delivery[w].row}}
  /\ raced' = (raced \/ w \in behind)
  /\ behind' = behind \ {w}
  /\ Abort(w)
  /\ UNCHANGED <<logVars, laneVars, obsolete, answered, announcing, troubles>>

\* A delivery fails, or its worker panics or forgets its lanes at a beat that
\* fails; nothing is told to the cache.
Fault(w) ==
  /\ Trouble
  /\ w \in believing
  /\ Abort(w)
  /\ believing' \in {believing, believing \ {w}}
  /\ behind' = behind \ {w}
  /\ UNCHANGED <<owner, logVars, held, raced, obsolete, answered, announcing>>

Deliver(w) ==
  \/ Begin(w) \/ Load(w) \/ ReadLog(w) \/ Fill(w) \/ Guard(w)
  \/ CommitVerdict(w) \/ CommitEvent(w) \/ Conflict(w) \/ CommitRefused(w)
  \/ Promote(w) \/ Put(w)

ActivationNext ==
  \/ \E w \in Workers : Deliver(w) \/ Claim(w) \/ Notice(w) \/ Fault(w)
  \/ OutsideAppend \/ Erase \/ Announce
  \/ PeerClaims \/ PeerDelivers \/ Passivate

\* The worker loops: they claim what nobody renews, beat, and drain.
ActivationFairness ==
  /\ \A w \in Workers : WF_vars(Deliver(w)) /\ WF_vars(Claim(w)) /\ WF_vars(Notice(w))

ActivationSpec == ActivationInit /\ [][ActivationNext]_vars /\ ActivationFairness

(***************************************************************************)
(* Properties.                                                             *)
(***************************************************************************)

\* Rows held are rows the log had, all of them and no others: no promotion
\* extends an entry it did not fold, and none comes before its commit.
HeldWasLog == gapped \/ held \subseteq past

\* A verdict rests on what the log was at some moment of its own delivery,
\* hit or miss, whether or not it appends.
VerdictIsFresh ==
  [][\A w \in Workers :
       At(w, "flush") /\ answered' # answered /\ owner = w
         => gapped \/ delivery[w].fold \in delivery[w].seen]_vars

\* What was out of date when it was announced is not held again, unless a
\* promotion came between the invalidation and its own lookup.
ObsoleteStaysOut == gapped \/ raced \/ held \intersect obsolete = {}

\* A stale entry costs a delivery its attempt, never the lane its progress.
EventuallyAnswered == <>(answered = Messages)
=============================================================================
