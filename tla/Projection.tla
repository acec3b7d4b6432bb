----------------------------- MODULE Projection -----------------------------
(***************************************************************************)
(* The projection workers (crates/infrastructure/src/projection/worker.rs).*)
(* Each worker ticks over its groups; a group is the read models that      *)
(* share one row of `projection_checkpoint`.  A tick reads the head of the *)
(* log and ends at once if it is the head the last full pass saw; else it  *)
(* drains every group batch by batch, each batch's folds and the           *)
(* checkpoint committing together.                                         *)
(*                                                                         *)
(* A fold that fails is logged and skipped; under the halting policy it    *)
(* fails the tick, as any failing statement does.                          *)
(***************************************************************************)
EXTENDS EventLog

CONSTANTS
  Workers,   \* projector processes
  Groups,    \* projector groups
  GroupsOf,  \* the groups of each worker's scope
  Reads,     \* the streams each group folds
  Fresh,     \* groups with no checkpoint row yet
  NoGroup,   \* no group is being drained
  Batch      \* PROJECTION_BATCH_SIZE

ASSUME ProjectionAssumption ==
  /\ GroupsOf \in [Workers -> SUBSET Groups]
  /\ \A v, w \in Workers : v # w => GroupsOf[v] \intersect GroupsOf[w] = {}
  /\ Reads \in [Groups -> SUBSET Streams]
  /\ Fresh \subseteq Groups
  /\ NoGroup \notin Groups
  /\ Batch \in Nat \ {0}

VARIABLES
  tracked,     \* groups that have a row in projection_checkpoint
  checkpoint,  \* their positions; 0 without a row
  folded,      \* facts whose folds the group has committed
  skipped,     \* facts the group gave up
  lastHead,    \* per worker: head of the last pass that drained every group
  tick         \* per worker: where its tick stands

projectorVars == <<tracked, checkpoint, folded, skipped, lastHead, tick>>

Resting == [at |-> "rest", head |-> 0, todo |-> {}, group |-> NoGroup,
            from |-> 0, batch |-> {}]

Tick == [at : {"rest", "groups", "scan", "fold"}, head : Nat,
         todo : SUBSET Groups, group : Groups \union {NoGroup},
         from : Nat, batch : SUBSET Facts]

ProjectionTypeOK ==
  /\ LogTypeOK
  /\ tracked \in SUBSET Groups
  /\ checkpoint \in [Groups -> Nat]
  /\ folded \in [Groups -> SUBSET Facts]
  /\ skipped \in [Groups -> SUBSET Facts]
  /\ lastHead \in [Workers -> Nat \union {-1}]
  /\ tick \in [Workers -> Tick]

ProjectionInit ==
  /\ tracked = Groups \ Fresh
  /\ checkpoint = [g \in Groups |-> 0]
  /\ folded = [g \in Groups |-> {}]
  /\ skipped = [g \in Groups |-> {}]
  /\ lastHead = [w \in Workers |-> -1]
  /\ tick = [w \in Workers |-> Resting]

\* The rows a scan of the group finds past a position.  The tombstone of a
\* stream, which a scan finds as well and no group folds, is left out: it takes
\* a checkpoint past positions where only late facts can come.
Pending(g, p) ==
  {f \in Facts : fact[f] = "committed" /\ StreamOf[f] \in Reads[g] /\ position[f] > p}

\* Mutation: ORDER BY position DESC.
LastBatch(S) ==
  {f \in S : Cardinality({k \in S : position[k] > position[f]}) < Batch}

\* ORDER BY position LIMIT batch_size.
FirstBatch(S) ==
  {f \in S : Cardinality({k \in S : position[k] < position[f]}) < Batch}

LastPosition(S) ==
  CHOOSE p \in {position[f] : f \in S} : \A f \in S : position[f] <= p

(***************************************************************************)
(* One tick, statement by statement.                                       *)
(***************************************************************************)
\* The head is read first.  The idle gate: an unchanged head ends the tick.
BeginTick(w) ==
  /\ tick[w].at = "rest"
  /\ Head # lastHead[w]
  /\ tick' = [tick EXCEPT ![w] = [Resting EXCEPT !.at = "groups", !.head = Head,
                                                 !.todo = GroupsOf[w]]]
  /\ UNCHANGED <<logVars, tracked, checkpoint, folded, skipped, lastHead>>

\* drain_group reads the group's checkpoint.  The order of the groups is
\* left open.
OpenGroup(w) ==
  /\ tick[w].at = "groups"
  /\ \E g \in tick[w].todo :
       tick' = [tick EXCEPT ![w].at = "scan", ![w].todo = @ \ {g}, ![w].group = g,
                            ![w].from = checkpoint[g]]
  /\ UNCHANGED <<logVars, tracked, checkpoint, folded, skipped, lastHead>>

\* One scan; the group is drained when it finds nothing.
Scan(w) ==
  LET found == FirstBatch(Pending(tick[w].group, tick[w].from)) IN
  /\ tick[w].at = "scan"
  /\ tick' = [tick EXCEPT ![w].at = IF found = {} THEN "groups" ELSE "fold",
                          ![w].batch = found]
  /\ UNCHANGED <<logVars, tracked, checkpoint, folded, skipped, lastHead>>

\* Mutation: the checkpoint is saved after the commit, or not.
SaveCheckpointApart(g, p) ==
  \/ /\ checkpoint' = [checkpoint EXCEPT ![g] = p]
     /\ tracked' = tracked \union {g}
  \/ UNCHANGED <<checkpoint, tracked>>

SaveCheckpoint(g, p) ==
  /\ checkpoint' = [checkpoint EXCEPT ![g] = p]
  /\ tracked' = tracked \union {g}

\* The batch transaction: every fold that works, and the checkpoint.
Fold(w) ==
  LET g == tick[w].group
      last == LastPosition(tick[w].batch)
  IN
  /\ tick[w].at = "fold"
  /\ \E bad \in SUBSET tick[w].batch :
       /\ IF bad = {} THEN UNCHANGED faults ELSE Fault
       /\ folded' = [folded EXCEPT ![g] = @ \union (tick[w].batch \ bad)]
       /\ skipped' = [skipped EXCEPT ![g] = @ \union bad]
  /\ SaveCheckpoint(g, last)
  /\ tick' = [tick EXCEPT ![w].at = "scan", ![w].from = last, ![w].batch = {}]
  /\ UNCHANGED <<factVars, markVars, lastHead>>

\* Mutation: the gate is armed with the head of the log as it is now.
EndTickLate(w) ==
  /\ tick[w].at = "groups"
  /\ tick[w].todo = {}
  /\ lastHead' = [lastHead EXCEPT ![w] = Head]
  /\ tick' = [tick EXCEPT ![w] = Resting]
  /\ UNCHANGED <<logVars, tracked, checkpoint, folded, skipped>>

\* Every group is drained: arm the gate with the head read at the start.
EndTick(w) ==
  /\ tick[w].at = "groups"
  /\ tick[w].todo = {}
  /\ lastHead' = [lastHead EXCEPT ![w] = tick[w].head]
  /\ tick' = [tick EXCEPT ![w] = Resting]
  /\ UNCHANGED <<logVars, tracked, checkpoint, folded, skipped>>

\* A statement or the commit fails, the tick panics, or the halting policy
\* refuses a fold: the tick ends and the gate stays as it was.
TickFails(w) ==
  /\ tick[w].at # "rest"
  /\ Fault
  /\ tick' = [tick EXCEPT ![w] = Resting]
  /\ UNCHANGED <<factVars, markVars, tracked, checkpoint, folded, skipped, lastHead>>

\* The process dies and is started again.
CrashProjector(w) ==
  /\ Fault
  /\ lastHead' = [lastHead EXCEPT ![w] = -1]
  /\ tick' = [tick EXCEPT ![w] = Resting]
  /\ UNCHANGED <<factVars, markVars, tracked, checkpoint, folded, skipped>>

TickStep(w) == BeginTick(w) \/ OpenGroup(w) \/ Scan(w) \/ Fold(w) \/ EndTick(w)

-----------------------------------------------------------------------------
\* "every fact at or below it has been folded by every read model"
\* (deletion.rs, on a group's checkpoint): true of the facts that were not
\* committed below a position already visible, unless their fold failed.
NothingBehindCheckpoint ==
  \A g \in Groups : \A f \in Facts :
    /\ fact[f] = "committed"
    /\ StreamOf[f] \in Reads[g]
    /\ position[f] <= checkpoint[g]
    => f \in folded[g] \union skipped[g] \union late

\* "the gate only arms when the previous pass drained every group to
\* completion" (worker.rs, tick): while the gate is closed no group has
\* anything pending but facts that were committed late.
GateMeansDrained ==
  \A w \in Workers : lastHead[w] = Head =>
    \A g \in GroupsOf[w] : Pending(g, checkpoint[g]) \subseteq late
=============================================================================
