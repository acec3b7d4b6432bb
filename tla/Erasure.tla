------------------------------ MODULE Erasure ------------------------------
(***************************************************************************)
(* The deletion engine (crates/infrastructure/src/deletion.rs) beside the  *)
(* projection workers whose checkpoints bound its scan.  For each expiry   *)
(* fact in its window it reads the doomed stream, appends a tombstone to   *)
(* it (tx1), and deletes its rows, records a receipt and moves its own     *)
(* cursor (tx2).  One engine runs at a time (the CronJob forbids overlap). *)
(***************************************************************************)
EXTENDS Projection

VARIABLES
  cursor,  \* the engine's own row of projection_checkpoint
  engine   \* where its pass stands

erasureVars == <<logVars, projectorVars, cursor, engine>>

IdleEngine == [at |-> "rest", from |-> 0, others |-> {}, bound |-> 0,
               facts |-> {}, rows |-> {}]

Engine == [at : {"rest", "head", "scan", "facts", "tombstone", "erase"},
           from : Nat, others : SUBSET Nat, bound : Nat,
           facts : SUBSET Expiries, rows : SUBSET Facts]

\* The cursor never runs ahead of the sequence.
ErasureTypeOK ==
  /\ ProjectionTypeOK
  /\ cursor \in 0 .. lastPosition
  /\ engine \in Engine

ErasureInit == LogInit /\ ProjectionInit /\ cursor = 0 /\ engine = IdleEngine

\* UPDATE ... SET position = GREATEST(position, p).
Advance(p) == cursor' = IF p > cursor THEN p ELSE cursor

\* The expiry being worked on: the lowest position of those left.
IsNext(e) ==
  /\ e \in engine.facts
  /\ \A d \in engine.facts : position[e] <= position[d]

(***************************************************************************)
(* One pass, statement by statement.                                       *)
(***************************************************************************)

\* Mutation: the checkpoints are not asked.
BoundHead(others) == Head

\* The slowest other checkpoint, and no further than the head.  Without any
\* checkpoint row there is nothing to wait for.
Bound(others) ==
  IF others = {} THEN Head
  ELSE LET min == CHOOSE p \in others : \A q \in others : p <= q
       IN  IF min < Head THEN min ELSE Head

\* The cursor and the other rows of projection_checkpoint.
BeginPass ==
  /\ engine.at = "rest"
  /\ engine' = [IdleEngine EXCEPT !.at = "head", !.from = cursor,
                                  !.others = {checkpoint[g] : g \in tracked}]
  /\ UNCHANGED <<logVars, projectorVars, cursor>>

ReadHead ==
  LET bound == Bound(engine.others) IN
  /\ engine.at = "head"
  /\ engine' = IF bound <= engine.from THEN IdleEngine
               ELSE [engine EXCEPT !.at = "scan", !.others = {}, !.bound = bound]
  /\ UNCHANGED <<logVars, projectorVars, cursor>>

\* Mutation: the window excludes its upper end.
WindowOpen ==
  {e \in Expiries : fact[e] = "committed" /\ position[e] > engine.from
                                          /\ position[e] < engine.bound}

\* The expiries in (cursor, bound].
Window ==
  {e \in Expiries : fact[e] = "committed" /\ position[e] > engine.from
                                          /\ position[e] <= engine.bound}

ScanExpiries ==
  /\ engine.at = "scan"
  /\ engine' = [engine EXCEPT !.at = "facts", !.facts = Window]
  /\ UNCHANGED <<logVars, projectorVars, cursor>>

\* journey: read the doomed stream.  No rows: somebody erased it already.
ReadStream ==
  /\ engine.at = "facts"
  /\ \E e \in Expiries :
       /\ IsNext(e)
       /\ LET rows == Rows(StreamOf[e]) IN
          IF rows = {}
            THEN Advance(position[e]) /\ engine' = [engine EXCEPT !.facts = @ \ {e}]
            ELSE engine' = [engine EXCEPT !.at = "tombstone", !.rows = rows] /\ UNCHANGED cursor
  /\ UNCHANGED <<logVars, projectorVars>>

\* tx1.  A tombstone left by an earlier pass is reused.  The insert waits
\* for an append in flight, and loses to one that committed since the read.
Mark(s) ==
  \/ /\ tombstone[s] # 0
     /\ engine' = [engine EXCEPT !.at = "erase"]
     /\ UNCHANGED <<lastPosition, tombstone>>
  \/ /\ tombstone[s] = 0
     /\ Rows(s) = engine.rows
     /\ ~Busy(s)
     /\ lastPosition' = lastPosition + 1
     /\ tombstone' = [tombstone EXCEPT ![s] = lastPosition + 1]
     /\ engine' = [engine EXCEPT !.at = "erase"]
  \/ /\ tombstone[s] = 0
     /\ Rows(s) # engine.rows
     /\ engine' = IdleEngine
     /\ UNCHANGED <<lastPosition, tombstone>>

WriteTombstone ==
  /\ engine.at = "tombstone"
  /\ \E e \in Expiries : IsNext(e) /\ Mark(StreamOf[e])
  /\ UNCHANGED <<fact, position, late, receipts, ledger, faults, projectorVars, cursor>>

\* Mutation: the deletion is a transaction of its own, after the receipt.
DeleteRowsApart(s) ==
  \/ /\ fact' = [f \in Facts |-> IF f \in Rows(s) THEN "erased" ELSE fact[f]]
     /\ tombstone' = [tombstone EXCEPT ![s] = 0]
  \/ UNCHANGED <<fact, tombstone>>

\* DELETE FROM domain_events: the rows of the stream that are visible.
DeleteRows(s) ==
  /\ fact' = [f \in Facts |-> IF f \in Rows(s) THEN "erased" ELSE fact[f]]
  /\ tombstone' = [tombstone EXCEPT ![s] = 0]

\* tx2: the deletion, the receipt and the cursor.
EraseStream ==
  /\ engine.at = "erase"
  /\ \E e \in Expiries :
       /\ IsNext(e)
       /\ DeleteRows(StreamOf[e])
       /\ receipts' = [receipts EXCEPT ![StreamOf[e]] = @ + 1]
       /\ lastPosition' = lastPosition + 1
       /\ ledger' = lastPosition + 1
       /\ Advance(position[e])
       /\ engine' = [engine EXCEPT !.at = "facts", !.facts = @ \ {e}, !.rows = {}]
  /\ UNCHANGED <<position, late, faults, projectorVars>>

EndPass ==
  /\ engine.at = "facts"
  /\ engine.facts = {}
  /\ Advance(engine.bound)
  /\ engine' = IdleEngine
  /\ UNCHANGED <<logVars, projectorVars>>

\* A statement fails or the process dies: the next pass starts from the
\* cursor.
EngineFails ==
  /\ engine.at # "rest"
  /\ Fault
  /\ engine' = IdleEngine
  /\ UNCHANGED <<factVars, markVars, projectorVars, cursor>>

EngineStep == BeginPass \/ ReadHead \/ ScanExpiries \/ ReadStream
              \/ WriteTombstone \/ EraseStream \/ EndPass

Tail == UNCHANGED <<cursor, engine>>

ErasureNext ==
  \/ \E f \in Facts : (Append(f) \/ Land(f) \/ Abort(f)) /\ UNCHANGED projectorVars /\ Tail
  \/ \E w \in Workers : (TickStep(w) \/ TickFails(w) \/ CrashProjector(w)) /\ Tail
  \/ EngineStep
  \/ EngineFails

\* An open transaction ends; the workers and the engine keep running.
\* Nobody has to append anything.
ErasureFairness ==
  /\ \A f \in Facts : WF_erasureVars(Land(f) /\ UNCHANGED projectorVars /\ Tail)
  /\ \A w \in Workers : WF_erasureVars(TickStep(w) /\ Tail)
  /\ WF_erasureVars(EngineStep)

ErasureSpec == ErasureInit /\ [][ErasureNext]_erasureVars /\ ErasureFairness

-----------------------------------------------------------------------------
\* "Per trigger fact, the journey is two transactions, restart-safe at every
\* boundary" (deletion.rs): however often a pass died, a stream whose expiry
\* is gone has one receipt, and a stream that has its expiry has none.
ReceiptIffErased ==
  \A e \in Expiries :
    receipts[StreamOf[e]] = IF fact[e] = "erased" THEN 1 ELSE 0

\* What the bound does guarantee (deletion.rs, tick): before a stream is
\* erased, every group that had a checkpoint row when the engine began has
\* dealt with all of it up to the expiry, save what was committed late.
ErasedWereFolded ==
  \A e \in Expiries : \A f \in Facts : \A g \in Groups \ Fresh :
    /\ fact[e] = "erased"
    /\ StreamOf[f] = StreamOf[e]
    /\ StreamOf[f] \in Reads[g]
    /\ fact[f] = "erased"
    /\ position[f] <= position[e]
    => f \in folded[g] \union skipped[g] \union late

\* Every group with a row is past the expiry.
Released(e) == \A g \in tracked : checkpoint[g] >= position[e]

\* Catching the checkpoints up "releases" the journey
\* (tests/main/deletion_engine.rs): no expiry stays released and undone for
\* ever.
ReleasedIsErased ==
  \A e \in Expiries :
    ~ <>[](fact[e] = "committed" /\ e \notin late /\ Released(e))

\* Nothing stays pending for a group for ever, save what was committed late.
EventuallyFolded ==
  \A g \in Groups : \A f \in Facts :
    ~ <>[](f \in Pending(g, checkpoint[g]) \ late)

\* What readers of the log see of a fact: not before its commit.
Life == [f \in Facts |-> CASE fact[f] = "committed" -> "kept"
                           [] fact[f] = "erased" -> "erased"
                           [] OTHER -> "none"]

Rank == [f \in Facts |-> IF Life[f] = "none" THEN 0 ELSE position[f]]

Dealt == [g \in Groups |-> folded[g] \union skipped[g]]

Promise == INSTANCE Retention WITH
  life <- Life, rank <- Rank, dealt <- Dealt, Waited <- Groups \ Fresh

\* Every statement of the appends, the workers and the engine, a failure of
\* each included, is one step of the promise or none (worker.rs, drain_group;
\* deletion.rs, journey): a group deals with its facts in the order of the log,
\* once, and passes over none that was not late; a stream is erased whole, by an
\* expiry that was dealt with, with one receipt.
KeepsRetention == Promise!RetentionSpec

\* "so by construction every fact it acts on has already been folded by
\* every read model" (deletion.rs).
ActsOnFoldedFacts ==
  \A e \in Expiries : \A g \in Groups :
    fact[e] = "erased" /\ StreamOf[e] \in Reads[g] => e \in folded[g] \union skipped[g]
=============================================================================
