--------------------------- MODULE Erasure_proofs ---------------------------
(***************************************************************************)
(* Theorems about the projection workers and the deletion engine over one  *)
(* event log, for any facts, streams, groups, workers, batch size and      *)
(* number of failures.                                                     *)
(*                                                                         *)
(* The argument is about positions.  A checkpoint is the position of a     *)
(* fact that was visible, so whatever is committed below it later is late; *)
(* and a batch has no gaps, so what a checkpoint passes over was folded,   *)
(* given up or late.                                                       *)
(***************************************************************************)
EXTENDS Erasure, WellFoundedInduction, FiniteSetTheorems, TLAPS

\* The fact has been visible.
Settled(f) == fact[f] \in {"committed", "erased"}

\* Positions are drawn once, and nobody has seen the position of an open fact.
LogInv ==
  /\ \A f \in Facts : position[f] <= lastPosition
  /\ \A f \in Facts : fact[f] = "absent" <=> position[f] = 0
  /\ \A f, h \in Facts : f # h /\ position[f] = position[h] => position[f] = 0
  /\ \A s \in Streams : tombstone[s] <= lastPosition
  /\ ledger <= lastPosition
  /\ \A f \in Facts : fact[f] = "open" => position[f] \notin Seen
  /\ \A f \in Facts : Settled(f) => position[f] <= Head

-----------------------------------------------------------------------------
(***************************************************************************)
(* Least and greatest elements of sets of naturals, from the               *)
(* well-foundedness of < alone.                                            *)
(***************************************************************************)
\* A set of naturals that is not empty has a least element.
LEMMA MinExists ==
  ASSUME NEW T, T \subseteq Nat, T # {}
  PROVE  \E x \in T : \A y \in T : x <= y
<1> DEFINE R == OpToRel(<, Nat)
<1>1. IsWellFoundedOn(R, Nat)
  BY NatLessThanWellFounded
<1> HIDE DEF R
<1>2. PICK x \in T : \A y \in T : ~ (<<y, x>> \in R)
  BY <1>1, WFMin
<1>3. \A y \in T : y < x => <<y, x>> \in R
  BY DEF R, OpToRel
<1>4. \A y \in T : ~ (y < x)
  BY <1>2, <1>3
<1>5. \A y \in T : x <= y
  BY <1>4
<1> QED BY <1>5

\* If it is also bounded, it has a greatest one: the least distance from the
\* bound.
LEMMA MaxExists ==
  ASSUME NEW n \in Nat, NEW T, T \subseteq 0 .. n, T # {}
  PROVE  \E x \in T : \A y \in T : y <= x
<1> DEFINE U == {k \in 0 .. n : n - k \in T}
<1>1. PICK t \in T : TRUE
  OBVIOUS
<1>2. U \subseteq Nat /\ n - t \in U
  OBVIOUS
<1>3. PICK u \in U : \A v \in U : u <= v
  <2> HIDE DEF U
  <2> QED BY <1>2, MinExists
<1>4. \A y \in T : n - y \in U
  OBVIOUS
<1>5. \A y \in T : y <= n - u
  BY <1>3, <1>4
<1> QED BY <1>3, <1>5

-----------------------------------------------------------------------------
(***************************************************************************)
(* The head of the log.                                                    *)
(***************************************************************************)
LEMMA GreatestOf ==
  ASSUME NEW n \in Nat, NEW S, S \subseteq 0 .. n, S # {}
  PROVE  LET p == CHOOSE p \in S : \A q \in S : q <= p
         IN  p \in S /\ \A q \in S : q <= p
<1>1. \E p \in S : \A q \in S : q <= p
  BY MaxExists
<1> QED BY <1>1

LEMMA SeenIsDrawn ==
  ASSUME LogTypeOK, LogInv
  PROVE  Seen \subseteq 0 .. lastPosition
  BY DEF Seen, LogTypeOK, LogInv

LEMMA HeadIsMax ==
  ASSUME LogTypeOK, LogInv
  PROVE  /\ Head \in Seen
         /\ Head \in 0 .. lastPosition
         /\ \A q \in Seen : q <= Head
<1>1. 0 \in Seen
  BY DEF Seen
<1>2. Head \in Seen /\ \A q \in Seen : q <= Head
  BY <1>1, SeenIsDrawn, GreatestOf DEF Head, LogTypeOK
<1> QED BY <1>2, SeenIsDrawn

\* The head does not go back if whatever was seen is still seen, or something
\* newer is.
LEMMA HeadGrows ==
  ASSUME LogTypeOK, LogInv, lastPosition' \in Nat, Seen' \subseteq 0 .. lastPosition',
         \A q \in Seen : \E p \in Seen' : q <= p
  PROVE  /\ Head' \in Seen'
         /\ \A q \in Seen' : q <= Head'
         /\ Head <= Head'
         /\ Head \in Nat /\ Head' \in Nat
<1>1. Head \in Seen /\ Head \in Nat
  BY HeadIsMax DEF LogTypeOK
<1>2. PICK p \in Seen' : Head <= p
  BY <1>1
<1>3. Head' \in Seen' /\ \A q \in Seen' : q <= Head'
  <2> DEFINE top(S) == CHOOSE p_1 \in S : \A q \in S : q <= p_1
  <2>1. Head' = top(Seen')
    BY DEF Head
  <2>2. top(Seen') \in Seen' /\ \A q \in Seen' : q <= top(Seen')
    BY <1>2, GreatestOf
  <2> QED BY <2>1, <2>2
<1> QED BY <1>1, <1>2, <1>3

-----------------------------------------------------------------------------
(***************************************************************************)
(* What one step does to the log.                                          *)
(***************************************************************************)
Marks ==
  \E s \in Streams :
    /\ tombstone[s] = 0
    /\ lastPosition' = lastPosition + 1
    /\ tombstone' = [tombstone EXCEPT ![s] = lastPosition + 1]
    /\ UNCHANGED <<fact, position, late, receipts, ledger>>

Erases ==
  \E s \in Streams :
    /\ DeleteRows(s)
    /\ receipts' = [receipts EXCEPT ![s] = @ + 1]
    /\ lastPosition' = lastPosition + 1
    /\ ledger' = lastPosition + 1
    /\ UNCHANGED <<position, late>>

LogMove ==
  /\ faults' \in 0 .. MaxFaults
  /\ \/ UNCHANGED <<factVars, markVars>>
     \/ \E f \in Facts : Append(f) \/ Land(f) \/ Abort(f)
     \/ Marks
     \/ Erases

LEMMA StreamOfFactIsStream ==
  ASSUME NEW f \in Facts PROVE StreamOf[f] \in Streams
  BY DEF Streams

LEMMA FaultType ==
  ASSUME LogTypeOK, Fault PROVE faults' \in 0 .. MaxFaults
  BY EventLogAssumption DEF LogTypeOK, Fault

LEMMA EveryStepMovesTheLog ==
  ASSUME LogTypeOK, [ErasureNext]_erasureVars PROVE LogMove
<1> USE DEF LogTypeOK
<1>1. ASSUME UNCHANGED logVars PROVE LogMove
  BY <1>1 DEF logVars, LogMove
<1>2. ASSUME Fault, UNCHANGED <<factVars, markVars>> PROVE LogMove
  BY <1>2, FaultType DEF LogMove
<1>3. ASSUME NEW f \in Facts, Append(f) \/ Land(f) \/ Abort(f) PROVE LogMove
  <2>1. faults' \in 0 .. MaxFaults
    BY <1>3, FaultType DEF Append, Land, Abort
  <2> QED BY <1>3, <2>1 DEF LogMove
<1>4. ASSUME NEW w \in Workers, TickStep(w) \/ TickFails(w) \/ CrashProjector(w) PROVE LogMove
  <2>1. CASE Fold(w)
    <3>1. (UNCHANGED faults \/ Fault) /\ UNCHANGED <<factVars, markVars>>
      BY <2>1 DEF Fold
    <3> QED BY <3>1, <1>2 DEF LogMove
  <2>2. CASE BeginTick(w) \/ OpenGroup(w) \/ Scan(w) \/ EndTick(w)
    BY <2>2, <1>1 DEF BeginTick, OpenGroup, Scan, EndTick
  <2>3. CASE TickFails(w) \/ CrashProjector(w)
    BY <2>3, <1>2 DEF TickFails, CrashProjector
  <2> QED BY <1>4, <2>1, <2>2, <2>3 DEF TickStep
<1>5. CASE WriteTombstone
  <2>1. PICK e \in Expiries : IsNext(e) /\ Mark(StreamOf[e])
    BY <1>5 DEF WriteTombstone
  <2>2. StreamOf[e] \in Streams
    BY EventLogAssumption, StreamOfFactIsStream
  <2>3. UNCHANGED <<fact, position, late, receipts, ledger, faults>>
    BY <1>5 DEF WriteTombstone
  <2> QED BY <2>1, <2>2, <2>3 DEF Mark, Marks, LogMove, factVars, markVars
<1>6. CASE EraseStream
  <2>1. PICK e \in Expiries :
          /\ DeleteRows(StreamOf[e])
          /\ receipts' = [receipts EXCEPT ![StreamOf[e]] = @ + 1]
          /\ lastPosition' = lastPosition + 1
          /\ ledger' = lastPosition + 1
    BY <1>6 DEF EraseStream
  <2>2. StreamOf[e] \in Streams
    BY EventLogAssumption, StreamOfFactIsStream
  <2>3. UNCHANGED <<position, late, faults>>
    BY <1>6 DEF EraseStream
  <2> QED BY <2>1, <2>2, <2>3 DEF Erases, LogMove
<1>7. CASE BeginPass \/ ReadHead \/ ScanExpiries \/ ReadStream \/ EndPass
  BY <1>7, <1>1 DEF BeginPass, ReadHead, ScanExpiries, ReadStream, EndPass
<1>8. CASE EngineFails
  BY <1>8, <1>2 DEF EngineFails
<1>9. CASE UNCHANGED erasureVars
  BY <1>9, <1>1 DEF erasureVars
<1> QED BY <1>3, <1>4, <1>5, <1>6, <1>7, <1>8, <1>9 DEF ErasureNext, EngineStep

LEMMA LogMoveType ==
  ASSUME LogTypeOK, LogMove PROVE LogTypeOK'
<1> USE DEF LogTypeOK
<1>1. CASE UNCHANGED <<factVars, markVars>>
  BY <1>1 DEF LogMove, factVars, markVars
<1>2. ASSUME NEW f \in Facts, Append(f) PROVE LogTypeOK'
  BY <1>2 DEF LogMove, Append, markVars
<1>3. ASSUME NEW f \in Facts, Land(f) PROVE LogTypeOK'
  BY <1>3 DEF LogMove, Land, markVars
<1>4. ASSUME NEW f \in Facts, Abort(f) PROVE LogTypeOK'
  BY <1>4 DEF LogMove, Abort, markVars
<1>5. CASE Marks
  BY <1>5 DEF LogMove, Marks
<1>6. CASE Erases
  BY <1>6 DEF LogMove, Erases, DeleteRows
<1> QED BY <1>1, <1>2, <1>3, <1>4, <1>5, <1>6 DEF LogMove

\* What the readers of the log may rely on: positions are final, the head
\* never goes back, and a fact committed below the head is late.
LogEffects ==
  /\ lastPosition <= lastPosition'
  /\ Head \in Nat /\ Head' \in Nat /\ Head <= Head'
  /\ late \subseteq late'
  /\ \A f \in Facts : Settled(f) => Settled(f)' /\ position'[f] = position[f]
  /\ \A f \in Facts : fact'[f] = "committed" =>
       /\ position'[f] = position[f]
       /\ fact[f] = "committed" \/ (fact[f] = "open" /\ (Head > position[f] => f \in late'))
  /\ \A f \in Facts : fact'[f] = "open" =>
       (fact[f] = "open" /\ position'[f] = position[f]) \/ position'[f] > lastPosition

LEMMA AppendStep ==
  ASSUME LogTypeOK, LogTypeOK', LogInv, NEW f \in Facts, Append(f) PROVE LogInv' /\ LogEffects
<1> USE DEF LogTypeOK
<1>1. /\ fact[f] = "absent"
      /\ lastPosition' = lastPosition + 1
      /\ \A h \in Facts : fact'[h] = IF h = f THEN "open" ELSE fact[h]
      /\ \A h \in Facts : position'[h] = IF h = f THEN lastPosition + 1 ELSE position[h]
      /\ UNCHANGED <<late, tombstone, receipts, ledger>>
  BY DEF Append, markVars
<1>2. Seen' = Seen
  BY <1>1 DEF Seen
<1>3. Head' = Head
  BY <1>2 DEF Head
<1>4. Head \in 0 .. lastPosition /\ Seen \subseteq 0 .. lastPosition
  BY HeadIsMax, SeenIsDrawn
<1>5. LogInv'
  BY <1>1, <1>2, <1>3, <1>4 DEF LogInv, Settled
<1> QED BY <1>1, <1>3, <1>4, <1>5 DEF LogEffects, Settled

LEMMA LandStep ==
  ASSUME LogTypeOK, LogTypeOK', LogInv, NEW f \in Facts, Land(f) PROVE LogInv' /\ LogEffects
<1> USE DEF LogTypeOK
<1>1. /\ fact[f] = "open"
      /\ \A h \in Facts : fact'[h] = IF h = f THEN "committed" ELSE fact[h]
      /\ late' = IF Head > position[f] THEN late \union {f} ELSE late
      /\ UNCHANGED <<position, lastPosition, tombstone, receipts, ledger>>
  BY DEF Land, markVars
<1>2. Seen' = Seen \union {position[f]}
  BY <1>1 DEF Seen
<1>3. Seen' \subseteq 0 .. lastPosition'
  BY <1>1, <1>2, SeenIsDrawn DEF LogInv
<1>4. \A q \in Seen : \E p \in Seen' : q <= p
  BY <1>2, SeenIsDrawn
<1>5. /\ \A q \in Seen' : q <= Head'
      /\ Head <= Head'
      /\ Head' \in Nat /\ Head \in Nat
  BY <1>3, <1>4, HeadGrows
<1>6. LogInv'
  <2>1. \A h \in Facts : fact'[h] = "open" => position'[h] \notin Seen'
    BY <1>1, <1>2 DEF LogInv
  <2>2. \A h \in Facts : Settled(h)' => position'[h] <= Head'
    BY <1>1, <1>2, <1>5 DEF LogInv, Settled
  <2> QED BY <1>1, <2>1, <2>2 DEF LogInv
<1> QED BY <1>1, <1>5, <1>6 DEF LogEffects, Settled

LEMMA AbortStep ==
  ASSUME LogTypeOK, LogTypeOK', LogInv, NEW f \in Facts, Abort(f) PROVE LogInv' /\ LogEffects
<1> USE DEF LogTypeOK
<1>1. /\ fact[f] = "open"
      /\ \A h \in Facts : fact'[h] = IF h = f THEN "absent" ELSE fact[h]
      /\ \A h \in Facts : position'[h] = IF h = f THEN 0 ELSE position[h]
      /\ UNCHANGED <<late, lastPosition, tombstone, receipts, ledger>>
  BY DEF Abort, markVars
<1>2. Seen' = Seen
  BY <1>1 DEF Seen
<1>3. Head' = Head
  BY <1>2 DEF Head
<1>4. LogInv'
  BY <1>1, <1>2, <1>3 DEF LogInv, Settled
<1> QED BY <1>1, <1>3, <1>4, HeadIsMax DEF LogEffects, Settled

LEMMA MarksStep ==
  ASSUME LogTypeOK, LogTypeOK', LogInv, Marks PROVE LogInv' /\ LogEffects
<1> USE DEF LogTypeOK
<1>1. PICK s \in Streams :
        /\ tombstone[s] = 0
        /\ lastPosition' = lastPosition + 1
        /\ \A t \in Streams : tombstone'[t] = IF t = s THEN lastPosition + 1 ELSE tombstone[t]
        /\ UNCHANGED <<fact, position, late, receipts, ledger>>
  BY DEF Marks
<1>2. Seen' = Seen \union {lastPosition + 1}
  BY <1>1 DEF Seen
<1>3. Seen' \subseteq 0 .. lastPosition'
  BY <1>1, <1>2, SeenIsDrawn
<1>4. \A q \in Seen : \E p \in Seen' : q <= p
  BY <1>2, SeenIsDrawn
<1>5. Head <= Head' /\ Head' \in Nat /\ Head \in Nat
  BY <1>3, <1>4, HeadGrows
<1>6. LogInv'
  <2>1. \A h \in Facts : fact'[h] = "open" => position'[h] \notin Seen'
    BY <1>1, <1>2 DEF LogInv
  <2>2. \A h \in Facts : Settled(h)' => position'[h] <= Head'
    BY <1>1, <1>5 DEF LogInv, Settled
  <2> QED BY <1>1, <2>1, <2>2 DEF LogInv
<1> QED BY <1>1, <1>5, <1>6 DEF LogEffects, Settled

LEMMA ErasesStep ==
  ASSUME LogTypeOK, LogTypeOK', LogInv, Erases PROVE LogInv' /\ LogEffects
<1> USE DEF LogTypeOK
<1>1. PICK s \in Streams :
        /\ \A f \in Facts : fact'[f] = IF f \in Rows(s) THEN "erased" ELSE fact[f]
        /\ \A t \in Streams : tombstone'[t] = IF t = s THEN 0 ELSE tombstone[t]
        /\ lastPosition' = lastPosition + 1
        /\ ledger' = lastPosition + 1
        /\ UNCHANGED <<position, late>>
  BY DEF Erases, DeleteRows
<1>2. \A f \in Rows(s) : fact[f] = "committed"
  BY DEF Rows
<1>3. Seen' \subseteq Seen \union {lastPosition + 1, 0} /\ lastPosition + 1 \in Seen'
  BY <1>1, <1>2 DEF Seen
<1>4. Seen' \subseteq 0 .. lastPosition'
  BY <1>1, <1>3, SeenIsDrawn
<1>5. \A q \in Seen : \E p \in Seen' : q <= p
  BY <1>3, SeenIsDrawn
<1>6. Head <= Head' /\ Head' \in Nat /\ Head \in Nat
  BY <1>4, <1>5, HeadGrows
<1>7. \A f \in Facts : Settled(f)' <=> Settled(f)
  BY <1>1, <1>2 DEF Settled
<1>8. \A f \in Facts : fact'[f] = "open" <=> fact[f] = "open"
  BY <1>1, <1>2
<1>9. \A f \in Facts : fact'[f] = "absent" <=> fact[f] = "absent"
  BY <1>1, <1>2
<1>10. LogInv'
  <2>1. \A h \in Facts : fact'[h] = "open" => position'[h] \notin Seen'
    BY <1>1, <1>3, <1>8 DEF LogInv
  <2>2. \A h \in Facts : Settled(h)' => position'[h] <= Head'
    BY <1>1, <1>6, <1>7 DEF LogInv
  <2> QED BY <1>1, <1>9, <2>1, <2>2 DEF LogInv
<1> QED BY <1>1, <1>2, <1>6, <1>7, <1>8, <1>10 DEF LogEffects

LEMMA LogStep ==
  ASSUME LogTypeOK, LogInv, [ErasureNext]_erasureVars PROVE LogTypeOK' /\ LogInv' /\ LogEffects
<1>1. LogMove /\ LogTypeOK'
  BY EveryStepMovesTheLog, LogMoveType
<1>2. CASE UNCHANGED <<factVars, markVars>>
  <2>1. Seen' = Seen /\ Head' = Head
    BY <1>2 DEF Seen, Head, factVars, markVars
  <2>2. LogInv'
    BY <1>2, <2>1 DEF LogInv, Settled, factVars, markVars
  <2> QED BY <1>1, <1>2, <2>1, <2>2, HeadIsMax DEF LogEffects, Settled, factVars, LogTypeOK
<1> QED BY <1>1, <1>2, AppendStep, LandStep, AbortStep, MarksStep, ErasesStep DEF LogMove

-----------------------------------------------------------------------------
(***************************************************************************)
(* What the projection workers rely on.                                    *)
(***************************************************************************)
\* The group has dealt with everything up to a head, save what was late.
CaughtUp(g, head) ==
  \A f \in Facts :
    /\ fact[f] = "committed"
    /\ StreamOf[f] \in Reads[g]
    /\ position[f] > checkpoint[g]
    /\ position[f] <= head
    => f \in late

Draining(w) == tick[w].at \in {"scan", "fold"}

\* A batch has facts of the group past its checkpoint, and no gaps.
BatchOK(w) ==
  /\ tick[w].batch # {}
  /\ \A b \in tick[w].batch :
       /\ Settled(b)
       /\ position[b] > tick[w].from
       /\ \A f \in Facts :
            /\ fact[f] = "committed"
            /\ StreamOf[f] \in Reads[tick[w].group]
            /\ position[f] > tick[w].from
            /\ position[f] <= position[b]
            => f \in tick[w].batch \union late

\* A checkpoint is the position of a fact that was visible, and nothing of
\* what the group dealt with is past it.
GroupInv ==
  /\ \A g \in Groups :
       /\ checkpoint[g] = 0 \/ \E h \in Facts : Settled(h) /\ checkpoint[g] = position[h]
       /\ \A f \in folded[g] \union skipped[g] : Settled(f) /\ position[f] <= checkpoint[g]
  /\ NothingBehindCheckpoint

WorkerOK(w) ==
  /\ tick[w].todo \subseteq GroupsOf[w]
  /\ Draining(w) => tick[w].group \in GroupsOf[w] /\ tick[w].from = checkpoint[tick[w].group]
  /\ tick[w].at = "fold" => BatchOK(w)
  /\ lastHead[w] <= Head /\ tick[w].head <= Head
  /\ \A f \in Facts : fact[f] = "open" =>
       position[f] # lastHead[w] /\ position[f] # tick[w].head
  /\ tick[w].at # "rest" =>
       \A g \in GroupsOf[w] \ tick[w].todo :
         (Draining(w) => g # tick[w].group) => CaughtUp(g, tick[w].head)
  /\ \A g \in GroupsOf[w] : CaughtUp(g, lastHead[w])

WorkerInv == \A w \in Workers : WorkerOK(w)

\* Appends and erasures, whatever the workers are doing meanwhile.
LEMMA LogMovesUnderWorkers ==
  ASSUME ProjectionTypeOK, LogInv, LogTypeOK', LogInv', LogEffects, GroupInv, WorkerInv,
         UNCHANGED projectorVars
  PROVE  GroupInv' /\ WorkerInv'
<1> USE DEF ProjectionTypeOK, LogTypeOK
<1>0. UNCHANGED <<tracked, checkpoint, folded, skipped, lastHead, tick>>
  BY DEF projectorVars
<1>1. \A f \in Facts : Settled(f) => Settled(f)' /\ position'[f] = position[f]
  BY DEF LogEffects
<1>2. Head \in Nat /\ Head' \in Nat /\ Head <= Head'
  BY DEF LogEffects
\* A fact that lands below a position somebody has seen is late.
<1>3. ASSUME NEW f \in Facts, fact'[f] = "committed", fact[f] # "committed",
             NEW p \in Int, p <= Head, position'[f] <= p, p # position[f]
      PROVE  f \in late'
  BY <1>2, <1>3 DEF LogEffects
<1>4. ASSUME NEW f \in Facts, NEW h \in Facts, Settled(h), fact[f] = "open"
      PROVE  position[f] # position[h] /\ position[h] <= Head
  BY <1>4 DEF LogInv, Settled
<1>5. \A f \in Facts : fact'[f] = "committed" =>
        position'[f] = position[f] /\ (fact[f] = "committed" \/ fact[f] = "open")
  BY DEF LogEffects
<1>6. late \subseteq late'
  BY DEF LogEffects
<1>7. \A f \in Facts : fact[f] = "open" => position[f] # 0
  BY DEF LogInv
<1>8. GroupInv'
  <2>1. ASSUME NEW g \in Groups
        PROVE  checkpoint'[g] = 0 \/ \E h \in Facts : Settled(h)' /\ checkpoint'[g] = position'[h]
    BY <1>0, <1>1 DEF GroupInv
  <2>2. ASSUME NEW g \in Groups, NEW f \in folded'[g] \union skipped'[g]
        PROVE  Settled(f)' /\ position'[f] <= checkpoint'[g]
    <3>1. f \in Facts /\ f \in folded[g] \union skipped[g]
      BY <1>0, <2>2
    <3> QED BY <1>0, <1>1, <3>1 DEF GroupInv
  <2>3. ASSUME NEW g \in Groups, NEW f \in Facts, fact'[f] = "committed",
               StreamOf[f] \in Reads[g], position'[f] <= checkpoint'[g]
        PROVE  f \in folded'[g] \union skipped'[g] \union late'
    <3>1. CASE fact[f] = "committed"
      BY <1>0, <1>5, <1>6, <2>3, <3>1 DEF GroupInv, NothingBehindCheckpoint
    <3>2. CASE fact[f] = "open"
      <4>1. position[f] # 0 /\ position'[f] = position[f]
        BY <1>5, <1>7, <2>3, <3>2
      <4>2. PICK h \in Facts : Settled(h) /\ checkpoint[g] = position[h]
        <5>1. checkpoint[g] # 0
          BY <1>0, <2>3, <4>1
        <5>2. checkpoint[g] = 0 \/ \E h \in Facts : Settled(h) /\ checkpoint[g] = position[h]
          BY DEF GroupInv
        <5> QED BY <5>1, <5>2
      <4>3. position[f] # position[h] /\ position[h] <= Head
        BY <1>4, <3>2, <4>2
      <4>4. position[h] \in Int /\ position'[f] <= position[h]
        BY <1>0, <2>3, <4>2
      <4>5. f \in late'
        BY <1>3, <2>3, <3>2, <4>3, <4>4
      <4> QED BY <4>5
    <3> QED BY <1>5, <2>3, <3>1, <3>2
  <2> QED BY <2>1, <2>2, <2>3 DEF GroupInv, NothingBehindCheckpoint
<1>9. ASSUME NEW g \in Groups, NEW head \in Int, head <= Head, CaughtUp(g, head),
             \A f \in Facts : fact[f] = "open" => position[f] # head
      PROVE  CaughtUp(g, head)'
  <2> SUFFICES ASSUME NEW f \in Facts, fact'[f] = "committed", StreamOf[f] \in Reads[g],
                      position'[f] > checkpoint'[g], position'[f] <= head
               PROVE  f \in late'
    BY DEF CaughtUp
  <2>1. CASE fact[f] = "committed"
    BY <1>0, <1>5, <1>6, <1>9, <2>1 DEF CaughtUp
  <2>2. CASE fact[f] = "open"
    BY <1>3, <1>9, <2>2
  <2> QED BY <1>5, <2>1, <2>2
<1>10. WorkerInv'
  <2> SUFFICES ASSUME NEW w \in Workers
               PROVE
    /\ tick[w].todo \subseteq GroupsOf[w]
    /\ Draining(w) => tick[w].group \in GroupsOf[w] /\ tick[w].from = checkpoint[tick[w].group]
    /\ tick[w].at = "fold" => BatchOK(w)'
    /\ lastHead[w] <= Head' /\ tick[w].head <= Head'
    /\ \A f \in Facts : fact'[f] = "open" =>
         position'[f] # lastHead[w] /\ position'[f] # tick[w].head
    /\ tick[w].at # "rest" =>
         \A g \in GroupsOf[w] \ tick[w].todo :
           (Draining(w) => g # tick[w].group) => CaughtUp(g, tick[w].head)'
    /\ \A g \in GroupsOf[w] : CaughtUp(g, lastHead[w])'
    BY <1>0 DEF WorkerInv, WorkerOK, Draining, CaughtUp
  <2>1. /\ lastHead[w] \in Int /\ tick[w].head \in Int /\ tick[w].from \in Nat
        /\ tick[w].batch \subseteq Facts
        /\ GroupsOf[w] \subseteq Groups
    BY ProjectionAssumption DEF Tick
  <2>2. lastHead[w] <= Head /\ tick[w].head <= Head
    BY DEF WorkerInv, WorkerOK
  <2>3. lastHead[w] <= Head' /\ tick[w].head <= Head'
    BY <1>2, <2>1, <2>2
  <2>4. \A f \in Facts : fact[f] = "open" =>
          position[f] # lastHead[w] /\ position[f] # tick[w].head
    BY DEF WorkerInv, WorkerOK
  <2>5. \A f \in Facts : fact'[f] = "open" =>
          position'[f] # lastHead[w] /\ position'[f] # tick[w].head
    BY <2>1, <2>2, <2>4, HeadIsMax DEF LogEffects
  <2>6. ASSUME tick[w].at = "fold" PROVE BatchOK(w)'
    <3>1. BatchOK(w)
      BY <2>6 DEF WorkerInv, WorkerOK
    <3>2. ASSUME NEW b \in tick[w].batch, NEW f \in Facts, fact'[f] = "committed",
                 StreamOf[f] \in Reads[tick[w].group],
                 position'[f] > tick[w].from, position'[f] <= position'[b]
          PROVE  f \in tick[w].batch \union late'
      <4>1. b \in Facts /\ Settled(b) /\ position'[b] = position[b]
        BY <1>1, <2>1, <3>1, <3>2 DEF BatchOK
      <4>2. CASE fact[f] = "committed"
        BY <1>5, <1>6, <3>1, <3>2, <4>1, <4>2 DEF BatchOK
      <4>3. CASE fact[f] = "open"
        <5>1. position[b] \in Int /\ position[b] <= Head /\ position[b] # position[f]
          BY <1>4, <4>1, <4>3
        <5>2. f \in late'
          BY <1>3, <3>2, <4>1, <4>3, <5>1
        <5> QED BY <5>2
      <4> QED BY <1>5, <3>2, <4>2, <4>3
    <3>3. \A b \in tick[w].batch : Settled(b)' /\ position'[b] > tick[w].from
      BY <1>1, <2>1, <3>1 DEF BatchOK
    <3>4. tick[w].batch # {}
      BY <3>1 DEF BatchOK
    <3> QED BY <1>0, <3>2, <3>3, <3>4 DEF BatchOK
  <2>7. ASSUME NEW g \in GroupsOf[w] PROVE CaughtUp(g, lastHead[w])'
    <3>1. CaughtUp(g, lastHead[w]) /\ g \in Groups
      BY <2>1 DEF WorkerInv, WorkerOK
    <3> QED BY <1>0, <1>9, <2>1, <2>2, <2>4, <3>1
  <2>8. ASSUME tick[w].at # "rest", NEW g \in GroupsOf[w] \ tick[w].todo,
               Draining(w) => g # tick[w].group
        PROVE  CaughtUp(g, tick[w].head)'
    <3>1. CaughtUp(g, tick[w].head) /\ g \in Groups
      BY <2>1, <2>8 DEF WorkerInv, WorkerOK
    <3> QED BY <1>0, <1>9, <2>1, <2>2, <2>4, <3>1
  <2> QED BY <2>3, <2>5, <2>6, <2>7, <2>8 DEF WorkerInv, WorkerOK
<1> QED BY <1>8, <1>10

-----------------------------------------------------------------------------
(***************************************************************************)
(* The steps of a worker; the log does not move under them.                *)
(***************************************************************************)
LogStays == UNCHANGED <<factVars, markVars>>

LEMMA OthersKeep ==
  ASSUME ProjectionTypeOK, LogStays, NEW v \in Workers, WorkerOK(v),
         tick'[v] = tick[v], lastHead'[v] = lastHead[v],
         \A g \in GroupsOf[v] : checkpoint'[g] = checkpoint[g]
  PROVE  WorkerOK(v)'
<1>1. Head' = Head
  BY DEF LogStays, Head, Seen, factVars, markVars
<1>2. ASSUME NEW g \in GroupsOf[v], NEW head, CaughtUp(g, head) PROVE CaughtUp(g, head)'
  BY <1>2 DEF CaughtUp, LogStays, factVars
<1>3. Draining(v)' <=> Draining(v)
  BY DEF Draining
<1>4. tick[v].at = "fold" => BatchOK(v)'
  BY DEF WorkerOK, BatchOK, Settled, LogStays, factVars
<1> QED BY <1>1, <1>2, <1>3, <1>4 DEF WorkerOK, LogStays, factVars

LEMMA GroupsKeep ==
  ASSUME LogStays, GroupInv, UNCHANGED <<checkpoint, folded, skipped>>
  PROVE  GroupInv'
  BY DEF LogStays, factVars, GroupInv, NothingBehindCheckpoint, Settled

\* The highest position of a batch.
LEMMA LastPositionIsMax ==
  ASSUME LogTypeOK, LogInv, NEW S \in SUBSET Facts, S # {}
  PROVE  /\ \E b \in S : LastPosition(S) = position[b]
         /\ \A b \in S : position[b] <= LastPosition(S)
         /\ LastPosition(S) \in Nat
<1> DEFINE P == {position[f] : f \in S}
<1>1. P \subseteq 0 .. lastPosition /\ P # {}
  BY DEF LogTypeOK, LogInv
<1>2. PICK p \in P : \A q \in P : q <= p
  BY <1>1, MaxExists DEF LogTypeOK
<1>3. LastPosition(S) \in P /\ \A f \in S : position[f] <= LastPosition(S)
  BY <1>2 DEF LastPosition
<1> QED BY <1>1, <1>3

\* A batch of a scan is a prefix of what is pending, empty only if nothing is.
LEMMA BatchIsPrefix ==
  ASSUME LogTypeOK, LogInv, NEW S \in SUBSET Facts
  PROVE  /\ FirstBatch(S) \subseteq S
         /\ FirstBatch(S) = {} => S = {}
         /\ \A b \in FirstBatch(S), f \in S : position[f] <= position[b] => f \in FirstBatch(S)
<1> DEFINE below(f) == {k \in S : position[k] < position[f]}
<1>1. \A f \in Facts : position[f] \in Nat
  BY DEF LogTypeOK
<1>2. Batch \in Nat \ {0}
  BY ProjectionAssumption
<1>3. ASSUME NEW f \in S PROVE IsFiniteSet(below(f)) /\ Cardinality(below(f)) \in Nat
  BY FS_Subset, FS_CardinalityType, EventLogAssumption
<1>4. ASSUME S # {} PROVE FirstBatch(S) # {}
  <2> DEFINE P == {position[f] : f \in S}
  <2>1. P \subseteq Nat /\ P # {}
    BY <1>1, <1>4
  <2>2. PICK p \in P : \A q \in P : p <= q
    <3> HIDE DEF P
    <3> QED BY <2>1, MinExists
  <2>3. PICK f \in S : position[f] = p
    BY <2>2
  <2>4. below(f) = {}
    BY <1>1, <2>2, <2>3
  <2>5. Cardinality(below(f)) < Batch
    BY <1>2, <2>4, FS_EmptySet
  <2> QED BY <2>5 DEF FirstBatch
<1>5. ASSUME NEW b \in FirstBatch(S), NEW f \in S, position[f] <= position[b]
      PROVE  f \in FirstBatch(S)
  <2>1. b \in S /\ Cardinality(below(b)) < Batch
    BY DEF FirstBatch
  <2>2. below(f) \subseteq below(b)
    BY <1>1, <1>5, <2>1
  <2>3. Cardinality(below(f)) <= Cardinality(below(b))
    BY <1>3, <2>1, <2>2, FS_Subset
  <2>4. Cardinality(below(f)) < Batch
    <3> HIDE DEF below
    <3> QED BY <1>2, <1>3, <2>1, <2>3
  <2> QED BY <2>4 DEF FirstBatch
<1> QED BY <1>4, <1>5 DEF FirstBatch

LEMMA OneWorkerMoves ==
  ASSUME ProjectionTypeOK, WorkerInv, LogStays, NEW w \in Workers, WorkerOK(w)',
         \A v \in Workers \ {w} : tick'[v] = tick[v] /\ lastHead'[v] = lastHead[v],
         \A g \in Groups \ GroupsOf[w] : checkpoint'[g] = checkpoint[g]
  PROVE  WorkerInv'
<1>1. ASSUME NEW v \in Workers \ {w} PROVE WorkerOK(v)'
  <2>1. \A g \in GroupsOf[v] : g \in Groups \ GroupsOf[w]
    BY ProjectionAssumption
  <2> QED BY <2>1, OthersKeep DEF WorkerInv
<1> QED BY <1>1 DEF WorkerInv

\* A worker that rests, with the gate armed by a head up to which every group
\* is caught up.
LEMMA RestingWorker ==
  ASSUME ProjectionTypeOK, LogInv, LogStays, NEW w \in Workers,
         tick'[w] = Resting, lastHead'[w] <= Head,
         \A f \in Facts : fact[f] = "open" => position[f] # lastHead'[w],
         UNCHANGED checkpoint, \A g \in GroupsOf[w] : CaughtUp(g, lastHead'[w])
  PROVE  WorkerOK(w)'
<1>1. Head' = Head /\ Head \in Nat
  BY HeadIsMax DEF LogStays, Head, Seen, factVars, markVars, ProjectionTypeOK, LogTypeOK
<1>2. \A g \in GroupsOf[w] : CaughtUp(g, lastHead[w])'
  BY DEF CaughtUp, LogStays, factVars
<1>3. \A f \in Facts : fact[f] = "open" => position[f] # 0
  BY DEF LogInv
<1> QED BY <1>1, <1>2, <1>3 DEF WorkerOK, Resting, Draining, LogStays, factVars

LEMMA BeginTickStep ==
  ASSUME ProjectionTypeOK, LogInv, GroupInv, WorkerInv, NEW w \in Workers, BeginTick(w)
  PROVE  ProjectionTypeOK' /\ GroupInv' /\ WorkerInv'
<1>1. /\ tick' = [tick EXCEPT ![w] = [Resting EXCEPT !.at = "groups", !.head = Head,
                                                     !.todo = GroupsOf[w]]]
      /\ UNCHANGED <<logVars, tracked, checkpoint, folded, skipped, lastHead>>
  BY DEF BeginTick
<1>2. /\ tick'[w].at = "groups" /\ tick'[w].head = Head /\ tick'[w].todo = GroupsOf[w]
      /\ \A v \in Workers \ {w} : tick'[v] = tick[v]
  BY <1>1 DEF Resting, ProjectionTypeOK
<1>3. LogStays /\ Head' = Head /\ Head \in Nat /\ Head \in Seen
  BY <1>1, HeadIsMax DEF LogStays, Head, Seen, logVars, factVars, markVars, ProjectionTypeOK, LogTypeOK
<1>4. WorkerOK(w)'
  <2>1. \A g \in GroupsOf[w] : CaughtUp(g, lastHead[w])'
    BY <1>1 DEF CaughtUp, logVars, factVars, WorkerInv, WorkerOK
  <2>2. \A f \in Facts : fact'[f] = "open" =>
          position'[f] # lastHead'[w] /\ position'[f] # tick'[w].head
    BY <1>1, <1>2, <1>3 DEF LogInv, logVars, factVars, WorkerInv, WorkerOK
  <2>3. lastHead'[w] <= Head
    BY <1>1 DEF WorkerInv, WorkerOK
  <2> QED BY <1>2, <1>3, <2>1, <2>2, <2>3 DEF WorkerOK, Draining
<1>5. ProjectionTypeOK'
  BY <1>1, <1>3, ProjectionAssumption
  DEF ProjectionTypeOK, LogTypeOK, logVars, factVars, markVars, Tick, Resting
<1> QED BY <1>1, <1>2, <1>3, <1>4, <1>5, GroupsKeep, OneWorkerMoves

LEMMA OpenGroupStep ==
  ASSUME ProjectionTypeOK, LogInv, GroupInv, WorkerInv, NEW w \in Workers, OpenGroup(w)
  PROVE  ProjectionTypeOK' /\ GroupInv' /\ WorkerInv'
<1>1. PICK g \in tick[w].todo :
        tick' = [tick EXCEPT ![w].at = "scan", ![w].todo = @ \ {g}, ![w].group = g,
                             ![w].from = checkpoint[g]]
  BY DEF OpenGroup
<1>2. /\ tick[w].at = "groups"
      /\ UNCHANGED <<logVars, tracked, checkpoint, folded, skipped, lastHead>>
  BY DEF OpenGroup
<1>3. tick[w] \in Tick /\ g \in Groups /\ g \in GroupsOf[w]
  BY <1>1 DEF ProjectionTypeOK, Tick, WorkerInv, WorkerOK
<1>4. tick' = [tick EXCEPT ![w] = [tick[w] EXCEPT !.at = "scan", !.todo = @ \ {g},
                                                  !.group = g, !.from = checkpoint[g]]]
  BY <1>1 DEF ProjectionTypeOK
<1>5. /\ tick'[w].at = "scan" /\ tick'[w].head = tick[w].head
      /\ tick'[w].todo = tick[w].todo \ {g}
      /\ tick'[w].group = g /\ tick'[w].from = checkpoint[g]
      /\ \A v \in Workers \ {w} : tick'[v] = tick[v]
  BY <1>3, <1>4 DEF ProjectionTypeOK, Tick
<1>6. LogStays /\ Head' = Head
  BY <1>2 DEF LogStays, Head, Seen, logVars, factVars, markVars
<1>7. WorkerOK(w)'
  <2>2. \A k \in GroupsOf[w] \ tick'[w].todo : k # g => CaughtUp(k, tick[w].head)
    BY <1>2, <1>5 DEF WorkerInv, WorkerOK, Draining
  <2>3. \A k \in GroupsOf[w] \ tick'[w].todo : k # g => CaughtUp(k, tick[w].head)'
    BY <1>2, <1>5, <2>2 DEF CaughtUp, logVars, factVars
  <2>4. \A k \in GroupsOf[w] : CaughtUp(k, lastHead[w])'
    BY <1>2 DEF CaughtUp, logVars, factVars, WorkerInv, WorkerOK
  <2>5. WorkerOK(w)
    BY DEF WorkerInv
  <2> QED BY <1>2, <1>3, <1>5, <1>6, <2>3, <2>4, <2>5 DEF WorkerOK, Draining, logVars, factVars
<1>8. ProjectionTypeOK'
  <2>1. [tick[w] EXCEPT !.at = "scan", !.todo = @ \ {g}, !.group = g, !.from = checkpoint[g]] \in Tick
    BY <1>3 DEF ProjectionTypeOK, Tick
  <2> QED BY <1>2, <1>4, <2>1 DEF ProjectionTypeOK, LogTypeOK, logVars, factVars, markVars
<1> QED BY <1>2, <1>5, <1>6, <1>7, <1>8, GroupsKeep, OneWorkerMoves

LEMMA ScanStep ==
  ASSUME ProjectionTypeOK, LogInv, GroupInv, WorkerInv, NEW w \in Workers, Scan(w)
  PROVE  ProjectionTypeOK' /\ GroupInv' /\ WorkerInv'
<1> DEFINE g == tick[w].group
           pending == Pending(g, tick[w].from)
           found == FirstBatch(pending)
<1>1. /\ tick[w].at = "scan"
      /\ tick' = [tick EXCEPT ![w].at = IF found = {} THEN "groups" ELSE "fold",
                              ![w].batch = found]
      /\ UNCHANGED <<logVars, tracked, checkpoint, folded, skipped, lastHead>>
  BY DEF Scan
<1>2. tick[w] \in Tick /\ WorkerOK(w)
  BY DEF ProjectionTypeOK, WorkerInv
<1>3. g \in GroupsOf[w] /\ g \in Groups /\ tick[w].from = checkpoint[g] /\ checkpoint[g] \in Nat
  BY <1>1, <1>2, ProjectionAssumption DEF WorkerOK, Draining, ProjectionTypeOK
<1>4. /\ pending \subseteq Facts /\ found \subseteq pending
      /\ found = {} => pending = {}
      /\ \A b \in found, f \in pending : position[f] <= position[b] => f \in found
  <2>1. pending \in SUBSET Facts
    BY DEF Pending
  <2> QED BY <2>1, BatchIsPrefix DEF ProjectionTypeOK
<1> HIDE DEF found, pending
<1>5. tick' = [tick EXCEPT ![w] = [tick[w] EXCEPT !.at = IF found = {} THEN "groups" ELSE "fold",
                                                  !.batch = found]]
  BY <1>1 DEF ProjectionTypeOK
<1>6. /\ tick'[w].at = IF found = {} THEN "groups" ELSE "fold"
      /\ tick'[w].batch = found
      /\ tick'[w].head = tick[w].head /\ tick'[w].todo = tick[w].todo
      /\ tick'[w].group = g /\ tick'[w].from = tick[w].from
      /\ \A v \in Workers \ {w} : tick'[v] = tick[v]
  BY <1>2, <1>5 DEF ProjectionTypeOK, Tick
<1>7. LogStays /\ Head' = Head
  BY <1>1 DEF LogStays, Head, Seen, logVars, factVars, markVars
<1>8. WorkerOK(w)'
  <2>1. ASSUME found # {} PROVE BatchOK(w)'
    <3>1. \A b \in found : fact[b] = "committed" /\ position[b] > tick[w].from
      BY <1>4 DEF pending, Pending
    <3>2. ASSUME NEW b \in found, NEW f \in Facts, fact[f] = "committed",
                 StreamOf[f] \in Reads[g], position[f] > tick[w].from,
                 position[f] <= position[b]
          PROVE  f \in found
      <4>1. f \in pending
        BY <3>2 DEF pending, Pending
      <4> QED BY <1>4, <3>2, <4>1
    <3> QED BY <1>1, <1>6, <2>1, <3>1, <3>2 DEF BatchOK, Settled, logVars, factVars
  <2>2. ASSUME found = {}, NEW head PROVE CaughtUp(g, head)
    BY <1>3, <1>4, <2>2 DEF CaughtUp, pending, Pending
  <2>3. ASSUME NEW k \in GroupsOf[w] \ tick[w].todo, found = {} \/ k # g
        PROVE  CaughtUp(k, tick[w].head)
    BY <1>1, <1>2, <2>2, <2>3 DEF WorkerOK, Draining
  <2>4. \A k \in GroupsOf[w] \ tick[w].todo :
          found = {} \/ k # g => CaughtUp(k, tick[w].head)'
    BY <1>1, <1>6, <2>3 DEF CaughtUp, logVars, factVars
  <2>5. \A k \in GroupsOf[w] : CaughtUp(k, lastHead[w])'
    BY <1>1, <1>2 DEF CaughtUp, logVars, factVars, WorkerOK
  <2>6. \A k \in GroupsOf[w] \ tick'[w].todo :
          (Draining(w)' => k # tick'[w].group) => CaughtUp(k, tick[w].head)'
    BY <1>6, <2>4 DEF Draining
  <2>7. Draining(w)' => /\ tick'[w].group \in GroupsOf[w]
                        /\ tick'[w].from = checkpoint'[tick'[w].group]
    BY <1>1, <1>3, <1>6
  <2>8. tick'[w].at = "fold" => BatchOK(w)'
    BY <1>6, <2>1
  <2>9. /\ lastHead'[w] <= Head' /\ tick'[w].head <= Head'
        /\ \A f \in Facts : fact'[f] = "open" =>
             position'[f] # lastHead'[w] /\ position'[f] # tick'[w].head
    BY <1>1, <1>2, <1>6, <1>7 DEF WorkerOK, logVars, factVars
  <2> QED BY <1>2, <1>6, <2>5, <2>6, <2>7, <2>8, <2>9 DEF WorkerOK
<1>9. ProjectionTypeOK'
  <2>1. [tick[w] EXCEPT !.at = IF found = {} THEN "groups" ELSE "fold", !.batch = found] \in Tick
    BY <1>2, <1>4 DEF Tick
  <2> QED BY <1>1, <1>5, <2>1 DEF ProjectionTypeOK, LogTypeOK, logVars, factVars, markVars
<1> QED BY <1>1, <1>6, <1>7, <1>8, <1>9, GroupsKeep, OneWorkerMoves

\* A worker's tick ends, whole or not.
LEMMA TickEndsStep ==
  ASSUME ProjectionTypeOK, LogInv, GroupInv, WorkerInv, LogTypeOK', NEW w \in Workers,
         EndTick(w) \/ TickFails(w) \/ CrashProjector(w)
  PROVE  ProjectionTypeOK' /\ GroupInv' /\ WorkerInv'
<1>1. /\ tick' = [tick EXCEPT ![w] = Resting]
      /\ LogStays /\ UNCHANGED <<tracked, checkpoint, folded, skipped>>
  BY DEF EndTick, TickFails, CrashProjector, LogStays, logVars
<1>2. /\ tick'[w] = Resting
      /\ \A v \in Workers \ {w} : tick'[v] = tick[v]
  BY <1>1 DEF ProjectionTypeOK
<1>3. /\ lastHead' \in [Workers -> Nat \union {-1}]
      /\ lastHead'[w] <= Head
      /\ \A f \in Facts : fact[f] = "open" => position[f] # lastHead'[w]
      /\ \A g \in GroupsOf[w] : CaughtUp(g, lastHead'[w])
      /\ \A v \in Workers \ {w} : lastHead'[v] = lastHead[v]
  <2>1. CASE EndTick(w)
    <3>1. lastHead' = [lastHead EXCEPT ![w] = tick[w].head] /\ tick[w].head \in Nat
      BY <2>1 DEF EndTick, ProjectionTypeOK, Tick
    <3>2. lastHead'[w] = tick[w].head
      BY <3>1 DEF ProjectionTypeOK
    <3>3. tick[w].at = "groups" /\ tick[w].todo = {}
      BY <2>1 DEF EndTick
    <3>4. \A g \in GroupsOf[w] : CaughtUp(g, tick[w].head)
      BY <3>3 DEF WorkerInv, WorkerOK, Draining
    <3> QED BY <3>1, <3>2, <3>4 DEF WorkerInv, WorkerOK, ProjectionTypeOK
  <2>2. CASE TickFails(w)
    BY <2>2 DEF TickFails, WorkerInv, WorkerOK, ProjectionTypeOK
  <2>3. CASE CrashProjector(w)
    <3>1. lastHead' = [lastHead EXCEPT ![w] = -1]
      BY <2>3 DEF CrashProjector
    <3>2. \A f \in Facts : position[f] \in Nat
      BY DEF ProjectionTypeOK, LogTypeOK
    <3>3. Head \in Nat
      BY HeadIsMax DEF ProjectionTypeOK, LogTypeOK
    <3>4. lastHead'[w] = -1
      BY <3>1 DEF ProjectionTypeOK
    <3>5. \A g \in GroupsOf[w] : CaughtUp(g, -1)
      BY <3>2 DEF CaughtUp
    <3> QED BY <3>1, <3>2, <3>3, <3>4, <3>5 DEF ProjectionTypeOK
  <2> QED BY <2>1, <2>2, <2>3
<1>4. WorkerOK(w)'
  BY <1>1, <1>2, <1>3, RestingWorker
<1>5. Resting \in Tick
  BY DEF Resting, Tick
<1>6. ProjectionTypeOK'
  BY <1>1, <1>3, <1>5 DEF ProjectionTypeOK
<1> QED BY <1>1, <1>2, <1>3, <1>4, <1>6, GroupsKeep, OneWorkerMoves

\* Checkpoints and what is dealt with only grow.
Progress ==
  /\ tracked \subseteq tracked'
  /\ \A g \in Groups :
       /\ checkpoint[g] <= checkpoint'[g]
       /\ folded[g] \union skipped[g] \subseteq folded'[g] \union skipped'[g]

\* The batch commits: what it had is folded or given up, and its checkpoint
\* passes over nothing else that was not late.
LEMMA FoldStep ==
  ASSUME ProjectionTypeOK, LogInv, GroupInv, WorkerInv, LogTypeOK', NEW w \in Workers, Fold(w)
  PROVE  ProjectionTypeOK' /\ GroupInv' /\ WorkerInv' /\ Progress
<1> DEFINE g == tick[w].group
           batch == tick[w].batch
           last == LastPosition(batch)
<1>1. PICK bad \in SUBSET batch :
        /\ tick[w].at = "fold"
        /\ folded' = [folded EXCEPT ![g] = @ \union (batch \ bad)]
        /\ skipped' = [skipped EXCEPT ![g] = @ \union bad]
        /\ checkpoint' = [checkpoint EXCEPT ![g] = last]
        /\ tracked' = tracked \union {g}
        /\ tick' = [tick EXCEPT ![w].at = "scan", ![w].from = last, ![w].batch = {}]
        /\ UNCHANGED <<factVars, markVars, lastHead>>
  BY DEF Fold, SaveCheckpoint
<1>2. tick[w] \in Tick /\ WorkerOK(w) /\ BatchOK(w)
  BY <1>1 DEF ProjectionTypeOK, WorkerInv, WorkerOK
<1>3. /\ g \in GroupsOf[w] /\ g \in Groups /\ tick[w].from = checkpoint[g]
      /\ checkpoint[g] \in Nat
      /\ batch \in SUBSET Facts /\ batch # {}
  BY <1>1, <1>2, ProjectionAssumption DEF WorkerOK, Draining, ProjectionTypeOK, Tick, BatchOK
<1>4. /\ \E b \in batch : last = position[b]
      /\ \A b \in batch : position[b] <= last
      /\ last \in Nat
  BY <1>3, LastPositionIsMax DEF ProjectionTypeOK
<1>5. \A b \in batch : Settled(b) /\ position[b] > checkpoint[g]
  BY <1>2, <1>3 DEF BatchOK
<1>6. ASSUME NEW f \in Facts, fact[f] = "committed", StreamOf[f] \in Reads[g],
             position[f] > checkpoint[g], position[f] <= last
      PROVE  f \in batch \union late
  BY <1>2, <1>3, <1>4, <1>6 DEF BatchOK
<1>7. checkpoint[g] < last
  BY <1>3, <1>4, <1>5 DEF ProjectionTypeOK, LogTypeOK
<1> HIDE DEF last
<1>8. tick' = [tick EXCEPT ![w] = [tick[w] EXCEPT !.at = "scan", !.from = last, !.batch = {}]]
  BY <1>1 DEF ProjectionTypeOK
<1>9. /\ tick'[w].at = "scan" /\ tick'[w].batch = {}
      /\ tick'[w].head = tick[w].head /\ tick'[w].todo = tick[w].todo
      /\ tick'[w].group = g /\ tick'[w].from = last
      /\ \A v \in Workers \ {w} : tick'[v] = tick[v]
  BY <1>2, <1>8 DEF ProjectionTypeOK, Tick
<1>10. LogStays /\ Head' = Head
  BY <1>1 DEF LogStays, Head, Seen, factVars, markVars
<1>11. /\ \A k \in Groups : checkpoint'[k] = IF k = g THEN last ELSE checkpoint[k]
       /\ \A k \in Groups : folded'[k] \union skipped'[k] =
            folded[k] \union skipped[k] \union IF k = g THEN batch ELSE {}
  BY <1>1, <1>3 DEF ProjectionTypeOK
<1>12. GroupInv'
  <2>1. ASSUME NEW k \in Groups
        PROVE  checkpoint'[k] = 0 \/ \E h \in Facts : Settled(h)' /\ checkpoint'[k] = position'[h]
    <3>1. CASE k = g
      <4>1. PICK b \in batch : last = position[b]
        BY <1>4
      <4>2. Settled(b)' /\ position'[b] = position[b] /\ b \in Facts
        BY <1>1, <1>3, <1>5 DEF Settled, factVars
      <4> QED BY <1>11, <3>1, <4>1, <4>2
    <3>2. CASE k # g
      BY <1>1, <1>11, <3>2 DEF GroupInv, Settled, factVars
    <3> QED BY <3>1, <3>2
  <2>2. ASSUME NEW k \in Groups, NEW f \in folded'[k] \union skipped'[k]
        PROVE  Settled(f)' /\ position'[f] <= checkpoint'[k]
    <3>1. UNCHANGED <<fact, position>>
      BY <1>1 DEF factVars
    <3>2. CASE f \in folded[k] \union skipped[k]
      <4>1. Settled(f) /\ position[f] <= checkpoint[k] /\ f \in Facts
        BY <3>2 DEF GroupInv, ProjectionTypeOK
      <4>2. checkpoint[k] \in Nat /\ position[f] \in Nat /\ checkpoint[k] <= checkpoint'[k]
        BY <1>4, <1>7, <1>11, <4>1 DEF ProjectionTypeOK, LogTypeOK
      <4> QED BY <3>1, <4>1, <4>2, <1>4, <1>11 DEF Settled
    <3>3. CASE k = g /\ f \in batch
      BY <1>4, <1>5, <1>11, <3>1, <3>3 DEF Settled
    <3> QED BY <1>11, <2>2, <3>2, <3>3
  <2>3. ASSUME NEW k \in Groups, NEW f \in Facts, fact'[f] = "committed",
               StreamOf[f] \in Reads[k], position'[f] <= checkpoint'[k]
        PROVE  f \in folded'[k] \union skipped'[k] \union late'
    <3>1. UNCHANGED <<fact, position, late>>
      BY <1>1 DEF factVars
    <3>2. CASE position[f] <= checkpoint[k]
      BY <1>11, <2>3, <3>1, <3>2 DEF GroupInv, NothingBehindCheckpoint
    <3>3. CASE k = g /\ position[f] > checkpoint[k]
      BY <1>6, <1>11, <2>3, <3>1, <3>3
    <3>4. CASE k # g
      BY <1>11, <2>3, <3>1, <3>2, <3>4
    <3> QED BY <3>2, <3>3, <3>4 DEF ProjectionTypeOK, LogTypeOK
  <2> QED BY <2>1, <2>2, <2>3 DEF GroupInv, NothingBehindCheckpoint
<1>13. WorkerOK(w)'
  <2>1. ASSUME NEW k \in GroupsOf[w], NEW head, CaughtUp(k, head) PROVE CaughtUp(k, head)'
    <3>1. k \in Groups /\ UNCHANGED <<fact, position, late>>
      BY <1>1, ProjectionAssumption DEF factVars
    <3>2. checkpoint[k] <= checkpoint'[k] /\ checkpoint[k] \in Nat /\ checkpoint'[k] \in Nat
      BY <1>3, <1>4, <1>7, <1>11, <3>1 DEF ProjectionTypeOK
    <3> QED BY <2>1, <3>1, <3>2 DEF CaughtUp, ProjectionTypeOK, LogTypeOK
  <2>2. \A k \in GroupsOf[w] : CaughtUp(k, lastHead[w])'
    <3>1. \A k \in GroupsOf[w] : CaughtUp(k, lastHead[w])
      BY <1>2 DEF WorkerOK
    <3> QED BY <1>1, <2>1, <3>1
  <2>3. \A k \in GroupsOf[w] \ tick'[w].todo :
          (Draining(w)' => k # tick'[w].group) => CaughtUp(k, tick[w].head)'
    <3>1. \A k \in GroupsOf[w] \ tick[w].todo : k # g => CaughtUp(k, tick[w].head)
      BY <1>1, <1>2 DEF WorkerOK, Draining
    <3> QED BY <1>9, <2>1, <3>1 DEF Draining
  <2>4. /\ tick'[w].group \in GroupsOf[w]
        /\ tick'[w].from = checkpoint'[tick'[w].group]
        /\ tick'[w].at # "fold"
        /\ tick'[w].todo \subseteq GroupsOf[w]
    BY <1>2, <1>3, <1>9, <1>11 DEF WorkerOK
  <2>5. /\ lastHead'[w] <= Head' /\ tick'[w].head <= Head'
        /\ \A f \in Facts : fact'[f] = "open" =>
             position'[f] # lastHead'[w] /\ position'[f] # tick'[w].head
    BY <1>1, <1>2, <1>9, <1>10 DEF WorkerOK, factVars
  <2> QED BY <2>2, <2>3, <2>4, <2>5 DEF WorkerOK
<1>14. ProjectionTypeOK'
  <2>1. [tick[w] EXCEPT !.at = "scan", !.from = last, !.batch = {}] \in Tick
    BY <1>2, <1>4 DEF Tick
  <2>2. tick' \in [Workers -> Tick]
    BY <1>8, <2>1 DEF ProjectionTypeOK
  <2>3. /\ tracked' \in SUBSET Groups /\ checkpoint' \in [Groups -> Nat]
        /\ folded' \in [Groups -> SUBSET Facts] /\ skipped' \in [Groups -> SUBSET Facts]
        /\ lastHead' \in [Workers -> Nat \union {-1}]
    BY <1>1, <1>3, <1>4 DEF ProjectionTypeOK
  <2> QED BY <2>2, <2>3 DEF ProjectionTypeOK
<1>15. \A k \in Groups \ GroupsOf[w] : checkpoint'[k] = checkpoint[k]
  BY <1>3, <1>11
<1>16. \A v \in Workers \ {w} : tick'[v] = tick[v] /\ lastHead'[v] = lastHead[v]
  BY <1>1, <1>9
<1>17. Progress
  BY <1>1, <1>3, <1>4, <1>7, <1>11 DEF Progress, ProjectionTypeOK
<1> QED BY <1>10, <1>12, <1>13, <1>14, <1>15, <1>16, <1>17, OneWorkerMoves

LEMMA ProjectionStarts == ASSUME LogInit, ProjectionInit PROVE ProjectionTypeOK /\ LogInv /\ GroupInv /\ WorkerInv
<1> USE DEF LogInit, ProjectionInit
<1>1. LogTypeOK
  BY EventLogAssumption DEF LogTypeOK
<1>2. ProjectionTypeOK
  BY <1>1, ProjectionAssumption DEF ProjectionTypeOK, Tick, Resting
<1>3. LogInv
  BY DEF LogInv, Settled
<1>4. GroupInv
  BY DEF GroupInv, NothingBehindCheckpoint
<1>5. Head \in Nat
  BY <1>1, <1>3, HeadIsMax DEF LogTypeOK
<1>6. WorkerInv
  BY <1>5 DEF WorkerInv, WorkerOK, Resting, Draining, CaughtUp
<1> QED BY <1>2, <1>3, <1>4, <1>6

ProjectionInv == ProjectionTypeOK /\ LogInv /\ GroupInv /\ WorkerInv

LEMMA ProjectionStep ==
  ASSUME ProjectionInv, [ErasureNext]_erasureVars
  PROVE  ProjectionInv' /\ LogEffects /\ Progress
<1> USE DEF ProjectionInv
<1>1. LogTypeOK' /\ LogInv' /\ LogEffects
  BY LogStep DEF ProjectionTypeOK
<1>2. ASSUME UNCHANGED projectorVars PROVE ProjectionInv' /\ Progress
  <2>1. ProjectionTypeOK'
    BY <1>1, <1>2 DEF ProjectionTypeOK, projectorVars
  <2>2. Progress
    BY <1>2 DEF Progress, projectorVars, ProjectionTypeOK
  <2> QED BY <1>1, <1>2, <2>1, <2>2, LogMovesUnderWorkers
<1>3. ASSUME NEW w \in Workers, TickStep(w) \/ TickFails(w) \/ CrashProjector(w)
      PROVE  ProjectionInv' /\ Progress
  <2>1. ASSUME UNCHANGED <<tracked, checkpoint, folded, skipped>> PROVE Progress
    BY <2>1 DEF Progress, ProjectionTypeOK
  <2>2. CASE BeginTick(w)
    BY <1>1, <2>1, <2>2, BeginTickStep DEF BeginTick
  <2>3. CASE OpenGroup(w)
    BY <1>1, <2>1, <2>3, OpenGroupStep DEF OpenGroup
  <2>4. CASE Scan(w)
    BY <1>1, <2>1, <2>4, ScanStep DEF Scan
  <2>5. CASE Fold(w)
    BY <1>1, <2>5, FoldStep
  <2>6. CASE EndTick(w) \/ TickFails(w) \/ CrashProjector(w)
    BY <1>1, <2>1, <2>6, TickEndsStep DEF EndTick, TickFails, CrashProjector
  <2> QED BY <1>3, <2>2, <2>3, <2>4, <2>5, <2>6 DEF TickStep
<1>4. ASSUME EngineStep \/ EngineFails PROVE UNCHANGED projectorVars
  BY <1>4 DEF EngineStep, EngineFails, BeginPass, ReadHead, ScanExpiries, ReadStream,
     WriteTombstone, EraseStream, EndPass
<1> QED BY <1>1, <1>2, <1>3, <1>4 DEF ErasureNext, erasureVars

\* Appends, erasures, folds, ticks and crashes keep what the projection
\* workers rely on.
THEOREM ProjectionInvariant == ErasureSpec => []ProjectionInv
<1>1. ErasureInit => ProjectionInv
  BY ProjectionStarts DEF ErasureInit, ProjectionInv
<1>2. ProjectionInv /\ [ErasureNext]_erasureVars => ProjectionInv'
  BY ProjectionStep
<1> QED BY <1>1, <1>2, PTL DEF ErasureSpec

\* Whatever a group's checkpoint has passed was folded, given up, or
\* committed below a position somebody could already see.
THEOREM CheckpointsHideNothing == ErasureSpec => []NothingBehindCheckpoint
<1>1. ProjectionInv => NothingBehindCheckpoint
  BY DEF ProjectionInv, GroupInv
<1> QED BY <1>1, ProjectionInvariant, PTL

\* While the idle gate of a worker is closed, its groups have nothing to do
\* but what was committed late.
THEOREM ClosedGateIsSafe == ErasureSpec => []GateMeansDrained
<1>1. ProjectionInv => GateMeansDrained
  BY DEF ProjectionInv, WorkerInv, WorkerOK, CaughtUp, GateMeansDrained, Pending, LogInv, Settled
<1> QED BY <1>1, ProjectionInvariant, PTL

-----------------------------------------------------------------------------
(***************************************************************************)
(* The deletion engine.                                                    *)
(***************************************************************************)
EngineTypeOK ==
  /\ cursor \in 0 .. lastPosition
  /\ engine \in Engine
  /\ engine.bound <= lastPosition

\* The expiries in hand are still there and inside the window; the window ends
\* where every group that had a row at the start has been.
EngineInv ==
  /\ Groups \ Fresh \subseteq tracked
  /\ \A e \in engine.facts : fact[e] = "committed" /\ position[e] <= engine.bound
  /\ engine.at \in {"rest", "head", "scan"} => engine.facts = {}
  /\ engine.at = "head" =>
       \A g \in Groups \ Fresh : \E p \in engine.others : p <= checkpoint[g]
  /\ engine.at \in {"scan", "facts", "tombstone", "erase"} =>
       \A g \in Groups \ Fresh : engine.bound <= checkpoint[g]

LEMMA BoundIsMinimum ==
  ASSUME LogTypeOK, LogInv, NEW S \in SUBSET Nat
  PROVE  Bound(S) \in 0 .. lastPosition /\ \A p \in S : Bound(S) <= p
<1>1. Head \in 0 .. lastPosition
  BY HeadIsMax
<1>2. CASE S = {}
  BY <1>1, <1>2 DEF Bound
<1>3. CASE S # {}
  <2> DEFINE min == CHOOSE p \in S : \A q \in S : p <= q
  <2>1. min \in S /\ \A q \in S : min <= q
    BY <1>3, MinExists
  <2>2. Bound(S) = IF min < Head THEN min ELSE Head
    BY <1>3 DEF Bound
  <2> HIDE DEF min
  <2> QED BY <1>1, <2>1, <2>2 DEF LogTypeOK
<1> QED BY <1>2, <1>3

\* Steps that are not the engine's.
LEMMA EngineRests ==
  ASSUME ProjectionInv, LogEffects, Progress, ProjectionInv', EngineTypeOK, EngineInv,
         UNCHANGED <<cursor, engine>>, \A f \in Facts : fact[f] = "committed" => fact'[f] = "committed"
  PROVE  EngineTypeOK' /\ EngineInv'
<1> USE DEF ProjectionInv, ProjectionTypeOK, LogTypeOK
<1>1. engine.facts \subseteq Facts /\ engine.bound \in Nat /\ engine.others \subseteq Nat
  BY EventLogAssumption DEF EngineTypeOK, Engine
<1>2. EngineTypeOK'
  BY <1>1 DEF EngineTypeOK, LogEffects
<1>3. \A e \in engine.facts : fact'[e] = "committed" /\ position'[e] <= engine.bound
  BY <1>1 DEF EngineInv, LogEffects, Settled
<1>4. \A g \in Groups : checkpoint[g] <= checkpoint'[g] /\ checkpoint[g] \in Nat /\ checkpoint'[g] \in Nat
  BY DEF Progress
<1>5. engine.at = "head" =>
        \A g \in Groups \ Fresh : \E p \in engine.others : p <= checkpoint'[g]
  <2> SUFFICES ASSUME engine.at = "head", NEW g \in Groups \ Fresh
               PROVE  \E p \in engine.others : p <= checkpoint'[g]
    OBVIOUS
  <2>1. PICK p \in engine.others : p <= checkpoint[g]
    BY DEF EngineInv
  <2> QED BY <1>1, <1>4, <2>1
<1>6. engine.at \in {"scan", "facts", "tombstone", "erase"} =>
        \A g \in Groups \ Fresh : engine.bound <= checkpoint'[g]
  BY <1>1, <1>4 DEF EngineInv
<1>7. Groups \ Fresh \subseteq tracked'
  BY DEF EngineInv, Progress
<1>8. engine' = engine
  OBVIOUS
<1> QED BY <1>2, <1>3, <1>5, <1>6, <1>7, <1>8 DEF EngineInv

LEMMA AdvanceType ==
  ASSUME LogTypeOK, lastPosition' \in Nat, lastPosition <= lastPosition', EngineTypeOK,
         NEW p \in Nat, p <= lastPosition, Advance(p)
  PROVE  cursor' \in 0 .. lastPosition'
  BY DEF Advance, EngineTypeOK, LogTypeOK

\* The engine's next expiry is a fact with a drawn position.
LEMMA NextIsDrawn ==
  ASSUME LogTypeOK, LogInv, NEW e \in Expiries
  PROVE  /\ e \in Facts /\ StreamOf[e] \in Streams
         /\ position[e] \in Nat /\ position[e] <= lastPosition
  BY EventLogAssumption, StreamOfFactIsStream DEF LogTypeOK, LogInv

LEMMA EngineTypesStep ==
  ASSUME ProjectionInv, ProjectionInv', LogEffects, EngineTypeOK, [ErasureNext]_erasureVars
  PROVE  EngineTypeOK'
<1>1. /\ LogTypeOK /\ LogInv /\ lastPosition \in Nat /\ lastPosition' \in Nat
      /\ lastPosition <= lastPosition'
  BY DEF ProjectionInv, ProjectionTypeOK, LogTypeOK, LogEffects
<1>2. /\ engine \in Engine /\ engine.bound \in Nat /\ engine.bound <= lastPosition
      /\ cursor \in 0 .. lastPosition
  BY DEF EngineTypeOK, Engine
<1>3. IdleEngine \in Engine /\ IdleEngine.bound = 0
  BY DEF IdleEngine, Engine
<1>4. ASSUME cursor' \in 0 .. lastPosition', engine' \in Engine,
             engine'.bound \in {0, engine.bound} PROVE EngineTypeOK'
  BY <1>1, <1>2, <1>4 DEF EngineTypeOK
<1>5. ASSUME UNCHANGED cursor PROVE cursor' \in 0 .. lastPosition'
  BY <1>1, <1>2, <1>5
<1>6. CASE UNCHANGED <<cursor, engine>>
  BY <1>2, <1>4, <1>5, <1>6
<1>7. CASE BeginPass
  <2> DEFINE others == {checkpoint[g] : g \in tracked}
  <2>1. others \in SUBSET Nat
    BY DEF ProjectionInv, ProjectionTypeOK
  <2>2. engine' \in Engine /\ engine'.bound = 0
    <3>1. engine' = [at |-> "head", from |-> cursor, others |-> others, bound |-> 0,
                     facts |-> {}, rows |-> {}]
      BY <1>7 DEF BeginPass, IdleEngine
    <3> HIDE DEF others
    <3> QED BY <1>1, <1>2, <2>1, <3>1 DEF Engine
  <2> QED BY <1>4, <1>5, <1>7, <2>2 DEF BeginPass
<1>8. CASE ReadHead
  <2>1. engine.others \in SUBSET Nat
    BY <1>2 DEF Engine
  <2>2. Bound(engine.others) \in 0 .. lastPosition
    BY <1>1, <2>1, BoundIsMinimum
  <2>3. CASE engine' = IdleEngine
    BY <1>3, <1>4, <1>5, <1>8, <2>3 DEF ReadHead
  <2>4. CASE engine' = [engine EXCEPT !.at = "scan", !.others = {}, !.bound = Bound(engine.others)]
    <3>1. engine' \in Engine /\ engine'.bound = Bound(engine.others)
      <4> DEFINE bound == Bound(engine.others)
      <4>1. bound \in Nat /\ engine' = [engine EXCEPT !.at = "scan", !.others = {}, !.bound = bound]
        BY <1>1, <2>2, <2>4
      <4> HIDE DEF bound
      <4>2. engine' \in Engine /\ engine'.bound = bound
        BY <1>2, <4>1 DEF Engine
      <4> QED BY <4>2 DEF bound
    <3> QED BY <1>1, <1>5, <1>8, <2>2, <3>1 DEF ReadHead, EngineTypeOK
  <2> QED BY <1>8, <2>3, <2>4 DEF ReadHead
<1>9. CASE ScanExpiries
  <2>1. Window \subseteq Expiries
    BY DEF Window
  <2>2. engine' \in Engine /\ engine'.bound = engine.bound
    BY <1>2, <1>9, <2>1 DEF ScanExpiries, Engine
  <2> QED BY <1>4, <1>5, <1>9, <2>2 DEF ScanExpiries
<1>10. CASE ReadStream
  <2>1. PICK e \in Expiries :
          LET rows == Rows(StreamOf[e]) IN
          IF rows = {}
            THEN Advance(position[e]) /\ engine' = [engine EXCEPT !.facts = @ \ {e}]
            ELSE engine' = [engine EXCEPT !.at = "tombstone", !.rows = rows] /\ UNCHANGED cursor
    BY <1>10 DEF ReadStream
  <2>2. engine' \in Engine /\ engine'.bound = engine.bound
    BY <1>2, <2>1 DEF Engine, Rows
  <2>3. cursor' \in 0 .. lastPosition'
    BY <1>1, <1>5, <2>1, AdvanceType, NextIsDrawn
  <2> QED BY <1>4, <2>2, <2>3
<1>11. CASE WriteTombstone
  <2>1. engine' = IdleEngine \/ engine' = [engine EXCEPT !.at = "erase"]
    BY <1>11 DEF WriteTombstone, Mark
  <2>2. engine' \in Engine /\ engine'.bound \in {0, engine.bound}
    BY <1>2, <1>3, <2>1 DEF Engine
  <2> QED BY <1>4, <1>5, <1>11, <2>2 DEF WriteTombstone
<1>12. CASE EraseStream
  <2>1. PICK e \in Expiries :
          /\ Advance(position[e])
          /\ engine' = [engine EXCEPT !.at = "facts", !.facts = @ \ {e}, !.rows = {}]
    BY <1>12 DEF EraseStream
  <2>2. engine' \in Engine /\ engine'.bound = engine.bound
    BY <1>2, <2>1 DEF Engine
  <2>3. cursor' \in 0 .. lastPosition'
    BY <1>1, <2>1, AdvanceType, NextIsDrawn
  <2> QED BY <1>4, <2>2, <2>3
<1>13. CASE EndPass
  <2>1. cursor' \in 0 .. lastPosition'
    BY <1>1, <1>2, <1>13, AdvanceType DEF EndPass
  <2> QED BY <1>3, <1>4, <1>13, <2>1 DEF EndPass
<1>14. CASE EngineFails
  BY <1>3, <1>4, <1>5, <1>14 DEF EngineFails
<1> QED BY <1>6, <1>7, <1>8, <1>9, <1>10, <1>11, <1>12, <1>13, <1>14
        DEF ErasureNext, EngineStep, Tail, erasureVars

LEMMA EngineStarts == ASSUME ErasureInit PROVE EngineTypeOK /\ EngineInv
  BY ProjectionAssumption
  DEF ErasureInit, LogInit, ProjectionInit, EngineTypeOK, EngineInv, Engine, IdleEngine

\* Types hold, and the engine's cursor never runs ahead of the sequence, even
\* when no group has a checkpoint row.
THEOREM ErasureTypesHold == ErasureSpec => []ErasureTypeOK
<1>1. ErasureInit => EngineTypeOK
  BY EngineStarts
<1>2. ProjectionInv /\ ProjectionInv' /\ EngineTypeOK /\ [ErasureNext]_erasureVars => EngineTypeOK'
  BY ProjectionStep, EngineTypesStep
<1>3. ProjectionInv /\ EngineTypeOK => ErasureTypeOK
  BY DEF ProjectionInv, EngineTypeOK, ErasureTypeOK
<1> QED BY <1>1, <1>2, <1>3, ProjectionInvariant, PTL DEF ErasureSpec

-----------------------------------------------------------------------------
(***************************************************************************)
(* The journey of a stream that expires once.                              *)
(***************************************************************************)
\* The recorder of the expiry appends it once (application/src/commands.rs,
\* record_inbound_order_event).
OneExpiry == \A d, e \in Expiries : StreamOf[d] = StreamOf[e] => d = e

\* A row is erased with the expiry of its stream.
ErasedWithExpiry ==
  \A f \in Facts : fact[f] = "erased" =>
    \E e \in Expiries : StreamOf[e] = StreamOf[f] /\ fact[e] = "erased"

JourneyInv == EngineInv /\ ErasedWithExpiry /\ ReceiptIffErased /\ ErasedWereFolded

NothingErased ==
  /\ \A f \in Facts : /\ fact'[f] = "erased" <=> fact[f] = "erased"
                      /\ fact[f] = "committed" => fact'[f] = "committed"
  /\ UNCHANGED receipts

LEMMA OnlyTheEngineErases ==
  ASSUME LogTypeOK, [ErasureNext]_erasureVars, ~EraseStream PROVE NothingErased
<1> USE DEF LogTypeOK
<1>1. ASSUME UNCHANGED <<fact, receipts>> PROVE NothingErased
  BY <1>1 DEF NothingErased
<1>2. ASSUME NEW f \in Facts, Append(f) \/ Land(f) \/ Abort(f) PROVE NothingErased
  BY <1>2 DEF Append, Land, Abort, markVars, NothingErased
<1>3. ASSUME NEW w \in Workers, TickStep(w) \/ TickFails(w) \/ CrashProjector(w)
      PROVE  UNCHANGED <<fact, receipts>>
  BY <1>3 DEF TickStep, BeginTick, OpenGroup, Scan, Fold, EndTick, TickFails, CrashProjector,
     logVars, factVars, markVars
<1>4. ASSUME EngineStep \/ EngineFails PROVE UNCHANGED <<fact, receipts>>
  BY <1>4 DEF EngineStep, EngineFails, BeginPass, ReadHead, ScanExpiries, ReadStream,
     WriteTombstone, EndPass, logVars, factVars, markVars
<1> QED BY <1>1, <1>2, <1>3, <1>4 DEF ErasureNext, erasureVars, logVars, factVars, markVars

\* Nothing is erased: what was said of the erased stays true.
LEMMA HistoryKeeps ==
  ASSUME ProjectionInv, LogEffects, Progress, NothingErased,
         ErasedWithExpiry, ReceiptIffErased, ErasedWereFolded
  PROVE  ErasedWithExpiry' /\ ReceiptIffErased' /\ ErasedWereFolded'
<1>0. Expiries \subseteq Facts
  BY EventLogAssumption
<1>1. ErasedWithExpiry'
  BY <1>0 DEF ErasedWithExpiry, NothingErased
<1>2. ReceiptIffErased'
  BY <1>0 DEF ReceiptIffErased, NothingErased
<1>3. ErasedWereFolded'
  <2> SUFFICES ASSUME NEW e \in Expiries, NEW f \in Facts, NEW g \in Groups \ Fresh,
                      fact'[e] = "erased", StreamOf[f] = StreamOf[e], StreamOf[f] \in Reads[g],
                      fact'[f] = "erased", position'[f] <= position'[e]
               PROVE  f \in folded'[g] \union skipped'[g] \union late'
    BY DEF ErasedWereFolded
  <2>1. fact[e] = "erased" /\ fact[f] = "erased"
    BY <1>0 DEF NothingErased
  <2>2. position'[e] = position[e] /\ position'[f] = position[f]
    BY <1>0, <2>1 DEF LogEffects, Settled
  <2> QED BY <2>1, <2>2 DEF ErasedWereFolded, LogEffects, Progress
<1> QED BY <1>1, <1>2, <1>3

\* The engine's steps that erase nothing.
LEMMA EngineStepKeeps ==
  ASSUME ProjectionInv, EngineTypeOK, EngineInv, NothingErased,
         BeginPass \/ ReadHead \/ ScanExpiries \/ ReadStream \/ WriteTombstone \/ EndPass \/ EngineFails
  PROVE  EngineInv'
<1> USE DEF ProjectionInv, ProjectionTypeOK, LogTypeOK
<1>1. /\ engine \in Engine /\ engine.facts \subseteq Facts /\ engine.others \in SUBSET Nat
      /\ engine.bound \in Nat
  BY EventLogAssumption DEF EngineTypeOK, Engine
<1>2. /\ UNCHANGED <<tracked, checkpoint, position>>
      /\ \A e \in engine.facts : fact'[e] = "committed"
  BY <1>1 DEF BeginPass, ReadHead, ScanExpiries, ReadStream, WriteTombstone, EndPass, EngineFails,
     logVars, factVars, projectorVars, NothingErased, EngineInv
<1>3. CASE engine' = IdleEngine
  BY <1>2, <1>3 DEF EngineInv, IdleEngine
<1>4. CASE BeginPass
  <2> DEFINE others == {checkpoint[g] : g \in tracked}
  <2>1. engine' = [at |-> "head", from |-> cursor, others |-> others, bound |-> 0,
                   facts |-> {}, rows |-> {}]
    BY <1>4 DEF BeginPass, IdleEngine
  <2>2. \A g \in Groups \ Fresh : \E p \in others : p <= checkpoint[g]
    <3> TAKE g \in Groups \ Fresh
    <3>1. checkpoint[g] \in others /\ checkpoint[g] <= checkpoint[g]
      BY DEF EngineInv
    <3> HIDE DEF others
    <3> QED BY <3>1
  <2> HIDE DEF others
  <2> QED BY <1>2, <2>1, <2>2 DEF EngineInv
<1>5. CASE engine.at = "head" /\
           engine' = [engine EXCEPT !.at = "scan", !.others = {}, !.bound = Bound(engine.others)]
  <2> DEFINE bound == Bound(engine.others)
  <2>1. bound \in Nat /\ \A p \in engine.others : bound <= p
    BY <1>1, BoundIsMinimum
  <2>2. \A g \in Groups \ Fresh : bound <= checkpoint[g]
    <3> SUFFICES ASSUME NEW g \in Groups \ Fresh PROVE bound <= checkpoint[g]
      OBVIOUS
    <3>1. PICK p \in engine.others : p <= checkpoint[g]
      BY <1>5 DEF EngineInv
    <3>2. bound <= p /\ p \in Nat /\ checkpoint[g] \in Nat
      BY <1>1, <2>1
    <3> HIDE DEF bound
    <3> QED BY <2>1, <3>1, <3>2
  <2>3. engine' = [engine EXCEPT !.at = "scan", !.others = {}, !.bound = bound]
    BY <1>5
  <2>4. engine.facts = {}
    BY <1>5 DEF EngineInv
  <2> HIDE DEF bound
  <2>5. engine'.at = "scan" /\ engine'.facts = {} /\ engine'.bound = bound
    BY <1>1, <2>3, <2>4 DEF Engine
  <2> QED BY <1>2, <2>2, <2>5 DEF EngineInv
<1>6. CASE ScanExpiries
  <2>1. engine' = [engine EXCEPT !.at = "facts", !.facts = Window] /\ engine.at = "scan"
        /\ UNCHANGED <<fact, position>>
    BY <1>6 DEF ScanExpiries, logVars, factVars
  <2>2. \A e \in Window : fact[e] = "committed" /\ position[e] <= engine.bound
    BY DEF Window
  <2>3. engine'.at = "facts" /\ engine'.facts = Window /\ engine'.bound = engine.bound
    BY <1>1, <2>1 DEF Engine
  <2> QED BY <1>2, <2>1, <2>2, <2>3 DEF EngineInv
<1>7. ASSUME engine.at \in {"facts", "tombstone"},
             engine'.at \in {"facts", "tombstone", "erase"},
             engine'.facts \subseteq engine.facts, engine'.bound = engine.bound
      PROVE  EngineInv'
  BY <1>1, <1>2, <1>7 DEF EngineInv
<1>8. CASE ReadStream
  <2>1. PICK e \in Expiries :
          LET rows == Rows(StreamOf[e]) IN
          IF rows = {}
            THEN Advance(position[e]) /\ engine' = [engine EXCEPT !.facts = @ \ {e}]
            ELSE engine' = [engine EXCEPT !.at = "tombstone", !.rows = rows] /\ UNCHANGED cursor
    BY <1>8 DEF ReadStream
  <2>2. engine.at = "facts"
    BY <1>8 DEF ReadStream
  <2>3. /\ engine'.at \in {"facts", "tombstone"}
        /\ engine'.facts \subseteq engine.facts /\ engine'.bound = engine.bound
    BY <1>1, <2>1, <2>2 DEF Engine
  <2> QED BY <1>7, <2>2, <2>3
<1>9. CASE WriteTombstone /\ engine' # IdleEngine
  <2>1. engine' = [engine EXCEPT !.at = "erase"] /\ engine.at = "tombstone"
    BY <1>9 DEF WriteTombstone, Mark
  <2>2. /\ engine'.at = "erase"
        /\ engine'.facts = engine.facts /\ engine'.bound = engine.bound
    BY <1>1, <2>1 DEF Engine
  <2> QED BY <1>7, <2>1, <2>2
<1> QED BY <1>3, <1>4, <1>5, <1>6, <1>8, <1>9 DEF ReadHead, EndPass, EngineFails

\* tx2: the expiry it works on is there, so its stream gets its one receipt;
\* and every group is past that expiry, so what goes with it was dealt with.
LEMMA EraseStreamKeeps ==
  ASSUME ProjectionInv, LogEffects, Progress, EngineTypeOK, OneExpiry, JourneyInv, EraseStream
  PROVE  JourneyInv'
<1> USE DEF ProjectionInv, ProjectionTypeOK, LogTypeOK
<1>1. PICK e \in engine.facts :
        /\ e \in Expiries
        /\ DeleteRows(StreamOf[e])
        /\ receipts' = [receipts EXCEPT ![StreamOf[e]] = @ + 1]
        /\ engine' = [engine EXCEPT !.at = "facts", !.facts = @ \ {e}, !.rows = {}]
  BY DEF EraseStream, IsNext
<1>2. /\ engine.at = "erase"
      /\ UNCHANGED <<position, late, tracked, checkpoint, folded, skipped>>
  BY DEF EraseStream, projectorVars
<1>3. /\ engine.facts \subseteq Expiries /\ Expiries \subseteq Facts
      /\ engine'.at = "facts" /\ engine'.facts = engine.facts \ {e}
      /\ engine'.bound = engine.bound /\ engine.bound \in Nat
  BY <1>1, EventLogAssumption DEF EngineTypeOK, Engine
<1>4. /\ \A f \in Facts : fact'[f] = IF StreamOf[f] = StreamOf[e] /\ fact[f] = "committed"
                                       THEN "erased" ELSE fact[f]
      /\ \A s \in Streams : receipts'[s] = IF s = StreamOf[e] THEN receipts[s] + 1 ELSE receipts[s]
  BY <1>1 DEF DeleteRows, Rows
<1>5. fact[e] = "committed" /\ position[e] <= engine.bound
  BY DEF JourneyInv, EngineInv
<1>6. \A d \in Expiries : d # e => StreamOf[d] # StreamOf[e] /\ fact'[d] = fact[d]
  BY <1>1, <1>3, <1>4 DEF OneExpiry
<1>7. EngineInv'
  <2>1. \A d \in engine'.facts : fact'[d] = "committed" /\ position'[d] <= engine'.bound
    BY <1>2, <1>3, <1>6 DEF JourneyInv, EngineInv
  <2> QED BY <1>2, <1>3, <2>1 DEF JourneyInv, EngineInv
<1>8. ErasedWithExpiry'
  BY <1>1, <1>3, <1>4, <1>5 DEF JourneyInv, ErasedWithExpiry
<1>9. ReceiptIffErased'
  <2>1. \A d \in Expiries : StreamOf[d] \in Streams
    BY <1>3, StreamOfFactIsStream
  <2>2. receipts'[StreamOf[e]] = 1 /\ fact'[e] = "erased"
    BY <1>1, <1>3, <1>4, <1>5, <2>1 DEF JourneyInv, ReceiptIffErased
  <2> QED BY <1>4, <1>6, <2>1, <2>2 DEF JourneyInv, ReceiptIffErased
<1>10. ErasedWereFolded'
  <2> SUFFICES ASSUME NEW d \in Expiries, NEW f \in Facts, NEW g \in Groups \ Fresh,
                      fact'[d] = "erased", StreamOf[f] = StreamOf[d], StreamOf[f] \in Reads[g],
                      fact'[f] = "erased", position[f] <= position[d]
               PROVE  f \in folded[g] \union skipped[g] \union late
    BY <1>2 DEF ErasedWereFolded
  <2>1. CASE d = e
    <3>1. fact[f] = "committed"
      <4>1. fact[f] = "erased" => fact[e] = "erased"
        BY <1>1, <2>1 DEF JourneyInv, ErasedWithExpiry, OneExpiry
      <4> QED BY <1>4, <1>5, <4>1
    <3>2. position[f] <= checkpoint[g]
      <4>1. engine.bound <= checkpoint[g]
        BY <1>2 DEF JourneyInv, EngineInv
      <4> QED BY <1>3, <1>5, <2>1, <4>1
    <3> QED BY <3>1, <3>2 DEF GroupInv, NothingBehindCheckpoint
  <2>2. CASE d # e
    <3>1. fact[d] = "erased" /\ fact[f] = "erased"
      BY <1>4, <1>6, <2>2
    <3> QED BY <3>1 DEF JourneyInv, ErasedWereFolded
  <2> QED BY <2>1, <2>2
<1> QED BY <1>7, <1>8, <1>9, <1>10 DEF JourneyInv

LEMMA JourneyStep ==
  ASSUME ProjectionInv, ProjectionInv', LogEffects, Progress, EngineTypeOK, OneExpiry, JourneyInv,
         [ErasureNext]_erasureVars
  PROVE  JourneyInv'
<1>1. CASE EraseStream
  BY <1>1, EraseStreamKeeps
<1>2. CASE ~EraseStream
  <2>1. NothingErased
    BY <1>2, OnlyTheEngineErases DEF ProjectionInv, ProjectionTypeOK
  <2>2. CASE UNCHANGED <<cursor, engine>>
    BY <2>1, <2>2, EngineRests, HistoryKeeps DEF JourneyInv, NothingErased
  <2>3. CASE EngineStep \/ EngineFails
    BY <1>2, <2>1, <2>3, EngineStepKeeps, HistoryKeeps DEF JourneyInv, EngineStep
  <2> QED BY <2>2, <2>3 DEF ErasureNext, Tail, erasureVars
<1> QED BY <1>1, <1>2

LEMMA JourneyStarts == ASSUME ErasureInit PROVE JourneyInv
<1>1. EngineInv
  BY EngineStarts
<1>2. ErasedWithExpiry /\ ReceiptIffErased /\ ErasedWereFolded
  BY EventLogAssumption, StreamOfFactIsStream
  DEF ErasureInit, LogInit, ErasedWithExpiry, ReceiptIffErased, ErasedWereFolded
<1> QED BY <1>1, <1>2 DEF JourneyInv

\* Of a stream that expires once: a receipt is recorded exactly when its rows
\* are deleted, and every group that had a checkpoint row from the start has
\* dealt with what is deleted up to the expiry, save what was committed late.
THEOREM JourneyInvariant == ASSUME OneExpiry PROVE ErasureSpec => []JourneyInv
<1>1. ErasureInit => EngineTypeOK /\ JourneyInv
  BY EngineStarts, JourneyStarts
<1>2. ProjectionInv /\ ProjectionInv' /\ EngineTypeOK /\ JourneyInv /\ [ErasureNext]_erasureVars
        => EngineTypeOK' /\ JourneyInv'
  BY ProjectionStep, EngineTypesStep, JourneyStep
<1> QED BY <1>1, <1>2, ProjectionInvariant, PTL DEF ErasureSpec

\* However often passes die, a stream has one receipt once it is erased.
THEOREM OneReceipt == ASSUME OneExpiry PROVE ErasureSpec => []ReceiptIffErased
<1>1. JourneyInv => ReceiptIffErased
  BY DEF JourneyInv
<1> QED BY <1>1, JourneyInvariant, PTL

\* What is erased with an expiry was dealt with by every group first.
THEOREM ErasureWaits == ASSUME OneExpiry PROVE ErasureSpec => []ErasedWereFolded
<1>1. JourneyInv => ErasedWereFolded
  BY DEF JourneyInv
<1> QED BY <1>1, JourneyInvariant, PTL

-----------------------------------------------------------------------------
(***************************************************************************)
(* The workers and the engine implement Retention.                         *)
(***************************************************************************)
\* A batch has facts that its group reads.
BatchesAreRead ==
  \A w \in Workers : tick[w].at = "fold" =>
    \A b \in tick[w].batch : StreamOf[b] \in Reads[tick[w].group]

LEMMA BatchesStep ==
  ASSUME ProjectionInv, BatchesAreRead, [ErasureNext]_erasureVars PROVE BatchesAreRead'
<1> USE DEF ProjectionInv, ProjectionTypeOK
<1>1. ASSUME UNCHANGED tick PROVE BatchesAreRead'
  BY <1>1 DEF BatchesAreRead
<1>2. ASSUME NEW w \in Workers, TickStep(w) \/ TickFails(w) \/ CrashProjector(w)
      PROVE  BatchesAreRead'
  <2>1. ASSUME \A v \in Workers \ {w} : tick'[v] = tick[v], tick'[w].at # "fold"
        PROVE  BatchesAreRead'
    BY <2>1 DEF BatchesAreRead
  <2>2. tick[w] \in Tick
    OBVIOUS
  <2>3. CASE Scan(w)
    <3> DEFINE found == FirstBatch(Pending(tick[w].group, tick[w].from))
    <3>1. found \subseteq Pending(tick[w].group, tick[w].from)
      BY BatchIsPrefix DEF Pending
    <3>2. \A b \in found : StreamOf[b] \in Reads[tick[w].group]
      BY <3>1 DEF Pending
    <3>3. tick' = [tick EXCEPT ![w].at = IF found = {} THEN "groups" ELSE "fold",
                               ![w].batch = found]
      BY <2>3 DEF Scan
    <3> HIDE DEF found
    <3>4. /\ tick'[w].batch = found /\ tick'[w].group = tick[w].group
          /\ \A v \in Workers \ {w} : tick'[v] = tick[v]
      BY <2>2, <3>3 DEF Tick
    <3> QED BY <3>2, <3>4 DEF BatchesAreRead
  <2>4. CASE BeginTick(w)
    BY <2>1, <2>4 DEF BeginTick, Resting
  <2>5. CASE OpenGroup(w)
    BY <2>1, <2>2, <2>5 DEF OpenGroup, Tick
  <2>6. CASE Fold(w)
    <3>1. tick' = [tick EXCEPT ![w].at = "scan", ![w].from = LastPosition(tick[w].batch),
                               ![w].batch = {}]
      BY <2>6 DEF Fold
    <3> QED BY <2>1, <2>2, <3>1 DEF Tick
  <2>7. CASE EndTick(w) \/ TickFails(w) \/ CrashProjector(w)
    BY <2>1, <2>7 DEF EndTick, TickFails, CrashProjector, Resting
  <2> QED BY <1>2, <2>3, <2>4, <2>5, <2>6, <2>7 DEF TickStep
<1>3. ASSUME EngineStep \/ EngineFails PROVE UNCHANGED tick
  BY <1>3 DEF EngineStep, EngineFails, BeginPass, ReadHead, ScanExpiries, ReadStream,
     WriteTombstone, EraseStream, EndPass, projectorVars
<1> QED BY <1>1, <1>2, <1>3 DEF ErasureNext, erasureVars, projectorVars

\* What the mapping shows of a fact.
LEMMA LifeIs ==
  ASSUME LogTypeOK, NEW f \in Facts
  PROVE  /\ Life[f] = "kept" <=> fact[f] = "committed"
         /\ Life[f] = "erased" <=> fact[f] = "erased"
         /\ Life[f] # "none" <=> Settled(f)
         /\ Settled(f) => Rank[f] = position[f]
         /\ ~Settled(f) => Rank[f] = 0
<1>1. fact[f] \in {"absent", "open", "committed", "erased"}
  BY DEF LogTypeOK
<1>2. Life[f] = CASE fact[f] = "committed" -> "kept" [] fact[f] = "erased" -> "erased"
                  [] OTHER -> "none"
  BY DEF Life
<1>3. Rank[f] = IF Life[f] = "none" THEN 0 ELSE position[f]
  BY DEF Rank
<1> QED BY <1>1, <1>2, <1>3 DEF Settled

\* A commit is one step: what is not late comes behind everything seen.
LEMMA LandKeeps ==
  ASSUME ProjectionInv, ProjectionInv', NEW f \in Facts, Land(f), UNCHANGED projectorVars
  PROVE  Promise!Keep(f)
<1> USE DEF ProjectionInv, ProjectionTypeOK
<1>1. /\ fact[f] = "open" /\ fact'[f] = "committed"
      /\ \A h \in Facts \ {f} : fact'[h] = fact[h]
      /\ UNCHANGED <<position, receipts, folded, skipped>>
      /\ late' = IF Head > position[f] THEN late \union {f} ELSE late
  BY DEF Land, markVars, projectorVars, LogTypeOK
<1>2. \A h \in Facts : Settled(h)' <=> Settled(h) \/ h = f
  BY <1>1 DEF Settled
<1>3. ASSUME NEW h \in Facts, Life[h] # "none"
      PROVE  Rank[h] = position[h] /\ position[h] <= Head /\ position[h] # position[f]
  <2>1. Settled(h)
    BY <1>3, LifeIs
  <2> QED BY <1>1, <2>1, LifeIs DEF LogInv, Settled
<1>4. \A h \in Facts : /\ Life'[h] = IF h = f THEN "kept" ELSE Life[h]
                       /\ Rank'[h] = IF h = f THEN position[f] ELSE Rank[h]
  <2> TAKE h \in Facts
  <2>1. Life'[h] = IF h = f THEN "kept" ELSE Life[h]
    BY <1>1 DEF Life
  <2>2. Rank'[h] = IF Life'[h] = "none" THEN 0 ELSE position[h]
    BY <1>1 DEF Rank
  <2> QED BY <2>1, <2>2 DEF Rank
<1>5. Life[f] = "none"
  BY <1>1, LifeIs DEF Settled
<1>6. Life' = [Life EXCEPT ![f] = "kept"] /\ Rank' = [Rank EXCEPT ![f] = Rank'[f]]
  BY <1>4 DEF Life, Rank
<1>7. UNCHANGED <<Dealt, receipts>>
  BY <1>1 DEF Dealt
<1>8. ASSUME ~(Head > position[f]), NEW h \in Facts, Life[h] # "none" PROVE Rank[h] < Rank'[f]
  <2>1. Head \in Nat /\ position[f] \in Nat /\ position[h] \in Nat
    BY HeadIsMax DEF LogTypeOK
  <2> QED BY <1>3, <1>4, <1>8, <2>1
<1> QED BY <1>1, <1>3, <1>4, <1>5, <1>6, <1>7, <1>8 DEF Promise!Keep

\* A batch is one step: it is past the group's checkpoint, which is past all
\* it dealt with, and has no gaps.
LEMMA FoldDeals ==
  ASSUME ProjectionInv, BatchesAreRead, NEW w \in Workers, Fold(w)
  PROVE  Promise!Deal(tick[w].group, tick[w].batch)
         /\ tick[w].group \in Groups /\ tick[w].batch \in SUBSET Facts
<1> USE DEF ProjectionInv, ProjectionTypeOK
<1> DEFINE g == tick[w].group
           batch == tick[w].batch
<1>1. PICK bad \in SUBSET batch :
        /\ folded' = [folded EXCEPT ![g] = @ \union (batch \ bad)]
        /\ skipped' = [skipped EXCEPT ![g] = @ \union bad]
  BY DEF Fold
<1>2. tick[w].at = "fold" /\ UNCHANGED <<fact, position, late, receipts>>
  BY DEF Fold, factVars, markVars
<1>3. tick[w] \in Tick /\ WorkerOK(w) /\ BatchOK(w)
  BY <1>2 DEF WorkerInv, WorkerOK
<1>4. g \in Groups /\ tick[w].from = checkpoint[g] /\ batch \in SUBSET Facts
  BY <1>2, <1>3, ProjectionAssumption DEF WorkerOK, Draining, Tick
<1>5. Dealt' = [Dealt EXCEPT ![g] = @ \union batch]
  BY <1>1, <1>4 DEF Dealt
<1>6. UNCHANGED <<Life, Rank, late, receipts>>
  BY <1>2 DEF Life, Rank
<1>7. ASSUME NEW b \in batch, NEW d \in Dealt[g] PROVE Rank[d] < Rank[b]
  <2>1. d \in Facts /\ Settled(d) /\ position[d] <= checkpoint[g]
    BY <1>4, <1>7 DEF Dealt, GroupInv
  <2>2. b \in Facts /\ Settled(b) /\ position[b] > checkpoint[g]
    BY <1>3, <1>4 DEF BatchOK
  <2>3. position[b] \in Nat /\ position[d] \in Nat /\ checkpoint[g] \in Nat
    BY <1>4, <2>1, <2>2 DEF LogTypeOK
  <2> QED BY <2>1, <2>2, <2>3, LifeIs
<1>8. ASSUME NEW b \in batch, NEW f \in Promise!UpTo(g, Rank[b])
      PROVE  f \in Dealt[g] \union batch \union late
  <2>1. b \in Facts /\ Settled(b)
    BY <1>3, <1>4 DEF BatchOK
  <2>2. f \in Facts /\ Life[f] = "kept" /\ StreamOf[f] \in Reads[g] /\ Rank[f] <= Rank[b]
    BY <1>8 DEF Promise!UpTo
  <2>3. fact[f] = "committed" /\ position[f] <= position[b]
    BY <2>1, <2>2, LifeIs DEF Settled
  <2>4. position[f] \in Nat /\ checkpoint[g] \in Nat
    BY <1>4, <2>2 DEF LogTypeOK
  <2>5. CASE position[f] <= checkpoint[g]
    BY <1>4, <2>2, <2>3, <2>5 DEF GroupInv, NothingBehindCheckpoint, Dealt
  <2>6. CASE position[f] > checkpoint[g]
    BY <1>3, <1>4, <2>2, <2>3, <2>6 DEF BatchOK
  <2> QED BY <2>4, <2>5, <2>6
<1>9. \A b \in batch : Life[b] # "none" /\ StreamOf[b] \in Reads[g]
  <2> TAKE b \in batch
  <2>1. b \in Facts /\ Settled(b)
    BY <1>3, <1>4 DEF BatchOK
  <2> QED BY <1>2, <2>1, LifeIs DEF BatchesAreRead
<1>10. batch # {}
  BY <1>3 DEF BatchOK
<1> QED BY <1>4, <1>5, <1>6, <1>7, <1>8, <1>9, <1>10 DEF Promise!Deal

\* tx2 is one step: no receipt was recorded while the expiry was there, and the
\* groups with a row from the start are past the expiry.
LEMMA EngineErases ==
  ASSUME ProjectionInv, EngineTypeOK, JourneyInv, EraseStream
  PROVE  \E e \in Expiries : Promise!Erase(e)
<1> USE DEF ProjectionInv, ProjectionTypeOK
<1>1. PICK e \in engine.facts :
        /\ e \in Expiries
        /\ DeleteRows(StreamOf[e])
        /\ receipts' = [receipts EXCEPT ![StreamOf[e]] = @ + 1]
  BY DEF EraseStream, IsNext
<1>2. engine.at = "erase" /\ UNCHANGED <<position, late, folded, skipped>>
  BY DEF EraseStream, projectorVars
<1> DEFINE s == StreamOf[e]
<1>3. /\ e \in Facts /\ s \in Streams
      /\ fact[e] = "committed" /\ position[e] <= engine.bound /\ engine.bound \in Nat
  BY <1>1, EventLogAssumption, StreamOfFactIsStream DEF JourneyInv, EngineInv, EngineTypeOK, Engine
<1>4. receipts[s] = 0 /\ receipts' = [receipts EXCEPT ![s] = 1]
  <2>1. receipts[s] = 0
    BY <1>1, <1>3 DEF JourneyInv, ReceiptIffErased
  <2> HIDE DEF s
  <2>2. receipts' = [receipts EXCEPT ![s] = receipts[s] + 1]
    BY <1>1 DEF s, LogTypeOK
  <2> QED BY <2>1, <2>2
<1>5. Life[e] = "kept" /\ Rank[e] = position[e]
  BY <1>3, LifeIs DEF Settled
<1>6. Promise!Kept(s) = Rows(s)
  BY LifeIs DEF Promise!Kept, Rows
<1>7. ASSUME NEW g \in Groups \ Fresh, NEW f \in Promise!Kept(s), f \in Promise!UpTo(g, Rank[e])
      PROVE  f \in Dealt[g] \union late
  <2>1. /\ f \in Facts /\ fact[f] = "committed" /\ StreamOf[f] \in Reads[g]
        /\ position[f] <= position[e]
    BY <1>5, <1>7, LifeIs DEF Promise!UpTo, Settled
  <2>2. engine.bound <= checkpoint[g]
    BY <1>2 DEF JourneyInv, EngineInv
  <2>3. position[f] <= checkpoint[g]
    BY <1>3, <2>1, <2>2 DEF LogTypeOK
  <2> QED BY <2>1, <2>3 DEF GroupInv, NothingBehindCheckpoint, Dealt
<1>8. \A f \in Facts : Life'[f] = IF f \in Rows(s) THEN "erased" ELSE Life[f]
  BY <1>1 DEF DeleteRows, Life
<1>9. Life' = [f \in Facts |-> IF f \in Promise!Kept(s) THEN "erased" ELSE Life[f]]
  BY <1>6, <1>8 DEF Life
<1>10. UNCHANGED <<Rank, late, Dealt>>
  <2>1. \A f \in Facts : Life'[f] = "none" <=> Life[f] = "none"
    BY <1>6, <1>8 DEF Promise!Kept
  <2> QED BY <1>2, <2>1 DEF Rank, Dealt
<1> QED BY <1>1, <1>4, <1>5, <1>7, <1>9, <1>10 DEF Promise!Erase

LEMMA RetentionStep ==
  ASSUME ProjectionInv, ProjectionInv', EngineTypeOK, JourneyInv, BatchesAreRead,
         [ErasureNext]_erasureVars
  PROVE  [Promise!RetentionNext]_(Promise!retentionVars)
<1> USE DEF Promise!RetentionNext
<1>1. ASSUME UNCHANGED <<fact, position, late, receipts, folded, skipped>>
      PROVE  UNCHANGED Promise!retentionVars
  BY <1>1 DEF Promise!retentionVars, Life, Rank, Dealt
<1>2. ASSUME NEW f \in Facts, Append(f) \/ Abort(f), UNCHANGED projectorVars
      PROVE  UNCHANGED Promise!retentionVars
  <2>1. /\ UNCHANGED <<late, receipts, folded, skipped>>
        /\ fact[f] \notin {"committed", "erased"} /\ fact'[f] \notin {"committed", "erased"}
        /\ \A h \in Facts \ {f} : fact'[h] = fact[h] /\ position'[h] = position[h]
    BY <1>2 DEF Append, Abort, markVars, projectorVars, ProjectionInv, ProjectionTypeOK, LogTypeOK
  <2>2. \A h \in Facts : Life'[h] = Life[h]
    BY <2>1 DEF Life
  <2>3. Life[f] = "none"
    BY <2>1, LifeIs DEF Settled, ProjectionInv, ProjectionTypeOK
  <2>4. Life' = Life
    BY <2>2 DEF Life
  <2>5. Rank' = Rank
    BY <2>1, <2>3, <2>4 DEF Rank
  <2> QED BY <2>1, <2>4, <2>5 DEF Promise!retentionVars, Dealt
<1>3. ASSUME NEW f \in Facts, Land(f), UNCHANGED projectorVars
      PROVE  Promise!RetentionNext
  BY <1>3, LandKeeps
<1>4. ASSUME NEW w \in Workers, TickStep(w) \/ TickFails(w) \/ CrashProjector(w)
      PROVE  [Promise!RetentionNext]_(Promise!retentionVars)
  <2>1. CASE Fold(w)
    BY <2>1, FoldDeals
  <2>2. CASE ~Fold(w)
    <3>1. UNCHANGED <<fact, position, late, receipts, folded, skipped>>
      BY <1>4, <2>2 DEF TickStep, BeginTick, OpenGroup, Scan, EndTick, TickFails, CrashProjector,
         logVars, factVars, markVars
    <3> QED BY <1>1, <3>1
  <2> QED BY <2>1, <2>2
<1>5. CASE EraseStream
  BY <1>5, EngineErases
<1>6. ASSUME EngineStep \/ EngineFails, ~EraseStream
      PROVE  UNCHANGED Promise!retentionVars
  <2>1. UNCHANGED <<fact, position, late, receipts, folded, skipped>>
    BY <1>6 DEF EngineStep, EngineFails, BeginPass, ReadHead, ScanExpiries, ReadStream,
       WriteTombstone, EndPass, logVars, factVars, markVars, projectorVars
  <2> QED BY <1>1, <2>1
<1>7. ASSUME UNCHANGED erasureVars PROVE UNCHANGED Promise!retentionVars
  BY <1>1, <1>7 DEF erasureVars, logVars, factVars, markVars, projectorVars
<1> QED BY <1>2, <1>3, <1>4, <1>5, <1>6, <1>7 DEF ErasureNext

\* For any facts, groups, workers and failures, the workers and the engine keep
\* what is promised about the log: each group deals with its facts in order,
\* once and without a gap but for what was late, and a stream that expires once
\* is erased whole, with one receipt, after the groups that had a row.
THEOREM ErasureKeepsRetention == ASSUME OneExpiry PROVE ErasureSpec => KeepsRetention
<1>1. ErasureInit => EngineTypeOK /\ JourneyInv /\ BatchesAreRead
  BY EngineStarts, JourneyStarts DEF ErasureInit, ProjectionInit, BatchesAreRead, Resting
<1>2. ErasureInit => Promise!RetentionInit
  BY DEF ErasureInit, LogInit, ProjectionInit, Promise!RetentionInit, Life, Rank, Dealt, Streams
<1>3. ProjectionInv /\ ProjectionInv' /\ EngineTypeOK /\ JourneyInv /\ BatchesAreRead
        /\ [ErasureNext]_erasureVars => EngineTypeOK' /\ JourneyInv' /\ BatchesAreRead'
  BY ProjectionStep, EngineTypesStep, JourneyStep, BatchesStep
<1>4. ProjectionInv /\ ProjectionInv' /\ EngineTypeOK /\ JourneyInv /\ BatchesAreRead
        /\ [ErasureNext]_erasureVars => [Promise!RetentionNext]_(Promise!retentionVars)
  BY RetentionStep
<1> QED BY <1>1, <1>2, <1>3, <1>4, ProjectionInvariant, PTL
        DEF ErasureSpec, KeepsRetention, Promise!RetentionSpec
=============================================================================
