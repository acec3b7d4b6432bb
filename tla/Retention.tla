----------------------------- MODULE Retention -----------------------------
(***************************************************************************)
(* What is promised about the facts on record and about forgetting them,   *)
(* whoever projects and whoever erases: every reader deals with the facts  *)
(* of its streams in the order of the log, each once and none passed over, *)
(* but those that came out of order; and a stream is forgotten only at its *)
(* expiry, whole, with one receipt, after the readers that are waited for  *)
(* have dealt with it up to that expiry.                                   *)
(***************************************************************************)
EXTENDS Naturals

CONSTANTS
  Facts,     \* what may be recorded
  Expiries,  \* the facts that ask for their stream to be forgotten
  StreamOf,  \* the stream of a fact
  Groups,    \* the readers
  Reads,     \* the streams each of them reads
  Waited     \* the readers an erasure waits for

VARIABLES
  life,      \* of each fact: "none", "kept" or "erased"
  rank,      \* its place in the order of the log
  late,      \* the facts that came out of order
  dealt,     \* the facts each reader has dealt with
  receipts   \* the receipts of each stream

retentionVars == <<life, rank, late, dealt, receipts>>

RetentionInit ==
  /\ life = [f \in Facts |-> "none"]
  /\ rank = [f \in Facts |-> 0]
  /\ late = {}
  /\ dealt = [g \in Groups |-> {}]
  /\ receipts = [s \in {StreamOf[f] : f \in Facts} |-> 0]

Kept(s) == {f \in Facts : life[f] = "kept" /\ StreamOf[f] = s}

\* Of the kept facts a reader reads, those up to a place.
UpTo(g, r) == {f \in Facts : life[f] = "kept" /\ StreamOf[f] \in Reads[g] /\ rank[f] <= r}

\* A fact is kept at a place of its own: behind all others, or it is late.
Keep(f) ==
  /\ life[f] = "none"
  /\ life' = [life EXCEPT ![f] = "kept"]
  /\ rank' = [rank EXCEPT ![f] = rank'[f]]
  /\ \A h \in Facts : life[h] # "none" => rank[h] # rank'[f]
  /\ \/ late' = late /\ \A h \in Facts : life[h] # "none" => rank[h] < rank'[f]
     \/ late' = late \union {f}
  /\ UNCHANGED <<dealt, receipts>>

\* A reader deals with some facts: all of them behind those it has dealt with,
\* and none between that is not late.
Deal(g, B) ==
  /\ B # {}
  /\ \A f \in B : /\ life[f] # "none" /\ StreamOf[f] \in Reads[g]
                  /\ \A d \in dealt[g] : rank[d] < rank[f]
                  /\ UpTo(g, rank[f]) \subseteq dealt[g] \union B \union late
  /\ dealt' = [dealt EXCEPT ![g] = @ \union B]
  /\ UNCHANGED <<life, rank, late, receipts>>

\* The expiry takes its stream along.
Erase(e) ==
  LET s == StreamOf[e] IN
  /\ life[e] = "kept" /\ receipts[s] = 0
  /\ \A g \in Waited : Kept(s) \intersect UpTo(g, rank[e]) \subseteq dealt[g] \union late
  /\ life' = [f \in Facts |-> IF f \in Kept(s) THEN "erased" ELSE life[f]]
  /\ receipts' = [receipts EXCEPT ![s] = 1]
  /\ UNCHANGED <<rank, late, dealt>>

RetentionNext ==
  \/ \E f \in Facts : Keep(f)
  \/ \E g \in Groups, B \in SUBSET Facts : Deal(g, B)
  \/ \E e \in Expiries : Erase(e)

RetentionSpec == RetentionInit /\ [][RetentionNext]_retentionVars
=============================================================================
