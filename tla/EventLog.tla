------------------------------ MODULE EventLog ------------------------------
(***************************************************************************)
(* The event log `domain_events`                                           *)
(* (crates/infrastructure/src/persistence/event_store.rs).                 *)
(*                                                                         *)
(* A fact is one row.  Its position in the log is drawn from a sequence    *)
(* when the row is inserted, and the row is seen when its transaction      *)
(* commits: of two appends to different streams the one that drew its      *)
(* position later may commit first.  Appends to one stream exclude each    *)
(* other (UNIQUE (stream_name, version)).                                  *)
(*                                                                         *)
(* Besides business facts the log holds what the deletion engine writes:   *)
(* at most one tombstone per stream, and receipts on a ledger stream.      *)
(***************************************************************************)
EXTENDS Integers, FiniteSets

CONSTANTS
  Facts,      \* business events; each is appended at most once
  Births,     \* those that open their stream
  Expiries,   \* those that ask for their stream to be erased
  StreamOf,   \* the stream of each fact
  MaxFaults   \* bound: how many failures a behaviour has

Streams == {StreamOf[f] : f \in Facts}

ASSUME EventLogAssumption ==
  /\ IsFiniteSet(Facts)
  /\ Births \subseteq Facts
  /\ Expiries \subseteq Facts
  /\ DOMAIN StreamOf = Facts
  /\ MaxFaults \in Nat

VARIABLES
  fact,       \* "absent", "open" (its transaction is), "committed", "erased"
  position,   \* position of each fact; 0 while it has none
  lastPosition,  \* last value the sequence gave
  late,       \* history: facts that were committed below a visible position
  tombstone,  \* position of each stream's tombstone; 0 if it has none
  receipts,   \* number of receipts recorded for each stream
  ledger,     \* position of the newest receipt
  faults      \* failures so far

factVars == <<fact, position, lastPosition, late>>
markVars == <<tombstone, receipts, ledger>>
logVars == <<factVars, markVars, faults>>

LogTypeOK ==
  /\ fact \in [Facts -> {"absent", "open", "committed", "erased"}]
  /\ position \in [Facts -> Nat]
  /\ lastPosition \in Nat
  /\ late \in SUBSET Facts
  /\ tombstone \in [Streams -> Nat]
  /\ receipts \in [Streams -> Nat]
  /\ ledger \in Nat
  /\ faults \in 0 .. MaxFaults

LogInit ==
  /\ fact = [f \in Facts |-> "absent"]
  /\ position = [f \in Facts |-> 0]
  /\ lastPosition = 0
  /\ late = {}
  /\ tombstone = [s \in Streams |-> 0]
  /\ receipts = [s \in Streams |-> 0]
  /\ ledger = 0
  /\ faults = 0

Fault == faults < MaxFaults /\ faults' = faults + 1

\* The rows of a stream.
Rows(s) == {f \in Facts : StreamOf[f] = s /\ fact[f] = "committed"}

Busy(s) == \E f \in Facts : StreamOf[f] = s /\ fact[f] = "open"

\* Every position a reader sees, and SELECT COALESCE(MAX(position), 0).
Seen == {position[f] : f \in {g \in Facts : fact[g] = "committed"}}
          \union {tombstone[s] : s \in Streams} \union {ledger, 0}
Head == CHOOSE p \in Seen : \A q \in Seen : q <= p

\* The insert of an append.  A birth opens its stream; any other fact is
\* decided on a stream that exists.
Append(f) ==
  /\ fact[f] = "absent"
  /\ ~Busy(StreamOf[f])
  /\ f \in Births <=> Rows(StreamOf[f]) = {}
  /\ lastPosition' = lastPosition + 1
  /\ fact' = [fact EXCEPT ![f] = "open"]
  /\ position' = [position EXCEPT ![f] = lastPosition + 1]
  /\ UNCHANGED <<late, markVars, faults>>

\* It commits.
Land(f) ==
  /\ fact[f] = "open"
  /\ fact' = [fact EXCEPT ![f] = "committed"]
  /\ late' = IF Head > position[f] THEN late \union {f} ELSE late
  /\ UNCHANGED <<position, lastPosition, markVars, faults>>

\* It rolls back, and the position is burnt.
Abort(f) ==
  /\ fact[f] = "open"
  /\ Fault
  /\ fact' = [fact EXCEPT ![f] = "absent"]
  /\ position' = [position EXCEPT ![f] = 0]
  /\ UNCHANGED <<lastPosition, late, markVars>>
=============================================================================
