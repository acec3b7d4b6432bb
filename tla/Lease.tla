------------------------------- MODULE Lease -------------------------------
(***************************************************************************)
(* The partition registry `mailbox_partitions` and the lanes each mailbox  *)
(* worker BELIEVES it owns (crates/actor_runtime/src/lease.rs and the      *)
(* claim/beat/shutdown moves of worker.rs).                                *)
(*                                                                         *)
(* A lane is one partition of one actor type.  Its registry row holds the  *)
(* owner (claimed_by), the lease (lease_until, kept only as far as the     *)
(* statements read it: absent, in the future, in the past) and the fencing *)
(* counter ownership_version.  A worker remembers, per lane it claimed,    *)
(* the version it claimed it at; that pair is its authority, and it is     *)
(* never re-read.  Belief may therefore be stale: two workers may hold the *)
(* same lane in memory, but at two different versions.                     *)
(*                                                                         *)
(* Every SQL statement of lease.rs is one step: its row predicate and its  *)
(* SET clause take effect together under the row lock.                     *)
(***************************************************************************)
EXTENDS Integers, FiniteSets

CONSTANTS
  Workers,    \* worker identities; one per process, never reused
  Width,      \* number of partitions seeded for the actor type
  MaxClaims,  \* WorkerConfig.max_claims_per_pass
  MaxChurn,   \* bound: how many environment disturbances a behaviour has
  NoWorker    \* claimed_by IS NULL

ASSUME LeaseAssumption ==
  /\ IsFiniteSet(Workers)
  /\ Width \in Nat \ {0}
  /\ MaxClaims \in Nat \ {0}
  /\ MaxChurn \in Nat
  /\ NoWorker \notin Workers

Lanes == 0 .. (Width - 1)

VARIABLES
  owner,    \* claimed_by of each registry row
  lease,    \* lease_until of each row: "none", "live" or "expired"
  version,  \* ownership_version of each row
  lanes,    \* MailboxWorker.lanes: the authorities each worker believes in
  warm,     \* lanes whose activations a worker may still hold in its cache
  life,     \* "new" (not started), "up" or "gone" (crashed or shut down)
  churn     \* disturbances so far, bounded by MaxChurn

leaseVars == <<owner, lease, version, lanes, warm, life, churn>>

Authority == Lanes \X Nat

LeaseTypeOK ==
  /\ owner \in [Lanes -> Workers \union {NoWorker}]
  /\ lease \in [Lanes -> {"none", "live", "expired"}]
  /\ version \in [Lanes -> Nat]
  /\ lanes \in [Workers -> SUBSET Authority]
  /\ warm \in [Workers -> SUBSET Lanes]
  /\ life \in [Workers -> {"new", "up", "gone"}]
  /\ churn \in 0 .. MaxChurn

(***************************************************************************)
(* seed_partitions: one row per partition, unowned, version 0.             *)
(***************************************************************************)
LeaseInit ==
  /\ owner = [l \in Lanes |-> NoWorker]
  /\ lease = [l \in Lanes |-> "none"]
  /\ version = [l \in Lanes |-> 0]
  /\ lanes = [w \in Workers |-> {}]
  /\ warm = [w \in Workers |-> {}]
  /\ life = [w \in Workers |-> "new"]
  /\ churn = 0

(***************************************************************************)
(* Helpers.                                                                *)
(***************************************************************************)
\* The environment disturbs the system only MaxChurn times.
Disturb == churn < MaxChurn /\ churn' = churn + 1

\* Mutation: an expired lease is not claimable.
ClaimableUnowned == {l \in Lanes : lease[l] = "none"}

\* lease_until IS NULL OR lease_until < now().
Claimable == {l \in Lanes : lease[l] \in {"none", "expired"}}

\* ORDER BY partition LIMIT n.
FirstLanes(S, n) == {l \in S : Cardinality({k \in S : k < l}) < n}

\* The fence: claimed_by = me AND ownership_version = mine.
HasAuthority(w, a) == owner[a[1]] = w /\ version[a[1]] = a[2]

\* The owner of the row is a running worker that knows it owns it.
Held(l) == /\ owner[l] # NoWorker
           /\ life[owner[l]] = "up"
           /\ <<l, version[l]>> \in lanes[owner[l]]

\* Mutation: the statement does not increment ownership_version.
TakeRowsUnversioned(w, got) ==
  /\ owner' = [l \in Lanes |-> IF l \in got THEN w ELSE owner[l]]
  /\ lease' = [l \in Lanes |-> IF l \in got THEN "live" ELSE lease[l]]
  /\ UNCHANGED version

\* SET claimed_by, lease_until, ownership_version + 1 on the rows of got.
TakeRows(w, got) ==
  /\ owner' = [l \in Lanes |-> IF l \in got THEN w ELSE owner[l]]
  /\ lease' = [l \in Lanes |-> IF l \in got THEN "live" ELSE lease[l]]
  /\ version' = [l \in Lanes |-> IF l \in got THEN version[l] + 1 ELSE version[l]]

\* The rows the statement returned, pushed on the worker's list.
Remember(w, got) ==
  lanes' = [lanes EXCEPT ![w] = @ \union {<<l, version[l] + 1>> : l \in got}]

\* Stop believing in authority a, telling the LaneEvents observer, which
\* drops the partition's activations.
Forget(w, a) ==
  /\ lanes' = [lanes EXCEPT ![w] = @ \ {a}]
  /\ warm' = [warm EXCEPT ![w] = @ \ {a[1]}]

(***************************************************************************)
(* Operations of a running worker.                                         *)
(***************************************************************************)
Start(w) ==
  /\ life[w] = "new"
  /\ life' = [life EXCEPT ![w] = "up"]
  /\ UNCHANGED <<owner, lease, version, lanes, warm, churn>>

\* MailboxWorker::claim over claim_due_lanes: the claimable lanes in partition
\* order, up to the pass bound, without the rows another statement has locked.
Claim(w) ==
  /\ life[w] = "up"
  /\ \E locked \in SUBSET Claimable :
       LET got == FirstLanes(Claimable \ locked, MaxClaims) IN
       /\ got # {}
       /\ TakeRows(w, got)
       /\ Remember(w, got)
  /\ UNCHANGED <<warm, life, churn>>

\* The claim committed but its answer was lost: the rows are leased to a
\* worker that does not know it.
ClaimUnacked(w) ==
  /\ life[w] = "up"
  /\ Disturb
  /\ \E locked \in SUBSET Claimable :
       LET got == FirstLanes(Claimable \ locked, MaxClaims) IN
       /\ got # {}
       /\ TakeRows(w, got)
  /\ UNCHANGED <<lanes, warm, life>>

\* steal_from: take one live lane away from its owner.  The caller says what
\* becomes of churn.
StealLane(w, l) ==
  /\ life[w] = "up"
  /\ owner[l] \notin {w, NoWorker}
  /\ lease[l] = "live"
  /\ TakeRows(w, {l})
  /\ Remember(w, {l})
  /\ UNCHANGED <<warm, life>>

\* heartbeat of one lane: renew under the fence, or forget the lane.  The
\* lease itself is not part of the fence, so an expired lease nobody took
\* over is revived.
Renew(w, a) ==
  /\ life[w] = "up"
  /\ a \in lanes[w]
  /\ \/ /\ HasAuthority(w, a)
        /\ lease' = [lease EXCEPT ![a[1]] = "live"]
        /\ UNCHANGED <<lanes, warm>>
     \/ /\ ~HasAuthority(w, a)
        /\ Forget(w, a)
        /\ UNCHANGED lease
  /\ UNCHANGED <<owner, version, life, churn>>

\* beat() returning early on a database error: the list was emptied by
\* `drain(..)` before the `?`, so every lane is forgotten, and no
\* lane_dropped call is made.
BeatFails(w) ==
  /\ life[w] = "up"
  /\ lanes[w] # {}
  /\ Disturb
  /\ lanes' = [lanes EXCEPT ![w] = {}]
  /\ UNCHANGED <<owner, lease, version, warm, life>>

(***************************************************************************)
(* Shutdown, crash and time.                                               *)
(***************************************************************************)
\* The lanes of w that release_lane matches.
Releasable(w) == {l \in Lanes : <<l, version[l]>> \in lanes[w] /\ owner[l] = w}

\* The fleet keeps at least one process: some other worker is up or to come.
NotLast(w) == \E v \in Workers \ {w} : life[v] # "gone"

\* Graceful shutdown: release every lane, except those whose release failed.
Shutdown(w) ==
  /\ life[w] = "up"
  /\ NotLast(w)
  /\ Disturb
  /\ \E failed \in SUBSET Releasable(w) :
       LET freed == Releasable(w) \ failed IN
       /\ owner' = [l \in Lanes |-> IF l \in freed THEN NoWorker ELSE owner[l]]
       /\ lease' = [l \in Lanes |-> IF l \in freed THEN "none" ELSE lease[l]]
  /\ lanes' = [lanes EXCEPT ![w] = {}]
  /\ warm' = [warm EXCEPT ![w] = {}]
  /\ life' = [life EXCEPT ![w] = "gone"]
  /\ UNCHANGED version

\* The process dies with its memory; its rows stay leased.
Crash(w) ==
  /\ life[w] = "up"
  /\ NotLast(w)
  /\ Disturb
  /\ lanes' = [lanes EXCEPT ![w] = {}]
  /\ warm' = [warm EXCEPT ![w] = {}]
  /\ life' = [life EXCEPT ![w] = "gone"]
  /\ UNCHANGED <<owner, lease, version>>

\* lease_until passes.  For a lane somebody holds this is a disturbance: its
\* owner missed several beats.
LeaseExpires(l) ==
  /\ lease[l] = "live"
  /\ IF Held(l) THEN Disturb ELSE UNCHANGED churn
  /\ lease' = [lease EXCEPT ![l] = "expired"]
  /\ UNCHANGED <<owner, version, lanes, warm, life>>

-----------------------------------------------------------------------------
(***************************************************************************)
(* Safety.                                                                 *)
(***************************************************************************)
\* No two workers ever hold the same authority: a version of a lane is
\* claimed once, whatever was stolen, released, forgotten or left behind by
\* a crash (lease.rs: every ownership change increments ownership_version).
NoSharedAuthority ==
  \A v, w \in Workers : v # w => lanes[v] \intersect lanes[w] = {}

\* What the fence relies on: a believed version is never ahead of the
\* registry, and whoever believes in the current version is the row's owner.
BeliefIsBehind ==
  \A w \in Workers : \A a \in lanes[w] :
    /\ a[2] <= version[a[1]]
    /\ a[2] = version[a[1]] => owner[a[1]] = w
=============================================================================
