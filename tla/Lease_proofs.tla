---------------------------- MODULE Lease_proofs ----------------------------
(***************************************************************************)
(* What every move of the registry preserves, for any set of workers, any  *)
(* width and any number of disturbances.  The compositions cite these      *)
(* lemmas for their own steps: the rebalance below, the mailbox in         *)
(* Mailbox_proofs.                                                         *)
(*                                                                         *)
(* NoSharedAuthority is not inductive: a claim hands out version + 1, which*)
(* nobody else holds only because no belief is ahead of the registry.      *)
(* BeliefIsBehind supplies that.                                           *)
(***************************************************************************)
EXTENDS Rebalance, FiniteSetTheorems, TLAPS

Beliefs == BeliefIsBehind /\ NoSharedAuthority

LeaseInv == LeaseTypeOK /\ Beliefs

\* Before anybody has claimed anything there is nothing to believe in.
LEMMA LeaseInitInv == ASSUME LeaseInit PROVE LeaseInv
<1>1. LeaseTypeOK
  BY LeaseAssumption DEF LeaseInit, LeaseTypeOK
<1>2. BeliefIsBehind /\ NoSharedAuthority
  BY DEF LeaseInit, BeliefIsBehind, NoSharedAuthority
<1> QED BY <1>1, <1>2 DEF LeaseInv, Beliefs

\* Forgetting authorities, and anything that leaves owners and versions
\* alone, keeps the beliefs sound.
LEMMA ForgettingKeepsBeliefs ==
  ASSUME LeaseTypeOK, Beliefs, UNCHANGED <<owner, version>>,
         \A w \in Workers : lanes'[w] \subseteq lanes[w]
  PROVE  Beliefs'
<1>1. BeliefIsBehind'
  BY DEF LeaseTypeOK, Beliefs, BeliefIsBehind
<1>2. NoSharedAuthority'
  BY DEF LeaseTypeOK, Beliefs, NoSharedAuthority
<1> QED BY <1>1, <1>2 DEF Beliefs

\* Taking rows and remembering the bumped versions keeps the beliefs sound:
\* the new version is above every older belief.
LEMMA TakingKeepsBeliefs ==
  ASSUME LeaseTypeOK, Beliefs, NEW w \in Workers, NEW got \in SUBSET Lanes,
         TakeRows(w, got), Remember(w, got)
  PROVE  Beliefs'
<1> DEFINE new == {<<l, version[l] + 1>> : l \in got}
<1>1. /\ \A l \in Lanes : owner'[l] = IF l \in got THEN w ELSE owner[l]
      /\ \A l \in Lanes : version'[l] = IF l \in got THEN version[l] + 1 ELSE version[l]
  BY DEF TakeRows
<1>2. \A v \in Workers : lanes'[v] = IF v = w THEN lanes[v] \union new ELSE lanes[v]
  BY DEF Remember, LeaseTypeOK
<1>3. \A v \in Workers : \A a \in lanes[v] :
        a \in Authority /\ a[1] \in Lanes /\ a[2] \in Nat /\ a[2] <= version[a[1]]
  BY DEF LeaseTypeOK, Beliefs, BeliefIsBehind, Authority
<1>4. \A l \in Lanes : version[l] \in Nat
  BY DEF LeaseTypeOK
<1>5. \A v \in Workers : lanes[v] \intersect new = {}
  BY <1>3, <1>4
<1>6. NoSharedAuthority'
  BY <1>2, <1>5 DEF NoSharedAuthority, Beliefs
<1>7. ASSUME NEW v \in Workers, NEW a \in lanes'[v]
      PROVE  /\ a[2] <= version'[a[1]]
             /\ a[2] = version'[a[1]] => owner'[a[1]] = v
  <2>1. CASE a \in lanes[v]
    <3>1. a[1] \in Lanes /\ a[2] \in Nat /\ a[2] <= version[a[1]]
      BY <2>1, <1>3
    <3>2. a[2] = version[a[1]] => owner[a[1]] = v
      BY <2>1 DEF Beliefs, BeliefIsBehind
    <3> QED BY <3>1, <3>2, <1>1, <1>4
  <2>2. CASE a \notin lanes[v]
    <3>1. v = w /\ a \in new
      BY <2>2, <1>2, <1>7
    <3>2. PICK l \in got : a = <<l, version[l] + 1>>
      BY <3>1
    <3> QED BY <3>1, <3>2, <1>1, <1>4
  <2> QED BY <2>1, <2>2
<1>8. BeliefIsBehind'
  BY <1>7 DEF BeliefIsBehind
<1> QED BY <1>6, <1>8 DEF Beliefs

\* Taking rows without learning of it keeps the beliefs sound as well.
LEMMA TakingUnawareKeepsBeliefs ==
  ASSUME LeaseTypeOK, Beliefs, NEW w \in Workers, NEW got \in SUBSET Lanes,
         TakeRows(w, got), UNCHANGED lanes
  PROVE  Beliefs'
<1>1. /\ \A l \in Lanes : owner'[l] = IF l \in got THEN w ELSE owner[l]
      /\ \A l \in Lanes : version'[l] = IF l \in got THEN version[l] + 1 ELSE version[l]
  BY DEF TakeRows
<1>2. \A v \in Workers : \A a \in lanes[v] :
        a[1] \in Lanes /\ a[2] \in Nat /\ a[2] <= version[a[1]] /\ version[a[1]] \in Nat
  BY DEF LeaseTypeOK, Beliefs, BeliefIsBehind, Authority
<1>3. BeliefIsBehind'
  BY <1>1, <1>2 DEF Beliefs, BeliefIsBehind
<1>4. NoSharedAuthority'
  BY DEF Beliefs, NoSharedAuthority
<1> QED BY <1>3, <1>4 DEF Beliefs

\* The rows a statement takes keep their type, and so does the list of the
\* worker that took them.
LEMMA TakeRowsType ==
  ASSUME LeaseTypeOK, NEW w \in Workers, NEW got \in SUBSET Lanes, TakeRows(w, got)
  PROVE  /\ owner' \in [Lanes -> Workers \union {NoWorker}]
         /\ lease' \in [Lanes -> {"none", "live", "expired"}]
         /\ version' \in [Lanes -> Nat]
  BY DEF LeaseTypeOK, TakeRows

LEMMA RememberType ==
  ASSUME LeaseTypeOK, NEW w \in Workers, NEW got \in SUBSET Lanes, Remember(w, got)
  PROVE  lanes' \in [Workers -> SUBSET Authority]
<1>1. {<<l, version[l] + 1>> : l \in got} \subseteq Authority
  BY DEF LeaseTypeOK, Authority
<1> QED BY <1>1 DEF LeaseTypeOK, Remember

LEMMA DisturbType ==
  ASSUME LeaseTypeOK, Disturb PROVE churn' \in 0 .. MaxChurn
  BY LeaseAssumption DEF LeaseTypeOK, Disturb

-----------------------------------------------------------------------------
(***************************************************************************)
(* One lemma per action of the registry.                                   *)
(***************************************************************************)
LEMMA StartInv == ASSUME LeaseInv, NEW w \in Workers, Start(w) PROVE LeaseInv'
<1>1. LeaseTypeOK'
  BY DEF LeaseInv, LeaseTypeOK, Start
<1>2. Beliefs'
  BY ForgettingKeepsBeliefs DEF LeaseInv, Start
<1> QED BY <1>1, <1>2 DEF LeaseInv

LEMMA ClaimInv == ASSUME LeaseInv, NEW w \in Workers, Claim(w) PROVE LeaseInv'
<1>1. PICK locked \in SUBSET Claimable :
        LET got == FirstLanes(Claimable \ locked, MaxClaims) IN
        got # {} /\ TakeRows(w, got) /\ Remember(w, got)
  BY DEF Claim
<1> DEFINE got == FirstLanes(Claimable \ locked, MaxClaims)
<1>2. got \in SUBSET Lanes /\ TakeRows(w, got) /\ Remember(w, got)
  BY <1>1 DEF FirstLanes, Claimable
<1> HIDE DEF got
<1>3. LeaseTypeOK'
  BY <1>2, TakeRowsType, RememberType DEF LeaseInv, LeaseTypeOK, Claim
<1>4. Beliefs'
  BY <1>2, TakingKeepsBeliefs DEF LeaseInv
<1> QED BY <1>3, <1>4 DEF LeaseInv

LEMMA ClaimUnackedInv == ASSUME LeaseInv, NEW w \in Workers, ClaimUnacked(w) PROVE LeaseInv'
<1>1. PICK locked \in SUBSET Claimable :
        LET got == FirstLanes(Claimable \ locked, MaxClaims) IN
        got # {} /\ TakeRows(w, got)
  BY DEF ClaimUnacked
<1> DEFINE got == FirstLanes(Claimable \ locked, MaxClaims)
<1>2. got \in SUBSET Lanes /\ TakeRows(w, got)
  BY <1>1 DEF FirstLanes, Claimable
<1> HIDE DEF got
<1>3. LeaseTypeOK'
  BY <1>2, TakeRowsType, DisturbType DEF LeaseInv, LeaseTypeOK, ClaimUnacked
<1>4. Beliefs'
  BY <1>2, TakingUnawareKeepsBeliefs DEF LeaseInv, ClaimUnacked
<1> QED BY <1>3, <1>4 DEF LeaseInv

LEMMA StealLaneInv ==
  ASSUME LeaseInv, NEW w \in Workers, NEW l \in Lanes, StealLane(w, l),
         churn' \in 0 .. MaxChurn
  PROVE  LeaseInv'
<1>1. {l} \in SUBSET Lanes /\ TakeRows(w, {l}) /\ Remember(w, {l})
  BY DEF StealLane
<1>2. LeaseTypeOK'
  BY <1>1, TakeRowsType, RememberType DEF LeaseInv, LeaseTypeOK, StealLane
<1>3. Beliefs'
  BY <1>1, TakingKeepsBeliefs DEF LeaseInv
<1> QED BY <1>2, <1>3 DEF LeaseInv

LEMMA ForgetType ==
  ASSUME LeaseTypeOK, NEW w \in Workers, NEW a, Forget(w, a)
  PROVE  /\ lanes' \in [Workers -> SUBSET Authority]
         /\ warm' \in [Workers -> SUBSET Lanes]
         /\ \A v \in Workers : lanes'[v] \subseteq lanes[v]
  BY DEF LeaseTypeOK, Forget

LEMMA RenewInv ==
  ASSUME LeaseInv, NEW w \in Workers, NEW a \in lanes[w], Renew(w, a) PROVE LeaseInv'
<1>1. CASE HasAuthority(w, a)
  <2>1. LeaseTypeOK'
    BY <1>1 DEF LeaseInv, LeaseTypeOK, Renew
  <2>2. Beliefs'
    BY <1>1, ForgettingKeepsBeliefs DEF LeaseInv, Renew
  <2> QED BY <2>1, <2>2 DEF LeaseInv
<1>2. CASE ~HasAuthority(w, a)
  <2>1. Forget(w, a) /\ UNCHANGED <<owner, lease, version, life, churn>>
    BY <1>2 DEF Renew
  <2>2. LeaseTypeOK'
    BY <2>1, ForgetType DEF LeaseInv, LeaseTypeOK
  <2>3. Beliefs'
    BY <2>1, ForgetType, ForgettingKeepsBeliefs DEF LeaseInv
  <2> QED BY <2>2, <2>3 DEF LeaseInv
<1> QED BY <1>1, <1>2

LEMMA BeatFailsInv == ASSUME LeaseInv, NEW w \in Workers, BeatFails(w) PROVE LeaseInv'
<1>1. LeaseTypeOK'
  BY DisturbType DEF LeaseInv, LeaseTypeOK, BeatFails
<1>2. \A v \in Workers : lanes'[v] \subseteq lanes[v]
  BY DEF LeaseInv, LeaseTypeOK, BeatFails
<1>3. Beliefs'
  BY <1>2, ForgettingKeepsBeliefs DEF LeaseInv, BeatFails
<1> QED BY <1>1, <1>3 DEF LeaseInv

LEMMA CrashInv == ASSUME LeaseInv, NEW w \in Workers, Crash(w) PROVE LeaseInv'
<1>1. LeaseTypeOK'
  BY DisturbType DEF LeaseInv, LeaseTypeOK, Crash
<1>2. \A v \in Workers : lanes'[v] \subseteq lanes[v]
  BY DEF LeaseInv, LeaseTypeOK, Crash
<1>3. Beliefs'
  BY <1>2, ForgettingKeepsBeliefs DEF LeaseInv, Crash
<1> QED BY <1>1, <1>3 DEF LeaseInv

\* A shutdown clears the owner of the rows it releases.  Whoever believes in
\* the current version of such a row is the leaver itself, whose list is
\* emptied, so the beliefs stay sound.
LEMMA ShutdownInv == ASSUME LeaseInv, NEW w \in Workers, Shutdown(w) PROVE LeaseInv'
<1>1. PICK failed \in SUBSET Releasable(w) :
        LET freed == Releasable(w) \ failed IN
        /\ owner' = [l \in Lanes |-> IF l \in freed THEN NoWorker ELSE owner[l]]
        /\ lease' = [l \in Lanes |-> IF l \in freed THEN "none" ELSE lease[l]]
  BY DEF Shutdown
<1> DEFINE freed == Releasable(w) \ failed
<1>2. \A l \in freed : l \in Lanes /\ owner[l] = w
  BY DEF Releasable
<1>3. \A l \in Lanes : owner'[l] = IF l \in freed THEN NoWorker ELSE owner[l]
  BY <1>1
<1>4. owner' \in [Lanes -> Workers \union {NoWorker}]
  BY <1>1 DEF LeaseInv, LeaseTypeOK
<1>5. lease' \in [Lanes -> {"none", "live", "expired"}]
  BY <1>1 DEF LeaseInv, LeaseTypeOK
<1> HIDE DEF freed
<1>6. LeaseTypeOK'
  BY <1>4, <1>5, DisturbType DEF LeaseInv, LeaseTypeOK, Shutdown
<1>7. \A v \in Workers : lanes'[v] = IF v = w THEN {} ELSE lanes[v]
  BY DEF LeaseInv, LeaseTypeOK, Shutdown
<1>8. NoSharedAuthority'
  BY <1>7 DEF LeaseInv, Beliefs, NoSharedAuthority
<1>9. ASSUME NEW v \in Workers, NEW a \in lanes'[v]
      PROVE  /\ a[2] <= version'[a[1]]
             /\ a[2] = version'[a[1]] => owner'[a[1]] = v
  <2>1. v # w /\ a \in lanes[v] /\ a[1] \in Lanes
    BY <1>7, <1>9 DEF LeaseInv, LeaseTypeOK, Authority
  <2>2. version' = version
    BY DEF Shutdown
  <2>3. a[2] <= version[a[1]] /\ (a[2] = version[a[1]] => owner[a[1]] = v)
    BY <2>1 DEF LeaseInv, Beliefs, BeliefIsBehind
  <2> QED BY <2>1, <2>2, <2>3, <1>2, <1>3
<1> QED BY <1>6, <1>8, <1>9 DEF LeaseInv, Beliefs, BeliefIsBehind

LEMMA LeaseExpiresInv ==
  ASSUME LeaseInv, NEW l \in Lanes, LeaseExpires(l) PROVE LeaseInv'
<1>1. LeaseTypeOK'
  BY DisturbType DEF LeaseInv, LeaseTypeOK, LeaseExpires
<1>2. Beliefs'
  BY ForgettingKeepsBeliefs DEF LeaseInv, LeaseExpires
<1> QED BY <1>1, <1>2 DEF LeaseInv

\* A step that touches neither the registry nor the beliefs.
LEMMA LeaseStutter ==
  ASSUME LeaseInv, UNCHANGED leaseVars PROVE LeaseInv'
<1>1. LeaseTypeOK'
  BY DEF LeaseInv, LeaseTypeOK, leaseVars
<1>2. Beliefs'
  BY ForgettingKeepsBeliefs DEF LeaseInv, leaseVars
<1> QED BY <1>1, <1>2 DEF LeaseInv

-----------------------------------------------------------------------------
(***************************************************************************)
(* The rebalance, for any number of lanes, of steals per pass and of       *)
(* disturbances.  That stealing converges is left to TLC.                  *)
(***************************************************************************)
Bid == [step : {"none", "totals", "largest", "steal"},
        mine : 0 .. Width, fair : 0 .. Width, stolen : 0 .. MaxClaims,
        victim : Workers \union {NoWorker}]

RebalanceInv == LeaseInv /\ bid \in [Workers -> Bid]

-----------------------------------------------------------------------------
(***************************************************************************)
(* The numbers of the census.                                              *)
(***************************************************************************)
\* A worker has no more live lanes than there are lanes.
LEMMA LiveCountBound ==
  ASSUME NEW w
  PROVE  /\ LiveCount(w) \in 0 .. Width
         /\ LiveCount(w) = 0 <=> LiveLanes(w) = {}
<1>1. IsFiniteSet(Lanes) /\ Cardinality(Lanes) = Width
  BY LeaseAssumption, FS_Interval DEF Lanes
<1>2. LiveLanes(w) \in SUBSET Lanes
  BY DEF LiveLanes
<1>3. IsFiniteSet(LiveLanes(w)) /\ Cardinality(LiveLanes(w)) <= Width
  BY <1>1, <1>2, FS_Subset
<1>4. Cardinality(LiveLanes(w)) \in Nat
  BY <1>3, FS_CardinalityType
<1>5. Cardinality(LiveLanes(w)) = 0 <=> LiveLanes(w) = {}
  BY <1>3, FS_EmptySet
<1> QED BY <1>3, <1>4, <1>5, LeaseAssumption DEF LiveCount

\* The lanes are divided by the workers counted, which are never none: the
\* worker that asks is counted.
LEMMA FairShareIs ==
  ASSUME NEW w \in Workers
  PROVE  \E k \in Nat \ {0} : FairShare(LiveCount(w), Cardinality(LiveOwners)) = Width \div k
<1> DEFINE owners == Cardinality(LiveOwners)
           instances == owners + (IF LiveCount(w) = 0 THEN 1 ELSE 0)
<1>1. IsFiniteSet(LiveOwners)
  BY LeaseAssumption, FS_Subset DEF LiveOwners
<1>2. owners \in Nat /\ (owners = 0 <=> LiveOwners = {})
  BY <1>1, FS_CardinalityType, FS_EmptySet
<1>3. LiveCount(w) # 0 => w \in LiveOwners
  BY LiveCountBound DEF LiveOwners
<1>4. instances \in Nat \ {0}
  BY <1>2, <1>3
<1>5. FairShare(LiveCount(w), Cardinality(LiveOwners)) = Width \div instances
  BY DEF FairShare
<1> HIDE DEF instances
<1> QED BY <1>4, <1>5

\* The share is a number of lanes.
LEMMA FairShareBound ==
  ASSUME NEW w \in Workers
  PROVE  FairShare(LiveCount(w), Cardinality(LiveOwners)) \in 0 .. Width
<1>1. PICK k \in Nat \ {0} : FairShare(LiveCount(w), Cardinality(LiveOwners)) = Width \div k
  BY FairShareIs
<1>2. \A a \in Nat, b \in Nat \ {0} : a \div b \in 0 .. a
  OBVIOUS
<1> QED BY <1>1, <1>2, LeaseAssumption

LEMMA NoBidIsBid == NoBid \in Bid
  BY LeaseAssumption DEF NoBid, Bid

-----------------------------------------------------------------------------
LEMMA BidStep ==
  ASSUME RebalanceInv, [RebalanceNext]_rebalanceVars
  PROVE  bid' \in [Workers -> Bid]
<1> USE NoBidIsBid DEF RebalanceInv
<1>1. ASSUME NEW w \in Workers, ClaimNone(w) PROVE bid' \in [Workers -> Bid]
  <2>1. [NoBid EXCEPT !.step = "totals"] \in Bid
    BY DEF NoBid, Bid
  <2> QED BY <1>1, <2>1 DEF ClaimNone
<1>2. ASSUME NEW w \in Workers, CountOwners(w) PROVE bid' \in [Workers -> Bid]
  <2>1. LiveCount(w) \in 0 .. Width
    BY LiveCountBound
  <2> QED BY <1>2, <2>1, FairShareBound DEF CountOwners, Bid
<1>3. ASSUME NEW w \in Workers, PickVictim(w) PROVE bid' \in [Workers -> Bid]
  <2>1. \A v \in LargestOthers(w) : v \in Workers
    BY DEF LargestOthers, LiveOwners
  <2> QED BY <1>3, <2>1 DEF PickVictim, Bid
<1>4. ASSUME NEW w \in Workers, Steal(w) PROVE bid' \in [Workers -> Bid]
  <2> DEFINE next == IF bid[w].stolen + 1 < MaxClaims
                       THEN [NoBid EXCEPT !.step = "totals", !.stolen = bid[w].stolen + 1]
                       ELSE NoBid
  <2>1. next \in Bid
    <3>1. bid[w].stolen \in 0 .. MaxClaims
      BY DEF Bid
    <3>2. ASSUME bid[w].stolen + 1 < MaxClaims
          PROVE  [NoBid EXCEPT !.step = "totals", !.stolen = bid[w].stolen + 1] \in Bid
      <4>1. bid[w].stolen + 1 \in 0 .. MaxClaims
        BY <3>1, <3>2, LeaseAssumption
      <4>2. \A n \in 0 .. MaxClaims : [NoBid EXCEPT !.step = "totals", !.stolen = n] \in Bid
        BY LeaseAssumption DEF NoBid, Bid
      <4> QED BY <4>1, <4>2
    <3> QED BY <3>2
  <2>2. bid' = [bid EXCEPT ![w] = next]
    BY <1>4 DEF Steal
  <2> HIDE DEF next
  <2> QED BY <2>1, <2>2
<1>5. ASSUME NEW w \in Workers, StealNothing(w) PROVE bid' \in [Workers -> Bid]
  BY <1>5 DEF StealNothing
<1>6. ASSUME NEW w \in Workers, Quit(w) PROVE bid' \in [Workers -> Bid]
  BY <1>6 DEF Quit
<1>7. ASSUME NEW w \in Workers, BidFails(w) PROVE bid' \in [Workers -> Bid]
  BY <1>7 DEF BidFails
<1>8. CASE UNCHANGED bid
  BY <1>8
<1> QED BY <1>1, <1>2, <1>3, <1>4, <1>5, <1>6, <1>7, <1>8
        DEF RebalanceNext, rebalanceVars, ClaimSome, ClaimLost, BeatKept, BeatLost, Join, Lapse

LEMMA RegistryStep ==
  ASSUME RebalanceInv, [RebalanceNext]_rebalanceVars PROVE LeaseInv'
<1> USE DEF RebalanceInv
<1>1. ASSUME NEW w \in Workers, ClaimSome(w) PROVE LeaseInv'
  BY <1>1, ClaimInv DEF ClaimSome
<1>2. ASSUME NEW w \in Workers, ClaimNone(w) PROVE LeaseInv'
  <2>1. churn' \in 0 .. MaxChurn
    BY <1>2, DisturbType DEF ClaimNone, LeaseInv, LeaseTypeOK
  <2>2. LeaseTypeOK'
    BY <1>2, <2>1 DEF ClaimNone, LeaseInv, LeaseTypeOK
  <2>3. Beliefs'
    BY <1>2, ForgettingKeepsBeliefs DEF ClaimNone, LeaseInv
  <2> QED BY <2>2, <2>3 DEF LeaseInv
<1>3. ASSUME NEW w \in Workers, CountOwners(w) PROVE LeaseInv'
  BY <1>3, LeaseStutter DEF CountOwners
<1>4. ASSUME NEW w \in Workers, PickVictim(w) PROVE LeaseInv'
  BY <1>4, LeaseStutter DEF PickVictim
<1>5. ASSUME NEW w \in Workers, Steal(w) PROVE LeaseInv'
  <2>1. PICK l \in Lanes : StealLane(w, l)
    BY <1>5 DEF Steal, LiveLanes
  <2> QED BY <1>5, <2>1, StealLaneInv DEF Steal, LeaseInv, LeaseTypeOK
<1>6. ASSUME NEW w \in Workers, StealNothing(w) PROVE LeaseInv'
  BY <1>6, LeaseStutter DEF StealNothing
<1>7. ASSUME NEW w \in Workers, BeatKept(w) PROVE LeaseInv'
  BY <1>7, RenewInv DEF BeatKept
<1>8. ASSUME NEW w \in Workers, BeatLost(w) PROVE LeaseInv'
  BY <1>8, BeatFailsInv DEF BeatLost
<1>9. ASSUME NEW w \in Workers, Join(w) PROVE LeaseInv'
  BY <1>9, StartInv DEF Join
<1>10. ASSUME NEW w \in Workers, Quit(w) PROVE LeaseInv'
  BY <1>10, ShutdownInv, CrashInv DEF Quit
<1>11. ASSUME NEW l \in Lanes, Lapse(l) PROVE LeaseInv'
  BY <1>11, LeaseExpiresInv DEF Lapse
<1>12. ASSUME NEW w \in Workers, ClaimLost(w) PROVE LeaseInv'
  BY <1>12, ClaimUnackedInv DEF ClaimLost
<1>13. ASSUME NEW w \in Workers, BidFails(w) PROVE LeaseInv'
  <2>1. churn' \in 0 .. MaxChurn
    BY <1>13, DisturbType DEF BidFails, LeaseInv
  <2>2. CASE UNCHANGED <<owner, lease, version>>
    <3>1. LeaseTypeOK'
      BY <1>13, <2>1, <2>2 DEF BidFails, LeaseInv, LeaseTypeOK
    <3>2. Beliefs'
      BY <1>13, <2>2, ForgettingKeepsBeliefs DEF BidFails, LeaseInv
    <3> QED BY <3>1, <3>2 DEF LeaseInv
  <2>3. ASSUME NEW l \in LiveLanes(bid[w].victim), TakeRows(w, {l}) PROVE LeaseInv'
    <3>1. {l} \in SUBSET Lanes
      BY DEF LiveLanes
    <3>2. LeaseTypeOK'
      BY <1>13, <2>1, <2>3, <3>1, TakeRowsType DEF BidFails, LeaseInv, LeaseTypeOK
    <3>3. Beliefs'
      BY <1>13, <2>3, <3>1, TakingUnawareKeepsBeliefs DEF BidFails, LeaseInv
    <3> QED BY <3>2, <3>3 DEF LeaseInv
  <2> QED BY <1>13, <2>2, <2>3 DEF BidFails
<1>14. CASE UNCHANGED rebalanceVars
  BY <1>14, LeaseStutter DEF rebalanceVars
<1> QED BY <1>1, <1>2, <1>3, <1>4, <1>5, <1>6, <1>7, <1>8, <1>9, <1>10, <1>11, <1>12, <1>13, <1>14
        DEF RebalanceNext

THEOREM RebalanceInvariant == RebalanceSpec => []RebalanceInv
<1>1. RebalanceInit => RebalanceInv
  BY LeaseInitInv, NoBidIsBid DEF RebalanceInit, RebalanceInv
<1>2. RebalanceInv /\ [RebalanceNext]_rebalanceVars => RebalanceInv'
  BY RegistryStep, BidStep DEF RebalanceInv
<1> QED BY <1>1, <1>2, PTL DEF RebalanceSpec

\* Every variable keeps its type; that a share never exceeds the lanes, and
\* never divides by zero, is the census's arithmetic.
THEOREM CensusTypesHold == RebalanceSpec => []RebalanceTypeOK
<1>1. RebalanceInv => RebalanceTypeOK
  BY DEF RebalanceInv, RebalanceTypeOK, LeaseInv, Bid
<1> QED BY <1>1, RebalanceInvariant, PTL

\* Thieves that decide on stale counts, however many race for a lane, never
\* end up with one authority between them.
THEOREM StealsKeepAuthorityUnique == RebalanceSpec => []NoSharedAuthority
<1>1. RebalanceInv => NoSharedAuthority
  BY DEF RebalanceInv, LeaseInv, Beliefs
<1> QED BY <1>1, RebalanceInvariant, PTL

-----------------------------------------------------------------------------
(***************************************************************************)
(* What a thief comes to have.                                             *)
(***************************************************************************)
\* Between its first census and its steal a thief only loses lanes: it makes no
\* claim and sends no heartbeat, and a share that somebody exceeds is not all.
BidCounts(w) ==
  /\ bid[w].step \in {"largest", "steal"} => LiveCount(w) <= bid[w].mine
  /\ bid[w].step = "largest" => \E k \in Nat \ {0} : bid[w].fair = Width \div k
  /\ bid[w].step = "steal" => bid[w].mine < bid[w].fair /\ 2 * bid[w].fair <= Width

CountsInv == \A w \in Workers : BidCounts(w)

LEMMA LanesAreFinite ==
  ASSUME NEW S, S \subseteq Lanes
  PROVE  IsFiniteSet(S) /\ Cardinality(S) \in Nat
<1>1. Width \in Nat \ {0}
  BY LeaseAssumption
<1>2. IsFiniteSet(Lanes)
  BY <1>1, FS_Interval DEF Lanes
<1>3. IsFiniteSet(S)
  BY <1>2, FS_Subset
<1> QED BY <1>3, FS_CardinalityType

\* Its live lanes are those it had, and perhaps the one it stole.
LEMMA CountAfter ==
  ASSUME NEW w, LiveLanes(w)' \subseteq LiveLanes(w)
  PROVE  LiveCount(w)' <= LiveCount(w)
<1>1. LiveLanes(w) \subseteq Lanes /\ LiveLanes(w)' \subseteq Lanes
  BY DEF LiveLanes
<1> QED BY <1>1, LanesAreFinite, FS_Subset DEF LiveCount

LEMMA CountAfterOneMore ==
  ASSUME NEW w, NEW l, LiveLanes(w)' \subseteq LiveLanes(w) \union {l}
  PROVE  LiveCount(w)' <= LiveCount(w) + 1
<1>1. LiveLanes(w) \subseteq Lanes /\ LiveLanes(w)' \subseteq Lanes
  BY DEF LiveLanes
<1>2. IsFiniteSet(LiveLanes(w)) /\ Cardinality(LiveLanes(w)) \in Nat
  BY <1>1, LanesAreFinite
<1>3. /\ IsFiniteSet(LiveLanes(w) \union {l})
      /\ Cardinality(LiveLanes(w) \union {l}) <= Cardinality(LiveLanes(w)) + 1
  BY <1>2, FS_AddElement
<1>4. Cardinality(LiveLanes(w)') <= Cardinality(LiveLanes(w) \union {l})
  BY <1>3, FS_Subset
<1>5. Cardinality(LiveLanes(w)') \in Nat /\ Cardinality(LiveLanes(w) \union {l}) \in Nat
  BY <1>1, <1>3, LanesAreFinite, FS_CardinalityType
<1> QED BY <1>2, <1>3, <1>4, <1>5 DEF LiveCount

\* A share that is not all of the lanes is half of them at most.
LEMMA HalfAtMost ==
  ASSUME NEW k \in Nat \ {0}, Width \div k < Width
  PROVE  2 * (Width \div k) <= Width
<1>1. Width \in Nat
  BY LeaseAssumption
<1>2. \A a \in Nat : a \div 1 = a
  OBVIOUS
<1>3. k # 1
  BY <1>1, <1>2
<1>4. \A a \in Nat, b \in Nat : b >= 2 => 2 * (a \div b) <= a
  <2> SUFFICES ASSUME NEW a \in Nat, NEW b \in Nat, b >= 2 PROVE 2 * (a \div b) <= a
    OBVIOUS
  <2>1. a \div b \in Nat /\ b * (a \div b) <= a
    OBVIOUS
  <2>2. \A q \in Nat : 2 * q <= b * q
    OBVIOUS
  <2>3. 2 * (a \div b) <= b * (a \div b) /\ b * (a \div b) \in Nat
    BY <2>1, <2>2
  <2> QED BY <2>1, <2>3
<1> QED BY <1>1, <1>3, <1>4

\* Only a worker's own claim, steal or heartbeat gives it a live lane.  A steal
\* whose answer was lost gives it one as well, and ends its bid.
LEMMA LiveLanesShrink ==
  ASSUME RebalanceInv, [RebalanceNext]_rebalanceVars, NEW w \in Workers,
         bid[w].step # "none", ~Steal(w), ~BidFails(w)
  PROVE  LiveLanes(w)' \subseteq LiveLanes(w)
<1> USE DEF RebalanceInv, LeaseInv, LeaseTypeOK
<1>1. ASSUME NEW v \in Workers \ {w}, NEW got \in SUBSET Lanes, TakeRows(v, got)
      PROVE  LiveLanes(w)' \subseteq LiveLanes(w)
  BY <1>1 DEF TakeRows, LiveLanes
<1>2. ASSUME NEW v \in Workers, ClaimSome(v) PROVE LiveLanes(w)' \subseteq LiveLanes(w)
  <2>1. v # w
    BY <1>2 DEF ClaimSome
  <2>2. PICK locked \in SUBSET Claimable : TakeRows(v, FirstLanes(Claimable \ locked, MaxClaims))
    BY <1>2 DEF ClaimSome, Claim
  <2>3. FirstLanes(Claimable \ locked, MaxClaims) \in SUBSET Lanes
    BY DEF FirstLanes, Claimable
  <2> QED BY <1>1, <2>1, <2>2, <2>3
<1>3. ASSUME NEW v \in Workers, Steal(v) PROVE LiveLanes(w)' \subseteq LiveLanes(w)
  <2>1. PICK l \in Lanes : TakeRows(v, {l})
    BY <1>3 DEF Steal, StealLane, LiveLanes
  <2>2. v # w
    BY <1>3
  <2> QED BY <1>1, <2>1, <2>2
<1>4. ASSUME NEW v \in Workers, BeatKept(v) PROVE LiveLanes(w)' \subseteq LiveLanes(w)
  <2>1. v # w
    BY <1>4 DEF BeatKept
  <2>2. PICK a \in lanes[v] : Renew(v, a)
    BY <1>4 DEF BeatKept
  <2>3. CASE HasAuthority(v, a) /\ lease' = [lease EXCEPT ![a[1]] = "live"] /\ owner' = owner
    BY <2>1, <2>3 DEF LiveLanes, HasAuthority
  <2>4. CASE UNCHANGED <<lease, owner>>
    BY <2>4 DEF LiveLanes
  <2> QED BY <2>2, <2>3, <2>4 DEF Renew
<1>5. CASE UNCHANGED <<owner, lease>>
  BY <1>5 DEF LiveLanes
<1>6. ASSUME NEW v \in Workers, Quit(v) PROVE LiveLanes(w)' \subseteq LiveLanes(w)
  BY <1>5, <1>6 DEF Quit, Shutdown, Crash, LiveLanes
<1>7. ASSUME NEW l \in Lanes, Lapse(l) PROVE LiveLanes(w)' \subseteq LiveLanes(w)
  BY <1>7 DEF Lapse, LeaseExpires, LiveLanes
<1>8. ASSUME NEW v \in Workers, ClaimLost(v) PROVE LiveLanes(w)' \subseteq LiveLanes(w)
  <2>1. v # w
    BY <1>8 DEF ClaimLost
  <2>2. PICK locked \in SUBSET Claimable : TakeRows(v, FirstLanes(Claimable \ locked, MaxClaims))
    BY <1>8 DEF ClaimLost, ClaimUnacked
  <2>3. FirstLanes(Claimable \ locked, MaxClaims) \in SUBSET Lanes
    BY DEF FirstLanes, Claimable
  <2> QED BY <1>1, <2>1, <2>2, <2>3
<1>9. ASSUME NEW v \in Workers, BidFails(v) PROVE LiveLanes(w)' \subseteq LiveLanes(w)
  <2>1. v # w
    BY <1>9
  <2>2. ASSUME NEW l \in LiveLanes(bid[v].victim), TakeRows(v, {l})
        PROVE  LiveLanes(w)' \subseteq LiveLanes(w)
    <3>1. {l} \in SUBSET Lanes
      BY DEF LiveLanes
    <3> QED BY <1>1, <2>1, <2>2, <3>1
  <2> QED BY <1>5, <1>9, <2>2 DEF BidFails
<1> QED BY <1>2, <1>3, <1>4, <1>5, <1>6, <1>7, <1>8, <1>9
        DEF RebalanceNext, ClaimNone, CountOwners, PickVictim, StealNothing, BeatLost, BeatFails,
            Join, Start, leaseVars, rebalanceVars

\* What a rebalance comes to, by its own steps; the others leave it alone.
LEMMA BidMoves ==
  ASSUME RebalanceInv, [RebalanceNext]_rebalanceVars, NEW w \in Workers
  PROVE  \/ bid'[w] = bid[w]
         \/ bid'[w].step \in {"none", "totals"}
         \/ CountOwners(w) /\ bid'[w].step = "largest"
         \/ PickVictim(w) /\ bid'[w].step = "steal"
<1> USE NoBidIsBid DEF RebalanceInv
<1> DEFINE Goal == \/ bid'[w] = bid[w]
                   \/ bid'[w].step \in {"none", "totals"}
                   \/ CountOwners(w) /\ bid'[w].step = "largest"
                   \/ PickVictim(w) /\ bid'[w].step = "steal"
<1>1. ASSUME NEW v \in Workers, NEW b \in Bid, bid' = [bid EXCEPT ![v] = b],
             b.step \in {"none", "totals"}
      PROVE  Goal
  BY <1>1
<1>2. NoBid.step = "none"
  BY DEF NoBid
<1>3. ASSUME NEW v \in Workers, ClaimNone(v) PROVE Goal
  BY <1>3 DEF ClaimNone, NoBid
<1>4. ASSUME NEW v \in Workers, CountOwners(v) PROVE Goal
  <2>1. bid[v] \in Bid
    OBVIOUS
  <2>2. bid'[v].step = "largest" /\ \A u \in Workers \ {v} : bid'[u] = bid[u]
    BY <1>4, <2>1 DEF CountOwners, Bid
  <2> QED BY <1>4, <2>2
<1>5. ASSUME NEW v \in Workers, PickVictim(v) PROVE Goal
  <2>1. bid[v] \in Bid
    OBVIOUS
  <2>2. /\ bid'[v].step = "steal" \/ bid'[v].step = "none"
        /\ \A u \in Workers \ {v} : bid'[u] = bid[u]
    BY <1>2, <1>5, <2>1 DEF PickVictim, Bid
  <2> QED BY <1>5, <2>2
<1>6. ASSUME NEW v \in Workers, Steal(v) PROVE Goal
  <2>1. bid'[v].step \in {"none", "totals"} /\ \A u \in Workers \ {v} : bid'[u] = bid[u]
    BY <1>6 DEF Steal, NoBid
  <2> QED BY <2>1
<1>7. ASSUME NEW v \in Workers, StealNothing(v) \/ BidFails(v) \/ Quit(v) PROVE Goal
  BY <1>1, <1>2, <1>7 DEF StealNothing, BidFails, Quit
<1>8. UNCHANGED bid => Goal
  OBVIOUS
<1> QED BY <1>3, <1>4, <1>5, <1>6, <1>7, <1>8
        DEF RebalanceNext, rebalanceVars, ClaimSome, ClaimLost, BeatKept, BeatLost, Join, Lapse

LEMMA CountsStep ==
  ASSUME RebalanceInv, RebalanceInv', CountsInv, [RebalanceNext]_rebalanceVars
  PROVE  CountsInv'
<1> SUFFICES ASSUME NEW w \in Workers PROVE BidCounts(w)'
  BY DEF CountsInv
<1> USE DEF RebalanceInv
<1>1. /\ bid[w] \in Bid /\ bid'[w] \in Bid
      /\ BidCounts(w)
      /\ LiveCount(w) \in Nat /\ LiveCount(w)' \in Nat
      /\ Width \in Nat
  <2>1. LiveLanes(w) \subseteq Lanes /\ LiveLanes(w)' \subseteq Lanes
    BY DEF LiveLanes
  <2>2. LiveCount(w) \in Nat /\ LiveCount(w)' \in Nat
    BY <2>1, LanesAreFinite DEF LiveCount
  <2> QED BY <2>2, LeaseAssumption DEF CountsInv
<1>2. bid[w].mine \in Nat /\ bid[w].fair \in Nat /\ bid'[w].mine \in Nat /\ bid'[w].fair \in Nat
  BY <1>1 DEF Bid
<1>3. bid[w].step # "none" /\ ~Steal(w) /\ ~BidFails(w) => LiveCount(w)' <= LiveCount(w)
  BY LiveLanesShrink, CountAfter
<1>4. CASE bid'[w] = bid[w]
  <2>1. CASE bid[w].step \in {"largest", "steal"}
    <3>1. ~Steal(w) /\ ~BidFails(w)
      <4>1. Steal(w) => bid'[w].step \in {"none", "totals"}
        BY DEF Steal, NoBid
      <4>2. BidFails(w) => bid'[w].step = "none"
        BY DEF BidFails, NoBid
      <4> QED BY <1>4, <2>1, <4>1, <4>2
    <3> QED BY <1>1, <1>2, <1>3, <1>4, <2>1, <3>1 DEF BidCounts
  <2>2. CASE bid[w].step \notin {"largest", "steal"}
    BY <1>4, <2>2 DEF BidCounts
  <2> QED BY <2>1, <2>2
<1>5. CASE bid'[w].step \in {"none", "totals"}
  BY <1>5 DEF BidCounts
<1>6. CASE CountOwners(w) /\ bid'[w].step = "largest"
  <2>1. bid'[w].mine = LiveCount(w) /\ bid'[w].fair = FairShare(LiveCount(w), Cardinality(LiveOwners))
    BY <1>1, <1>6 DEF CountOwners, Bid
  <2>2. LiveCount(w)' = LiveCount(w)
    BY <1>6 DEF CountOwners, leaseVars, LiveCount, LiveLanes
  <2>3. \E k \in Nat \ {0} : bid'[w].fair = Width \div k
    BY <2>1, FairShareIs
  <2>4. LiveCount(w)' <= bid'[w].mine
    BY <1>1, <2>1, <2>2
  <2> QED BY <1>6, <2>3, <2>4 DEF BidCounts
<1>7. CASE PickVictim(w) /\ bid'[w].step = "steal"
  <2>1. PICK v \in LargestOthers(w) :
          /\ bid[w].step = "largest" /\ bid[w].mine < bid[w].fair /\ LiveCount(v) > bid[w].fair
          /\ bid'[w].mine = bid[w].mine /\ bid'[w].fair = bid[w].fair
    BY <1>1, <1>7 DEF PickVictim, Bid, NoBid
  <2>2. LiveCount(w)' = LiveCount(w)
    BY <1>7 DEF PickVictim, leaseVars, LiveCount, LiveLanes
  <2>3. LiveCount(v) \in 0 .. Width
    BY LiveCountBound
  <2>4. bid[w].fair < Width
    BY <1>1, <1>2, <2>1, <2>3
  <2>5. 2 * bid[w].fair <= Width
    BY <1>1, <2>1, <2>4, HalfAtMost DEF BidCounts
  <2>6. LiveCount(w)' <= bid'[w].mine
    BY <1>1, <2>1, <2>2 DEF BidCounts
  <2>7. bid'[w].mine < bid'[w].fair /\ 2 * bid'[w].fair <= Width
    BY <2>1, <2>5
  <2> QED BY <1>7, <2>6, <2>7 DEF BidCounts
<1> QED BY <1>4, <1>5, <1>6, <1>7, BidMoves

\* Whatever has become of the counts by the time it steals, no thief comes to
\* have more live lanes than the share it counted, nor more than half of them.
THEOREM ThievesKeepToTheirShare == RebalanceSpec => StealsWithinShare
<1>1. RebalanceInit => CountsInv
  BY DEF RebalanceInit, CountsInv, BidCounts, NoBid
<1>2. RebalanceInv /\ RebalanceInv' /\ CountsInv /\ [RebalanceNext]_rebalanceVars => CountsInv'
  BY CountsStep
<1>3. ASSUME RebalanceInv, CountsInv, NEW w \in Workers, Steal(w)
      PROVE  LiveCount(w)' <= bid[w].fair /\ 2 * LiveCount(w)' <= Width
  <2>1. PICK l \in Lanes : TakeRows(w, {l})
    BY <1>3 DEF Steal, StealLane, LiveLanes
  <2>2. LiveLanes(w)' \subseteq LiveLanes(w) \union {l}
    BY <1>3, <2>1 DEF TakeRows, LiveLanes
  <2>3. LiveCount(w)' <= LiveCount(w) + 1
    BY <2>2, CountAfterOneMore
  <2>4. LiveCount(w) <= bid[w].mine /\ bid[w].mine < bid[w].fair /\ 2 * bid[w].fair <= Width
    BY <1>3 DEF CountsInv, BidCounts, Steal
  <2>5. bid[w].mine \in Nat /\ bid[w].fair \in Nat /\ Width \in Nat
    BY <1>3, LeaseAssumption DEF RebalanceInv, Bid
  <2>6. LiveCount(w) \in Nat /\ LiveCount(w)' \in Nat
    <3>1. LiveLanes(w) \subseteq Lanes /\ LiveLanes(w)' \subseteq Lanes
      BY DEF LiveLanes
    <3> QED BY <3>1, LanesAreFinite DEF LiveCount
  <2> QED BY <2>3, <2>4, <2>5, <2>6
<1>4. RebalanceInv /\ CountsInv /\ [RebalanceNext]_rebalanceVars
        => [\A w \in Workers : Steal(w) =>
              LiveCount(w)' <= bid[w].fair /\ 2 * LiveCount(w)' <= Width]_rebalanceVars
  BY <1>3
<1> QED BY <1>1, <1>2, <1>4, RebalanceInvariant, PTL DEF RebalanceSpec, StealsWithinShare
=============================================================================
