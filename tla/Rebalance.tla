----------------------------- MODULE Rebalance -----------------------------
(***************************************************************************)
(* The fair-share rebalance (MailboxWorker::rebalance with                 *)
(* ownership_census, OwnershipCensus::fair_share and steal_from): a worker *)
(* whose claim found nothing takes a census in two queries, and steals one *)
(* lane of the largest other owner while it is below its fair share and    *)
(* that owner is above it.  The two queries and the steal are three        *)
(* separate statements: between them other workers move.                   *)
(***************************************************************************)
EXTENDS Lease

CONSTANT MaxVersion  \* bound: ownership changes of one lane

ASSUME MaxVersionAssumption == MaxVersion \in Nat

VARIABLE bid  \* per worker: where its rebalance stands

rebalanceVars == <<leaseVars, bid>>

NoBid == [step |-> "none", mine |-> 0, fair |-> 0, stolen |-> 0,
          victim |-> NoWorker]

RebalanceTypeOK ==
  /\ LeaseTypeOK
  /\ bid \in [Workers -> [step : {"none", "totals", "largest", "steal"},
                          mine : 0 .. Width, fair : 0 .. Width,
                          stolen : 0 .. MaxClaims,
                          victim : Workers \union {NoWorker}]]

\* Live lanes: claimed_by = w AND lease_until > now().
LiveLanes(w) == {l \in Lanes : owner[l] = w /\ lease[l] = "live"}
LiveCount(w) == Cardinality(LiveLanes(w))
LiveOwners == {w \in Workers : LiveLanes(w) # {}}

\* OwnershipCensus::fair_share: a worker that owns nothing counts itself.
FairShare(mine, owners) ==
  LET instances == owners + (IF mine = 0 THEN 1 ELSE 0)
  IN  Width \div instances

\* ORDER BY lanes DESC LIMIT 1 over the other live owners; the tie-break on
\* the worker's name is left open.
LargestOthers(w) ==
  {v \in LiveOwners \ {w} : \A u \in LiveOwners \ {w} : LiveCount(u) <= LiveCount(v)}

(***************************************************************************)
(* Actions.                                                                *)
(***************************************************************************)
\* Mutation: claims go on beside the rebalance.
ClaimSomeMeanwhile(w) == Claim(w) /\ UNCHANGED bid

\* A claim that finds claimable lanes is the whole pass; no rebalance.
ClaimSome(w) ==
  /\ bid[w].step = "none"
  /\ Claim(w)
  /\ UNCHANGED bid

\* The claim committed and its answer was lost: for full_pass the claim failed,
\* and a failed claim is no reason to rebalance.
ClaimLost(w) ==
  /\ bid[w].step = "none"
  /\ ClaimUnacked(w)
  /\ UNCHANGED bid

\* claim() returned 0, because nothing is claimable or (a disturbance)
\* because every claimable row was locked: rebalance() begins.
ClaimNone(w) ==
  /\ life[w] = "up"
  /\ bid[w].step = "none"
  /\ IF Claimable = {} THEN UNCHANGED churn ELSE Disturb
  /\ bid' = [bid EXCEPT ![w] = [NoBid EXCEPT !.step = "totals"]]
  /\ UNCHANGED <<owner, lease, version, lanes, warm, life>>

\* First census query: the width, my live lanes, the live owners.
CountOwners(w) ==
  /\ life[w] = "up"
  /\ bid[w].step = "totals"
  /\ LET mine == LiveCount(w)
         fair == FairShare(mine, Cardinality(LiveOwners))
     IN  bid' = [bid EXCEPT ![w].step = "largest", ![w].mine = mine, ![w].fair = fair]
  /\ UNCHANGED leaseVars

\* Second census query: the largest other owner; then the decision.
PickVictim(w) ==
  /\ life[w] = "up"
  /\ bid[w].step = "largest"
  /\ \/ /\ bid[w].mine < bid[w].fair
        /\ \E v \in LargestOthers(w) :
             /\ LiveCount(v) > bid[w].fair
             /\ bid' = [bid EXCEPT ![w].step = "steal", ![w].victim = v]
     \/ /\ \/ bid[w].mine >= bid[w].fair
           \/ \A v \in LargestOthers(w) : LiveCount(v) <= bid[w].fair
        /\ bid' = [bid EXCEPT ![w] = NoBid]
  /\ UNCHANGED leaseVars

\* steal_from the highest live lane of the victim that no other statement has
\* locked, then back to the census up to max_claims_per_pass steals.
Steal(w) ==
  /\ bid[w].step = "steal"
  /\ \E l \in LiveLanes(bid[w].victim) :
       /\ version[l] < MaxVersion
       /\ StealLane(w, l)
  /\ bid' = [bid EXCEPT ![w] =
       IF @.stolen + 1 < MaxClaims
         THEN [NoBid EXCEPT !.step = "totals", !.stolen = bid[w].stolen + 1]
         ELSE NoBid]
  /\ UNCHANGED churn

\* The victim's live lanes vanished under the thief.
StealNothing(w) ==
  /\ life[w] = "up"
  /\ bid[w].step = "steal"
  /\ LiveLanes(bid[w].victim) = {}
  /\ bid' = [bid EXCEPT ![w] = NoBid]
  /\ UNCHANGED leaseVars

\* A disturbance ends the bid: a census or the steal errs (`?`), every lane of
\* the victim is locked by another statement (SKIP LOCKED), or the steal has
\* committed and its answer is lost.
BidFails(w) ==
  /\ life[w] = "up"
  /\ bid[w].step # "none"
  /\ Disturb
  /\ \/ UNCHANGED <<owner, lease, version>>
     \/ /\ bid[w].step = "steal"
        /\ \E l \in LiveLanes(bid[w].victim) :
             /\ version[l] < MaxVersion
             /\ TakeRows(w, {l})
  /\ bid' = [bid EXCEPT ![w] = NoBid]
  /\ UNCHANGED <<lanes, warm, life>>

\* The heartbeat runs between passes, never inside a rebalance.
BeatKept(w) ==
  /\ bid[w].step = "none"
  /\ \E a \in lanes[w] : Renew(w, a)
  /\ UNCHANGED bid

\* beat() fails and the worker forgets lanes it still owns in the registry.
BeatLost(w) == bid[w].step = "none" /\ BeatFails(w) /\ UNCHANGED bid

Join(w) == Start(w) /\ UNCHANGED bid
Quit(w) == (Shutdown(w) \/ Crash(w)) /\ bid' = [bid EXCEPT ![w] = NoBid]
Lapse(l) == LeaseExpires(l) /\ UNCHANGED bid

RebalanceInit == LeaseInit /\ bid = [w \in Workers |-> NoBid]

RebalanceNext ==
  \/ \E w \in Workers :
       \/ Join(w) \/ ClaimSome(w) \/ ClaimLost(w) \/ ClaimNone(w)
       \/ CountOwners(w) \/ PickVictim(w) \/ Steal(w) \/ StealNothing(w) \/ BidFails(w)
       \/ BeatKept(w) \/ BeatLost(w) \/ Quit(w)
  \/ \E l \in Lanes : Lapse(l)

\* Every process starts, the worker loop keeps making passes, and time
\* passes for the leases nobody renews.
RebalanceFairness ==
  /\ \A w \in Workers :
       /\ WF_rebalanceVars(Join(w))
       /\ WF_rebalanceVars(ClaimSome(w))
       /\ WF_rebalanceVars(ClaimNone(w))
       /\ WF_rebalanceVars(CountOwners(w))
       /\ WF_rebalanceVars(PickVictim(w))
       /\ WF_rebalanceVars(Steal(w))
       /\ WF_rebalanceVars(StealNothing(w))
  /\ \A l \in Lanes : WF_rebalanceVars(Lapse(l) /\ ~Held(l))

RebalanceSpec == RebalanceInit /\ [][RebalanceNext]_rebalanceVars /\ RebalanceFairness

-----------------------------------------------------------------------------
\* The workers that will take part once everybody has started and nobody
\* leaves any more.
Running == {w \in Workers : life[w] = "up"}

\* "A worker at its floor is never a thief" (worker.rs, rebalance), although both
\* counts may be old when it steals: no thief comes to have more live lanes than
\* the share it counted, nor more than half of the lanes.  There is no such floor
\* for the victim, which several thieves may have counted at once.
StealsWithinShare ==
  [][\A w \in Workers : Steal(w) =>
       LiveCount(w)' <= bid[w].fair /\ 2 * LiveCount(w)' <= Width]_rebalanceVars

\* No running worker would steal, whatever it counted: it has its share, or
\* nobody has more than that share.
Balanced ==
  \A w \in Running :
    LET fair == FairShare(LiveCount(w), Cardinality(LiveOwners)) IN
    \/ LiveCount(w) >= fair
    \/ \A v \in LargestOthers(w) : LiveCount(v) <= fair

\* Stealing converges instead of thrashing (worker.rs, rebalance): once the
\* disturbances are over, every lane is live-owned and the spread stays one
\* in which nobody steals.
Converges == <>[](Balanced /\ \A l \in Lanes : lease[l] = "live")
=============================================================================
