---------------------------- MODULE Quota_proofs ----------------------------
(***************************************************************************)
(* Theorems about the counters for any numbers, windows, limits, ladder,   *)
(* clocks and deliveries at one time.                                      *)
(***************************************************************************)
EXTENDS Quota, Integers, WellFoundedInduction, FiniteSetTheorems, TLAPS

\* A counter is followed until its row is deleted by hand, which starts it over.
Followed(b) == b # Global \/ operator # "restored"

\* A request knows a time that is past, and not long past while it claims.
RequestsAreRecent ==
  \A c \in Callers : request[c].stage # 0 =>
    /\ request[c].number \in Numbers
    /\ request[c].now <= clock
    /\ InClaims(c) => clock <= request[c].now + MaxLag

\* A row's last grant lies in its window, and no grant of the counter, of this
\* window or an earlier one, is later.
RowIsNewest(b) ==
  rows[b] # NoRow =>
    /\ rows[b].count \in 1 .. LimitOf(b)
    /\ rows[b].start <= rows[b].last
    /\ rows[b].last < rows[b].start + WindowOf(b)
    /\ \A t \in Times : granted[b][t] > 0 => t <= rows[b].last

\* A row is swept so late that no request still knows a time of its window.
SweptIsOver(b) ==
  rows[b] = NoRow => \A t \in Times : granted[b][t] > 0 => t + WindowOf(b) + MaxLag < clock

RowsRight == \A b \in Buckets : Followed(b) => RowIsNewest(b) /\ SweptIsOver(b)

QuotaInv ==
  /\ QuotaTypeOK
  /\ RequestsAreRecent
  /\ RowsRight

-----------------------------------------------------------------------------
(***************************************************************************)
(* The operators.                                                          *)
(***************************************************************************)

LEMMA BucketKinds ==
  ASSUME NEW b \in Buckets
  PROVE  /\ WindowOf(b) \in Nat \ {0}
         /\ LimitOf(b) \in Nat
         /\ b[2] \in Kinds
BY QuotaAssumption DEF Buckets, WindowOf, LimitOf, Kinds, Global

LEMMA HourlyIsFollowed ==
  ASSUME NEW number \in Numbers
  PROVE  LET b == <<number, "hour">> IN b \in Buckets /\ b # Global /\ Followed(b) /\ b[2] = "hour"
BY QuotaAssumption DEF Buckets, Global, Followed

\* The ladder that a claim of this counter asks, by the reference.
LEMMA CooldownIsNat ==
  ASSUME NEW count \in Nat
  PROVE  CooldownAfter(count) \in Nat
<1>1. CASE count = 0 \/ Backoff = <<>>
  BY <1>1 DEF CooldownAfter
<1>2. CASE count # 0 /\ Backoff # <<>>
  <2>1. Len(Backoff) \in Nat \ {0}
    BY <1>2, QuotaAssumption
  <2>2. Lesser(count, Len(Backoff)) \in 1 .. Len(Backoff)
    BY <1>2, <2>1 DEF Lesser
  <2> QED
    BY <1>2, <2>2, QuotaAssumption DEF CooldownAfter
<1> QED
  BY <1>1, <1>2

\* The statement's array, indexed from 1 and with a NULL for no rung, is the
\* reference's ladder once something was sent.
LEMMA SqlLadder ==
  ASSUME NEW b \in Buckets, NEW count \in Nat
  PROVE  /\ CooldownInSql(b, count) \in Nat
         /\ b[2] = "hour" /\ count >= 1 => CooldownInSql(b, count) = CooldownAfter(count)
         /\ b[2] # "hour" => CooldownInSql(b, count) = 0
<1>1. CASE b[2] # "hour"
  BY <1>1 DEF CooldownInSql, LadderOf
<1>2. CASE b[2] = "hour"
  <2>1. LadderOf(b) = Backoff
    BY <1>2 DEF LadderOf
  <2>2. Len(Backoff) \in Nat /\ DOMAIN Backoff = 1 .. Len(Backoff)
    BY QuotaAssumption
  <2>3. Backoff \in [DOMAIN Backoff -> Nat]
    BY QuotaAssumption, <2>2
  <2>4. CooldownInSql(b, count) \in Nat
    BY <2>1, <2>3 DEF CooldownInSql
  <2>5. ASSUME count >= 1 PROVE CooldownInSql(b, count) = CooldownAfter(count)
    <3>1. CASE Len(Backoff) = 0
      <4>1. Backoff = <<>>
        BY <3>1, QuotaAssumption
      <4>2. Lesser(count, Len(Backoff)) \notin DOMAIN Backoff
        BY <2>2, <2>5, <3>1 DEF Lesser
      <4> QED
        BY <2>1, <4>1, <4>2 DEF CooldownInSql, CooldownAfter
    <3>2. CASE Len(Backoff) # 0
      <4>1. Backoff # <<>>
        BY <3>2
      <4>2. Lesser(count, Len(Backoff)) \in DOMAIN Backoff
        BY <2>2, <2>5, <3>2 DEF Lesser
      <4> QED
        BY <2>1, <2>5, <4>1, <4>2 DEF CooldownInSql, CooldownAfter
    <3> QED
      BY <3>1, <3>2
  <2> QED
    BY <1>2, <2>4, <2>5
<1> QED
  BY <1>1, <1>2

-----------------------------------------------------------------------------
(***************************************************************************)
(* One grant, whoever makes it.                                            *)
(***************************************************************************)

LEMMA RowsAreNumbers ==
  ASSUME QuotaTypeOK, NEW b \in Buckets
  PROVE  /\ rows[b] \in Row
         /\ rows[b].start \in Nat /\ rows[b].count \in Nat /\ rows[b].last \in Nat
         /\ NoRow \in Row
BY QuotaAssumption DEF QuotaTypeOK, Row, NoRow, Times

LEMMA GrantTypes ==
  ASSUME QuotaTypeOK, NEW b \in Buckets, NEW now \in Times, Grant(b, now)
  PROVE  rows' \in [Buckets -> Row] /\ granted' \in [Buckets -> [Times -> Nat]]
<1>1. rows[b] \in Row
  BY RowsAreNumbers
<1>2. Claimed(rows[b], b, now) \in Row
  BY <1>1, QuotaAssumption DEF Claimed, Row, Times
<1>3. rows' \in [Buckets -> Row]
  BY <1>2 DEF Grant, QuotaTypeOK
<1>4. granted[b][now] + 1 \in Nat
  BY DEF QuotaTypeOK
<1>5. granted' \in [Buckets -> [Times -> Nat]]
  BY <1>4 DEF Grant, QuotaTypeOK
<1> QED
  BY <1>3, <1>5

\* What a grant leaves, and where.
LEMMA GrantEffect ==
  ASSUME QuotaTypeOK, NEW b \in Buckets, NEW now \in Times, Grant(b, now)
  PROVE  /\ Admits(rows[b], b, now)
         /\ rows'[b] = Claimed(rows[b], b, now)
         /\ \A q \in Buckets : q # b => rows'[q] = rows[q] /\ granted'[q] = granted[q]
         /\ \A t \in Times : granted'[b][t] > 0 => granted[b][t] > 0 \/ t = now
BY DEF Grant, QuotaTypeOK

\* A claim that extends a window comes no earlier than its last grant; one that
\* opens a window comes later than every grant there was.
LEMMA GrantIsNewest ==
  ASSUME QuotaTypeOK, NEW b \in Buckets, NEW now \in Times, Grant(b, now),
         clock <= now + MaxLag, RowIsNewest(b), SweptIsOver(b)
  PROVE  /\ rows'[b] # NoRow
         /\ RowIsNewest(b)'
<1>n. now \in Nat /\ clock \in Nat /\ MaxLag \in Nat /\ Times \subseteq Nat
  BY QuotaAssumption DEF QuotaTypeOK, Times
<1>w. WindowOf(b) \in Nat \ {0} /\ LimitOf(b) \in Nat
  BY BucketKinds
<1>r. /\ rows[b].start \in Nat /\ rows[b].count \in Nat /\ rows[b].last \in Nat
      /\ rows[b] \in Row
  BY RowsAreNumbers
<1>e. /\ Admits(rows[b], b, now)
      /\ rows'[b] = Claimed(rows[b], b, now)
      /\ \A t \in Times : granted'[b][t] > 0 => granted[b][t] > 0 \/ t = now
  BY GrantEffect
<1>1. CASE rows[b] = NoRow \/ Expired(rows[b], b, now)
  <2>1. rows'[b] = [start |-> now, count |-> 1, last |-> now]
    BY <1>1, <1>e DEF Claimed
  <2>2. \A t \in Times : granted[b][t] > 0 => t <= now
    <3>1. CASE rows[b] = NoRow
      BY <3>1, <1>n, <1>w DEF SweptIsOver
    <3>2. CASE rows[b] # NoRow /\ Expired(rows[b], b, now)
      BY <3>2, <1>n, <1>w, <1>r DEF RowIsNewest, Expired
    <3> QED
      BY <1>1, <3>1, <3>2
  <2>3. LimitOf(b) >= 1
    BY <1>e DEF Admits
  <2> QED
    BY <2>1, <2>2, <2>3, <1>e, <1>n, <1>w DEF RowIsNewest, NoRow, WindowOf, LimitOf
<1>2. CASE rows[b] # NoRow /\ ~Expired(rows[b], b, now)
  <2>1. rows'[b] = [start |-> rows[b].start, count |-> rows[b].count + 1, last |-> now]
    BY <1>2, <1>e DEF Claimed
  <2>2. /\ rows'[b].start = rows[b].start
        /\ rows'[b].count = rows[b].count + 1
        /\ rows'[b].last = now
    BY <2>1, <1>r DEF Row
  <2>3. now >= rows[b].last + CooldownInSql(b, rows[b].count)
    BY <1>2, <1>e DEF Admits
  <2>4. now >= rows[b].last
    BY <2>3, <1>n, <1>r, SqlLadder
  <2>5. now < rows[b].start + WindowOf(b)
    BY <1>2, <1>n, <1>w, <1>r DEF Expired
  <2>6. rows'[b] # NoRow
    BY <2>2, <1>r DEF NoRow
  <2>7. \A t \in Times : granted'[b][t] > 0 => t <= now
    BY <1>2, <1>e, <1>n, <1>r, <2>4 DEF RowIsNewest
  <2>8. rows[b].count + 1 \in 1 .. LimitOf(b)
    BY <1>2, <1>e, <1>r, <1>w DEF Admits
  <2> QED
    BY <1>2, <1>n, <1>r, <1>w, <2>2, <2>4, <2>5, <2>6, <2>7, <2>8 DEF RowIsNewest, WindowOf, LimitOf
<1> QED
  BY <1>1, <1>2

LEMMA GrantKeepsRows ==
  ASSUME QuotaInv, NEW b \in Buckets, NEW now \in Times, Grant(b, now),
         clock <= now + MaxLag, UNCHANGED <<clock, operator>>
  PROVE  RowsRight'
<1> SUFFICES ASSUME NEW q \in Buckets, Followed(q)' PROVE RowIsNewest(q)' /\ SweptIsOver(q)'
  BY DEF RowsRight
<1>i. QuotaTypeOK /\ RowIsNewest(q) /\ SweptIsOver(q)
  BY DEF QuotaInv, RowsRight, Followed
<1>1. CASE q = b
  BY <1>1, <1>i, GrantIsNewest DEF SweptIsOver
<1>2. CASE q # b
  <2>1. rows'[q] = rows[q] /\ granted'[q] = granted[q]
    BY <1>2, <1>i, GrantEffect
  <2> QED
    BY <1>i, <2>1 DEF RowIsNewest, SweptIsOver, WindowOf, LimitOf
<1> QED
  BY <1>1, <1>2

\* A row that nobody touches, while time may pass.
LEMMA RowRests ==
  ASSUME QuotaInv, NEW q \in Buckets, Followed(q), rows'[q] = rows[q], granted'[q] = granted[q],
         clock' \in Nat, clock <= clock'
  PROVE  RowIsNewest(q)' /\ SweptIsOver(q)'
<1>1. RowIsNewest(q) /\ SweptIsOver(q)
  BY DEF QuotaInv, RowsRight
<1>2. clock \in Nat /\ MaxLag \in Nat /\ Times \subseteq Nat /\ WindowOf(q) \in Nat
  BY QuotaAssumption, BucketKinds DEF QuotaInv, QuotaTypeOK, Times
<1> QED
  BY <1>1, <1>2 DEF RowIsNewest, SweptIsOver, WindowOf, LimitOf

LEMMA RowsRest ==
  ASSUME QuotaInv, UNCHANGED <<rows, granted, operator>>, clock' \in Nat, clock <= clock'
  PROVE  RowsRight'
  BY RowRests DEF RowsRight, Followed

-----------------------------------------------------------------------------
(***************************************************************************)
(* The invariant.                                                          *)
(***************************************************************************)

\* What a request that claims asks for is a counter.
LEMMA AskedIsBucket ==
  ASSUME QuotaInv, NEW c \in Callers, InClaims(c)
  PROVE  /\ Asked(c) \in Buckets
         /\ request[c].now \in Times
         /\ clock <= request[c].now + MaxLag
<1>1. request[c] \in Request
  BY DEF QuotaInv, QuotaTypeOK
<1>2. request[c].stage \in {1, 2, 3} /\ request[c].stage # 0
  BY DEF InClaims
<1>3. request[c].number \in Numbers /\ clock <= request[c].now + MaxLag
  BY <1>2 DEF QuotaInv, RequestsAreRecent
<1>4. Asked(c) \in {<<request[c].number, "hour">>, <<request[c].number, "day">>, Global}
  BY <1>2 DEF Asked, Claims
<1>5. Asked(c) \in Buckets
  BY <1>3, <1>4 DEF Buckets, Global
<1> QED
  BY <1>1, <1>3, <1>5 DEF Request

LEMMA InitInv == ASSUME QuotaInit PROVE QuotaInv
<1>1. QuotaTypeOK
  BY QuotaAssumption DEF QuotaInit, QuotaTypeOK, Times, Row, NoRow, Request, Idle
<1>2. RequestsAreRecent
  BY DEF QuotaInit, RequestsAreRecent, Idle
<1>3. RowsRight
  BY DEF QuotaInit, RowsRight, RowIsNewest, SweptIsOver
<1> QED
  BY <1>1, <1>2, <1>3 DEF QuotaInv

\* A request that ends, while the clock stands.
LEMMA LeaveRequests ==
  ASSUME QuotaInv, NEW c \in Callers, Leave(c), UNCHANGED clock
  PROVE  request' \in [Callers -> Request] /\ RequestsAreRecent'
<1>1. Idle \in Request
  BY QuotaAssumption DEF Idle, Request, Times
<1>2. request' \in [Callers -> Request]
  BY <1>1 DEF QuotaInv, QuotaTypeOK, Leave
<1>3. \A d \in Callers : request'[d] = IF d = c THEN Idle ELSE request[d]
  BY DEF QuotaInv, QuotaTypeOK, Leave
<1>4. RequestsAreRecent'
  BY <1>3 DEF QuotaInv, RequestsAreRecent, InClaims, Idle
<1> QED
  BY <1>2, <1>4

\* The operator touches the platform's row alone: he fills it up, or deletes it.
LEMMA OperatorKeepsRows ==
  ASSUME QuotaInv, Stop \/ Restore
  PROVE  rows' \in [Buckets -> Row] /\ RowsRight'
<1>1. /\ QuotaTypeOK /\ clock' = clock /\ granted' = granted
      /\ Global \in Buckets /\ clock \in Nat /\ NoRow \in Row
  <2>1. QuotaTypeOK /\ clock' = clock /\ granted' = granted
    BY DEF QuotaInv, Stop, Restore
  <2>2. Global \in Buckets
    BY DEF Buckets, Global
  <2>3. clock \in Nat
    BY <2>1 DEF QuotaTypeOK, Times
  <2> QED
    BY <2>1, <2>2, <2>3, RowsAreNumbers
<1>2. ASSUME NEW row \in Row, rows' = [rows EXCEPT ![Global] = row],
             Followed(Global)' => RowIsNewest(Global)' /\ SweptIsOver(Global)'
      PROVE  rows' \in [Buckets -> Row] /\ RowsRight'
  <2>1. rows' \in [Buckets -> Row]
    BY <1>1, <1>2 DEF QuotaTypeOK
  <2>2. ASSUME NEW q \in Buckets, q # Global PROVE RowIsNewest(q)' /\ SweptIsOver(q)'
    <3>1. rows'[q] = rows[q] /\ granted'[q] = granted[q]
      BY <1>1, <1>2, <2>2 DEF QuotaTypeOK
    <3> QED
      BY <1>1, <2>2, <3>1, RowRests DEF Followed
  <2> QED
    BY <1>2, <2>1, <2>2 DEF RowsRight
<1>3. CASE Stop
  <2> DEFINE full == [rows[Global] EXCEPT !.count = Limit["global"]]
  <2>1. rows[Global] \in Row /\ rows[Global] # NoRow /\ Limit["global"] \in Nat
    BY <1>1, <1>3, QuotaAssumption DEF QuotaTypeOK, Stop, Kinds
  <2>2. /\ full \in Row /\ full.count = Limit["global"]
        /\ full.start = rows[Global].start /\ full.last = rows[Global].last
    BY <2>1 DEF Row
  <2>3. rows' = [rows EXCEPT ![Global] = full]
    BY <1>3 DEF Stop
  <2> HIDE DEF full
  <2>4. RowIsNewest(Global)
    BY <1>1, <1>3 DEF QuotaInv, RowsRight, Followed, Stop
  <2>5. LimitOf(Global) = Limit["global"]
    BY DEF LimitOf, Global
  <2>6. rows'[Global] = full
    BY <1>1, <2>3 DEF QuotaTypeOK
  <2>7. /\ Limit["global"] \in 1 .. Limit["global"]
        /\ full.start <= full.last /\ full.last < full.start + WindowOf(Global)
        /\ \A t \in Times : granted[Global][t] > 0 => t <= full.last
    BY <2>1, <2>2, <2>4, <2>5 DEF RowIsNewest, Row
  <2>8. full # NoRow
    BY <2>2, <2>7 DEF NoRow
  <2>9. RowIsNewest(Global)'
    BY <1>1, <2>2, <2>5, <2>6, <2>7 DEF RowIsNewest, LimitOf, WindowOf
  <2>10. SweptIsOver(Global)'
    BY <2>6, <2>8 DEF SweptIsOver
  <2> QED
    BY <1>2, <2>2, <2>3, <2>9, <2>10
<1>4. CASE Restore
  <2>1. rows' = [rows EXCEPT ![Global] = NoRow] /\ ~Followed(Global)'
    BY <1>4 DEF Restore, Followed
  <2> QED
    BY <1>1, <1>2, <2>1
<1> QED
  BY <1>3, <1>4

LEMMA StepKeepsInv ==
  ASSUME QuotaInv, [QuotaNext]_vars
  PROVE  QuotaInv'
<1>t. QuotaTypeOK
  BY DEF QuotaInv
<1>n. /\ Times \subseteq Nat /\ MaxLag \in Nat /\ Keep \in Nat /\ clock \in Nat
      /\ 0 \in Times /\ NoRow \in Row
  BY <1>t, QuotaAssumption DEF QuotaTypeOK, Times, Row, NoRow
<1>1. ASSUME NEW c \in Callers, NEW number \in Numbers, Arrive(c, number) PROVE QuotaInv'
  <2>1. PICK now \in Times :
          /\ now <= clock /\ clock <= now + MaxLag
          /\ request' = [request EXCEPT ![c] = [stage |-> 1, number |-> number, now |-> now]]
    BY <1>1 DEF Arrive
  <2>2. UNCHANGED <<clock, rows, sends, wasted, operator, faults, granted>>
    BY <1>1 DEF Arrive
  <2>3. [stage |-> 1, number |-> number, now |-> now] \in Request
    BY DEF Request
  <2>4. QuotaTypeOK'
    BY <1>t, <2>1, <2>2, <2>3 DEF QuotaTypeOK
  <2>5. \A d \in Callers : request'[d] =
          IF d = c THEN [stage |-> 1, number |-> number, now |-> now] ELSE request[d]
    BY <1>t, <2>1 DEF QuotaTypeOK
  <2>6. RequestsAreRecent'
    BY <2>1, <2>2, <2>5 DEF QuotaInv, RequestsAreRecent, InClaims
  <2>7. RowsRight'
    BY <1>n, <2>2, RowsRest
  <2> QED
    BY <2>4, <2>6, <2>7 DEF QuotaInv
<1>2. ASSUME NEW c \in Callers, Claim(c) PROVE QuotaInv'
  <2>1. /\ InClaims(c) /\ Grant(Asked(c), request[c].now)
        /\ request' = [request EXCEPT ![c].stage = @ + 1]
        /\ UNCHANGED <<clock, sends, wasted, operator, faults>>
    BY <1>2 DEF Claim
  <2>2. Asked(c) \in Buckets /\ request[c].now \in Times /\ clock <= request[c].now + MaxLag
    BY <2>1, AskedIsBucket
  <2>3. rows' \in [Buckets -> Row] /\ granted' \in [Buckets -> [Times -> Nat]]
    BY <1>t, <2>1, <2>2, GrantTypes
  <2>4. RowsRight'
    BY <2>1, <2>2, GrantKeepsRows
  <2>5. request[c].stage + 1 \in 2 .. 4
    BY <2>1 DEF InClaims
  <2>6. /\ request' \in [Callers -> Request]
        /\ \A d \in Callers : d # c => request'[d] = request[d]
        /\ request'[c].number = request[c].number
        /\ request'[c].now = request[c].now
        /\ request'[c].stage = request[c].stage + 1
    BY <1>t, <2>1, <2>5 DEF QuotaTypeOK, Request
  <2>7. RequestsAreRecent'
    BY <2>1, <2>2, <2>6 DEF QuotaInv, RequestsAreRecent, InClaims
  <2> QED
    BY <1>t, <2>1, <2>3, <2>4, <2>6, <2>7 DEF QuotaInv, QuotaTypeOK
<1>3. ASSUME NEW c \in Callers, Refuse(c) PROVE QuotaInv'
  <2>1. Leave(c) /\ UNCHANGED <<clock, rows, sends, wasted, operator, faults, granted>>
    BY <1>3 DEF Refuse
  <2>2. RowsRight'
    BY <1>n, <2>1, RowsRest
  <2> QED
    BY <1>t, <2>1, <2>2, LeaveRequests DEF QuotaInv, QuotaTypeOK
<1>4. ASSUME NEW c \in Callers, Unavailable(c) PROVE QuotaInv'
  <2>1. /\ InClaims(c) /\ Leave(c) /\ faults' = faults + 1
        /\ UNCHANGED <<clock, sends, operator>>
        /\ wasted' \in {wasted, wasted + 1}
    BY <1>4 DEF Unavailable, Fault
  <2>2. /\ rows' \in [Buckets -> Row] /\ granted' \in [Buckets -> [Times -> Nat]]
        /\ RowsRight'
    <3>1. CASE UNCHANGED <<rows, granted, wasted>>
      BY <1>t, <1>n, <2>1, <3>1, RowsRest DEF QuotaTypeOK
    <3>2. CASE Grant(Asked(c), request[c].now)
      <4>1. Asked(c) \in Buckets /\ request[c].now \in Times /\ clock <= request[c].now + MaxLag
        BY <2>1, AskedIsBucket
      <4> QED
        BY <1>t, <2>1, <3>2, <4>1, GrantTypes, GrantKeepsRows
    <3> QED
      BY <1>4, <3>1, <3>2 DEF Unavailable
  <2>3. {sends, wasted, faults}' \subseteq Nat
    BY <1>t, <2>1 DEF QuotaTypeOK
  <2> QED
    BY <1>t, <2>1, <2>2, <2>3, LeaveRequests DEF QuotaInv, QuotaTypeOK
<1>5. ASSUME NEW c \in Callers, Send(c) \/ Crash(c) PROVE QuotaInv'
  <2>1. /\ Leave(c) /\ UNCHANGED <<clock, rows, operator, granted>>
        /\ sends' \in {sends, sends + 1} /\ wasted' \in {wasted, wasted + 1}
        /\ faults' \in {faults, faults + 1}
    BY <1>5 DEF Send, Crash, Fault
  <2>2. RowsRight'
    BY <1>n, <2>1, RowsRest
  <2>3. {sends, wasted, faults}' \subseteq Nat
    BY <1>t, <2>1 DEF QuotaTypeOK
  <2> QED
    BY <1>t, <2>1, <2>2, <2>3, LeaveRequests DEF QuotaInv, QuotaTypeOK
<1>6. ASSUME NEW b \in Buckets, Sweep(b) PROVE QuotaInv'
  <2>1. /\ rows[b] # NoRow /\ rows[b].last + Keep < clock
        /\ rows' = [rows EXCEPT ![b] = NoRow]
        /\ UNCHANGED <<clock, request, sends, wasted, operator, faults, granted>>
    BY <1>6 DEF Sweep
  <2>2. QuotaTypeOK'
    BY <1>t, <1>n, <2>1 DEF QuotaTypeOK
  <2>3. RequestsAreRecent'
    BY <2>1 DEF QuotaInv, RequestsAreRecent, InClaims
  <2>4. ASSUME NEW q \in Buckets, Followed(q)' PROVE RowIsNewest(q)' /\ SweptIsOver(q)'
    <3>f. Followed(q)
      BY <2>1, <2>4 DEF Followed
    <3>1. CASE q = b
      <4>1. rows'[b] = NoRow
        BY <1>t, <2>1 DEF QuotaTypeOK
      <4>2. \A t \in Times : granted[b][t] > 0 => t <= rows[b].last
        BY <2>1, <3>f, <3>1 DEF QuotaInv, RowsRight, RowIsNewest
      <4>3. WindowOf(b) \in Nat /\ WindowOf(b) + MaxLag <= Keep /\ rows[b].last \in Nat
        BY <1>t, BucketKinds, RowsAreNumbers, QuotaAssumption DEF WindowOf
      <4>4. ASSUME NEW t \in Times, granted[b][t] > 0 PROVE t + WindowOf(b) + MaxLag < clock
        <5>1. t \in Nat /\ t <= rows[b].last
          BY <1>n, <4>2, <4>4
        <5> QED
          BY <1>n, <2>1, <4>3, <5>1
      <4> QED
        BY <2>1, <3>1, <4>1, <4>4 DEF RowIsNewest, SweptIsOver, WindowOf
    <3>2. CASE q # b
      <4>1. rows'[q] = rows[q]
        BY <1>t, <2>1, <3>2 DEF QuotaTypeOK
      <4> QED
        BY <1>n, <2>1, <3>f, <4>1, RowRests
    <3> QED
      BY <3>1, <3>2
  <2>5. RowsRight'
    BY <2>4 DEF RowsRight
  <2> QED
    BY <2>2, <2>3, <2>5 DEF QuotaInv
<1>7. ASSUME Stop \/ Restore PROVE QuotaInv'
  <2>1. /\ UNCHANGED <<clock, request, sends, wasted, faults, granted>>
        /\ operator' \in {"stopped", "restored"}
    BY <1>7 DEF Stop, Restore
  <2>2. RequestsAreRecent'
    BY <2>1 DEF QuotaInv, RequestsAreRecent, InClaims
  <2> QED
    BY <1>t, <1>7, <2>1, <2>2, OperatorKeepsRows DEF QuotaInv, QuotaTypeOK
<1>8. ASSUME Tick PROVE QuotaInv'
  <2>1. /\ clock' = clock + 1 /\ clock < MaxClock
        /\ \A c \in Callers : InClaims(c) => clock < request[c].now + MaxLag
        /\ UNCHANGED <<rows, request, sends, wasted, operator, faults, granted>>
    BY <1>8 DEF Tick
  <2>2. QuotaTypeOK'
    BY <1>t, <1>n, <2>1, QuotaAssumption DEF QuotaTypeOK, Times
  <2>3. \A c \in Callers : request[c].now \in Nat
    BY <1>t, <1>n DEF QuotaTypeOK, Request
  <2>4. RequestsAreRecent'
    BY <1>n, <2>1, <2>3 DEF QuotaInv, RequestsAreRecent, InClaims
  <2>5. RowsRight'
    BY <1>n, <2>1, RowsRest
  <2> QED
    BY <2>2, <2>4, <2>5 DEF QuotaInv
<1>9. CASE UNCHANGED vars
  <2>1. UNCHANGED <<clock, rows, request, sends, wasted, operator, faults, granted>>
    BY <1>9 DEF vars
  <2>2. RowsRight'
    BY <1>n, <2>1, RowsRest
  <2> QED
    BY <1>t, <2>1, <2>2 DEF QuotaInv, QuotaTypeOK, RequestsAreRecent, InClaims
<1> QED
  BY <1>1, <1>2, <1>3, <1>4, <1>5, <1>6, <1>7, <1>8, <1>9 DEF QuotaNext, Answer

\* The inductive invariant: who claims knows a recent time, a number's row holds
\* its newest grant, and a row that is gone was gone for longer than that.
THEOREM QuotaInvariant == QuotaSpec => []QuotaInv
<1>1. QuotaInit => QuotaInv
  BY InitInv
<1>2. QuotaInv /\ [QuotaNext]_vars => QuotaInv'
  BY StepKeepsInv
<1> QED
  BY <1>1, <1>2, PTL DEF QuotaSpec

\* Every variable keeps its type.
THEOREM QuotaTypesHold == QuotaSpec => []QuotaTypeOK
<1>1. QuotaInv => QuotaTypeOK
  BY DEF QuotaInv
<1> QED
  BY <1>1, QuotaInvariant, PTL

-----------------------------------------------------------------------------
(***************************************************************************)
(* The ladder.                                                             *)
(***************************************************************************)

\* A grant within a window keeps the cooldown of the reference after every grant
\* of the window so far.
LEMMA GrantKeepsLadder ==
  ASSUME QuotaInv, NEW b \in Buckets, NEW now \in Times, Grant(b, now),
         NEW number \in Numbers, NEW q, q = <<number, "hour">>,
         rows'[q].start = rows[q].start, rows'[q].count > rows[q].count, rows[q] # NoRow,
         NEW t \in Times, t >= rows[q].start, granted[q][t] > 0
  PROVE  rows'[q].last >= t + CooldownAfter(rows[q].count)
<1>t. QuotaTypeOK
  BY DEF QuotaInv
<1>q. q \in Buckets /\ Followed(q) /\ q[2] = "hour"
  BY HourlyIsFollowed
<1>r. /\ rows[q].start \in Nat /\ rows[q].count \in Nat /\ rows[q].last \in Nat
      /\ rows[q].count >= 1 /\ t <= rows[q].last
  BY <1>t, <1>q, RowsAreNumbers DEF QuotaInv, RowsRight, RowIsNewest
<1>n. now \in Nat /\ t \in Nat
  BY QuotaAssumption DEF Times
<1>1. q = b
  BY <1>t, <1>q, <1>r, GrantEffect
<1>2. Admits(rows[q], q, now) /\ rows'[q] = Claimed(rows[q], q, now)
  BY <1>t, <1>1, GrantEffect
<1>3. ~Expired(rows[q], q, now)
  <2>1. ASSUME Expired(rows[q], q, now) PROVE FALSE
    <3>1. rows'[q].start = now
      BY <1>2, <2>1 DEF Claimed
    <3>2. WindowOf(q) \in Nat \ {0}
      BY <1>q, BucketKinds
    <3> QED
      BY <1>n, <1>r, <2>1, <3>1, <3>2 DEF Expired
  <2> QED
    BY <2>1
<1>4. rows'[q].last = now
  BY <1>2, <1>3 DEF Claimed
<1>5. now >= rows[q].last + CooldownInSql(q, rows[q].count)
  BY <1>2, <1>3 DEF Admits
<1>6. CooldownInSql(q, rows[q].count) = CooldownAfter(rows[q].count)
  BY <1>q, <1>r, SqlLadder
<1>7. CooldownAfter(rows[q].count) \in Nat
  BY <1>r, CooldownIsNat
<1> QED
  BY <1>n, <1>r, <1>4, <1>5, <1>6, <1>7

\* For any ladder, lag and number of deliveries at one time: within a window of
\* a number, a send keeps the cooldown after every earlier one.
THEOREM LadderHolds == QuotaSpec => LadderIsKept
<1> DEFINE Rises(q) == rows'[q].start = rows[q].start /\ rows'[q].count > rows[q].count /\ rows[q] # NoRow
           Kept(q) == \A t \in Times : t >= rows[q].start /\ granted[q][t] > 0
                        => rows'[q].last >= t + CooldownAfter(rows[q].count)
           Step == \A number \in Numbers : LET q == <<number, "hour">> IN Rises(q) => Kept(q)
<1>1. QuotaInv /\ [QuotaNext]_vars => [Step]_vars
  <2> SUFFICES ASSUME QuotaInv, QuotaNext, NEW number \in Numbers, NEW q, q = <<number, "hour">>,
                      Rises(q)
               PROVE  Kept(q)
    OBVIOUS
  <2>t. QuotaTypeOK
    BY DEF QuotaInv
  <2>q. q \in Buckets /\ q # Global
    BY HourlyIsFollowed
  <2>r. rows[q].count \in Nat
    BY <2>t, <2>q, RowsAreNumbers
  <2>1. rows'[q] # rows[q]
    BY <2>r
  <2>2. ASSUME NEW c \in Callers, Claim(c) \/ Unavailable(c) PROVE Kept(q)
    <3>1. InClaims(c) /\ Grant(Asked(c), request[c].now)
      BY <2>1, <2>2 DEF Claim, Unavailable
    <3>2. Asked(c) \in Buckets /\ request[c].now \in Times
      BY <3>1, AskedIsBucket
    <3> QED
      BY <3>1, <3>2, GrantKeepsLadder
  <2>3. ASSUME NEW b \in Buckets, Sweep(b) PROVE FALSE
    <3>1. rows' = [rows EXCEPT ![b] = NoRow]
      BY <2>3 DEF Sweep
    <3>2. rows'[q] = NoRow
      BY <2>t, <2>q, <2>1, <3>1 DEF QuotaTypeOK
    <3> QED
      BY <2>r, <3>2 DEF NoRow
  <2>4. ASSUME Stop \/ Restore PROVE FALSE
    BY <2>t, <2>q, <2>1, <2>4 DEF Stop, Restore, QuotaTypeOK
  <2>5. ASSUME UNCHANGED rows PROVE FALSE
    BY <2>1, <2>5
  <2> QED
    BY <2>2, <2>3, <2>4, <2>5 DEF QuotaNext, Answer, Arrive, Refuse, Send, Crash, Tick
<1>2. QuotaSpec => [][Step]_vars
  BY <1>1, QuotaInvariant, PTL DEF QuotaSpec
<1> QED
  BY <1>2 DEF LadderIsKept

-----------------------------------------------------------------------------
(***************************************************************************)
(* The answers.                                                            *)
(***************************************************************************)

\* What is left of a delay is nothing exactly when it is over, and waiting for
\* what is left ends it.
LEMMA LeftIsRest ==
  ASSUME NEW till \in Nat, NEW now \in Nat
  PROVE  /\ Left(till, now) \in Nat
         /\ Left(till, now) = 0 <=> now >= till
         /\ now + Left(till, now) >= till
BY DEF Left

\* The statement, the look at the edge, the reference and the countdown agree on
\* every row at every time, for any window, limit and ladder.
THEOREM AnswersHold == QuotaSpec => []AnswersAgree
<1>1. QuotaInv => AnswersAgree
  <2> SUFFICES ASSUME QuotaInv, NEW b \in Buckets, NEW now \in Times
               PROVE  /\ PeekPasses(rows[b], b, now) <=> Admits(rows[b], b, now)
                      /\ Admits(rows[b], b, now) <=> Decide(rows[b], b, now)
                      /\ LimitOf(b) >= 1 => Admits(rows[b], b, now + RetryAfter(rows[b], b, now))
    BY DEF AnswersAgree
  <2>r. /\ rows[b].start \in Nat /\ rows[b].count \in Nat /\ rows[b].last \in Nat
    BY RowsAreNumbers DEF QuotaInv
  <2>n. now \in Nat
    BY QuotaAssumption DEF Times
  <2>w. WindowOf(b) \in Nat \ {0} /\ LimitOf(b) \in Nat
    BY BucketKinds
  <2> DEFINE owed == CooldownInSql(b, rows[b].count)
             ready == rows[b].last + owed
             end == rows[b].start + WindowOf(b)
  <2>c. owed \in Nat /\ ready \in Nat /\ end \in Nat
    BY <2>r, <2>w, SqlLadder
  <2>1. PeekPasses(rows[b], b, now) <=> Admits(rows[b], b, now)
    <3>1. Left(ready, now) = 0 <=> now >= ready
      BY <2>n, <2>c, LeftIsRest
    <3> QED
      BY <3>1 DEF PeekPasses, Admits
  <2>2. rows[b] # NoRow =>
          owed = (IF b[2] = "hour" THEN CooldownAfter(rows[b].count) ELSE 0)
    <3>1. CASE b[2] = "hour"
      <4>1. Followed(b)
        BY <3>1 DEF Followed, Global
      <4>2. rows[b] # NoRow => rows[b].count >= 1
        BY <4>1 DEF QuotaInv, RowsRight, RowIsNewest
      <4> QED
        BY <2>r, <3>1, <4>2, SqlLadder
    <3>2. CASE b[2] # "hour"
      BY <2>r, <3>2, SqlLadder
    <3> QED
      BY <3>1, <3>2
  <2>3. Admits(rows[b], b, now) <=> Decide(rows[b], b, now)
    <3>1. Expired(rows[b], b, now) <=> ~(now < end)
      BY <2>n, <2>c DEF Expired
    <3> QED
      BY <2>2, <3>1 DEF Admits, Decide
  <2>4. ASSUME LimitOf(b) >= 1
        PROVE  Admits(rows[b], b, now + RetryAfter(rows[b], b, now))
    <3>1. CASE rows[b] = NoRow
      BY <2>4, <3>1 DEF Admits
    <3>2. CASE rows[b] # NoRow /\ rows[b].count >= LimitOf(b)
      <4>1. RetryAfter(rows[b], b, now) = Left(end, now)
        BY <3>2 DEF RetryAfter
      <4>2. Expired(rows[b], b, now + Left(end, now))
        BY <2>n, <2>c, LeftIsRest DEF Expired
      <4> QED
        BY <2>4, <4>1, <4>2 DEF Admits
    <3>3. CASE rows[b] # NoRow /\ ~(rows[b].count >= LimitOf(b))
      <4>1. RetryAfter(rows[b], b, now) = IF Left(ready, now) > 1 THEN Left(ready, now) ELSE 1
        BY <3>3 DEF RetryAfter
      <4>2. now + RetryAfter(rows[b], b, now) >= ready
        <5>1. Left(ready, now) \in Nat /\ now + Left(ready, now) >= ready
          BY <2>n, <2>c, LeftIsRest
        <5>2. CASE Left(ready, now) > 1
          BY <4>1, <5>1, <5>2
        <5>3. CASE ~(Left(ready, now) > 1)
          <6>1. RetryAfter(rows[b], b, now) = 1
            BY <4>1, <5>3
          <6>2. now + 1 >= ready
            <7> HIDE DEF ready
            <7> QED
              BY <2>n, <2>c, <5>1, <5>3
          <6> QED
            BY <6>1, <6>2
        <5> QED
          BY <5>2, <5>3
      <4>3. rows[b].count < LimitOf(b)
        BY <2>r, <2>w, <3>3
      <4> QED
        BY <2>4, <4>2, <4>3 DEF Admits
    <3> QED
      BY <3>1, <3>2, <3>3
  <2> QED
    BY <2>1, <2>3, <2>4
<1> QED
  BY <1>1, QuotaInvariant, PTL

-----------------------------------------------------------------------------
(***************************************************************************)
(* Sums.                                                                   *)
(***************************************************************************)

\* Induction over the naturals, for a set of them, from the well-foundedness
\* of < alone.
LEMMA SetInduction ==
  ASSUME NEW S, 0 \in S, \A n \in Nat : n \in S => n + 1 \in S
  PROVE  Nat \subseteq S
<1> DEFINE R == OpToRel(<, Nat)
           T == Nat \ S
<1>1. SUFFICES ASSUME T # {} PROVE FALSE
  OBVIOUS
<1>2. PICK x \in T : \A y \in T : ~ (<<y, x>> \in R)
  <2>1. IsWellFoundedOn(R, Nat)
    BY NatLessThanWellFounded
  <2>2. T \subseteq Nat
    OBVIOUS
  <2> HIDE DEF R, T
  <2> QED
    BY <1>1, <2>1, <2>2, WFMin
<1>3. x \in Nat \ {0} /\ x - 1 \in Nat
  OBVIOUS
<1>4. <<x - 1, x>> \in R
  BY <1>3 DEF OpToRel
<1>5. x - 1 \in S
  BY <1>2, <1>3, <1>4
<1>6. x - 1 + 1 \in S
  BY <1>3, <1>5
<1> QED
  BY <1>3, <1>6

\* A function that sums up w, on the naturals up to m.
Sums(h, w, m) ==
  /\ h \in [0 .. m -> Nat]
  /\ h[0] = 0
  /\ \A k \in 0 .. m : k > 0 => h[k] = h[k - 1] + w[k - 1]

LEMMA SumsAgree ==
  ASSUME NEW w, NEW m \in Nat, NEW n \in Nat, m <= n, NEW h, Sums(h, w, m), NEW g, Sums(g, w, n)
  PROVE  \A k \in 0 .. m : h[k] = g[k]
<1> DEFINE S == {k \in Nat : k <= m => h[k] = g[k]}
<1>1. 0 \in S
  BY DEF Sums
<1>2. ASSUME NEW k \in Nat, k \in S PROVE k + 1 \in S
  <2>1. SUFFICES ASSUME k + 1 <= m PROVE h[k + 1] = g[k + 1]
    OBVIOUS
  <2>2. k + 1 \in 0 .. m /\ k + 1 \in 0 .. n /\ k + 1 - 1 = k /\ k + 1 > 0
    BY <2>1
  <2>3. h[k + 1] = h[k] + w[k] /\ g[k + 1] = g[k] + w[k]
    BY <2>2 DEF Sums
  <2> QED
    BY <1>2, <2>1, <2>3
<1>3. Nat \subseteq S
  <2> HIDE DEF S
  <2> QED
    BY <1>1, <1>2, SetInduction
<1> QED
  BY <1>3

LEMMA SumsExist ==
  ASSUME NEW w \in [Nat -> Nat], NEW m \in Nat
  PROVE  \E h : Sums(h, w, m)
<1> DEFINE S == {n \in Nat : \E h : Sums(h, w, n)}
<1>1. 0 \in S
  <2>1. Sums([k \in 0 .. 0 |-> 0], w, 0)
    BY DEF Sums
  <2> QED
    BY <2>1
<1>2. ASSUME NEW n \in Nat, n \in S PROVE n + 1 \in S
  <2>1. PICK h : Sums(h, w, n)
    BY <1>2
  <2> DEFINE g == [k \in 0 .. n + 1 |-> IF k <= n THEN h[k] ELSE h[n] + w[n]]
  <2>2. h \in [0 .. n -> Nat] /\ h[0] = 0 /\ w[n] \in Nat /\ h[n] \in Nat
    BY <2>1 DEF Sums
  <2>3. g \in [0 .. n + 1 -> Nat] /\ g[0] = 0
    <3>1. ASSUME NEW k \in 0 .. n + 1 PROVE (IF k <= n THEN h[k] ELSE h[n] + w[n]) \in Nat
      <4>1. k <= n => k \in 0 .. n
        OBVIOUS
      <4> QED
        BY <2>2, <4>1
    <3>2. 0 \in 0 .. n + 1 /\ 0 <= n
      OBVIOUS
    <3> QED
      BY <2>2, <3>1, <3>2
  <2>4. ASSUME NEW k \in 0 .. n + 1, k > 0 PROVE g[k] = g[k - 1] + w[k - 1]
    <3>1. CASE k <= n
      <4>1. k \in 0 .. n /\ k - 1 \in 0 .. n /\ k - 1 \in 0 .. n + 1
        BY <2>4, <3>1
      <4>2. h[k] = h[k - 1] + w[k - 1]
        BY <2>1, <2>4, <4>1 DEF Sums
      <4> QED
        BY <3>1, <4>1, <4>2
    <3>2. CASE k = n + 1
      <4>1. k - 1 = n /\ n \in 0 .. n + 1 /\ ~ (k <= n)
        BY <3>2
      <4> QED
        BY <3>2, <4>1
    <3> QED
      BY <2>4, <3>1, <3>2
  <2>5. Sums(g, w, n + 1)
    <3> HIDE DEF g
    <3> QED
      BY <2>3, <2>4 DEF Sums
  <2> HIDE DEF g
  <2> QED
    BY <2>5
<1>3. Nat \subseteq S
  <2> HIDE DEF S
  <2> QED
    BY <1>1, <1>2, SetInduction
<1> QED
  BY <1>3

\* What SumBefore computes.
LEMMA SumBeforeIs ==
  ASSUME NEW g \in [Times -> Nat]
  PROVE  /\ SumBefore(g) \in [Nat -> Nat]
         /\ SumBefore(g)[0] = 0
         /\ \A n \in Nat : SumBefore(g)[n + 1] = SumBefore(g)[n] + (IF n \in Times THEN g[n] ELSE 0)
<1> DEFINE w == [n \in Nat |-> IF n \in Times THEN g[n] ELSE 0]
           Sum(s) == [n \in Nat |-> IF n = 0 THEN 0 ELSE s[n - 1] + (IF n - 1 \in Times THEN g[n - 1] ELSE 0)]
           sum == [n \in Nat |-> (CHOOSE h : Sums(h, w, n))[n]]
<1>1. w \in [Nat -> Nat]
  OBVIOUS
<1>2. \A n \in Nat : Sums(CHOOSE h : Sums(h, w, n), w, n)
  <2> HIDE DEF w
  <2> QED
    BY <1>1, SumsExist
<1>3. sum \in [Nat -> Nat] /\ sum[0] = 0
  <2>1. ASSUME NEW n \in Nat PROVE (CHOOSE h : Sums(h, w, n))[n] \in Nat
    <3> HIDE DEF w
    <3>1. n \in 0 .. n
      OBVIOUS
    <3> QED
      BY <1>2, <3>1 DEF Sums
  <2>2. (CHOOSE h : Sums(h, w, 0))[0] = 0
    <3> HIDE DEF w
    <3> QED
      BY <1>2 DEF Sums
  <2> QED
    BY <2>1, <2>2
<1>4. ASSUME NEW n \in Nat PROVE sum[n + 1] = sum[n] + w[n]
  <2> DEFINE h == CHOOSE h : Sums(h, w, n)
             k == CHOOSE k : Sums(k, w, n + 1)
  <2>1. Sums(h, w, n) /\ Sums(k, w, n + 1)
    <3> HIDE DEF w
    <3> QED
      BY <1>2
  <2>2. sum[n] = h[n] /\ sum[n + 1] = k[n + 1]
    OBVIOUS
  <2> HIDE DEF h, k, w, sum
  <2>3. h[n] = k[n]
    BY <2>1, SumsAgree
  <2>4. k[n + 1] = k[n] + w[n]
    <3>1. n + 1 \in 0 .. n + 1 /\ n + 1 > 0 /\ n + 1 - 1 = n
      OBVIOUS
    <3> QED
      BY <2>1, <3>1 DEF Sums
  <2> QED
    BY <2>2, <2>3, <2>4
<1>5. sum = Sum(sum)
  <2>1. ASSUME NEW n \in Nat, n # 0 PROVE sum[n] = sum[n - 1] + w[n - 1]
    <3>1. n - 1 \in Nat /\ n - 1 + 1 = n
      BY <2>1
    <3> HIDE DEF sum, w
    <3> QED
      BY <1>4, <3>1
  <2>2. \A n \in Nat : n # 0 => w[n - 1] = IF n - 1 \in Times THEN g[n - 1] ELSE 0
    OBVIOUS
  <2> HIDE DEF sum, w
  <2>3. \A n \in Nat : sum[n] = IF n = 0 THEN 0 ELSE sum[n - 1] + (IF n - 1 \in Times THEN g[n - 1] ELSE 0)
    BY <1>3, <2>1, <2>2
  <2> QED
    BY <1>3, <2>3
<1>6. SumBefore(g) = CHOOSE s : s = Sum(s)
  BY DEF SumBefore
<1>7. SumBefore(g) = Sum(SumBefore(g))
  <2> HIDE DEF sum, Sum
  <2> QED
    BY <1>5, <1>6
<1> DEFINE f == SumBefore(g)
<1>8. f = [n \in Nat |-> IF n = 0 THEN 0 ELSE f[n - 1] + (IF n - 1 \in Times THEN g[n - 1] ELSE 0)]
  BY <1>7
<1> HIDE DEF f
<1>9. f[0] = 0
  BY <1>8
<1>10. ASSUME NEW n \in Nat PROVE f[n + 1] = f[n] + (IF n \in Times THEN g[n] ELSE 0)
  <2>1. n + 1 \in Nat /\ n + 1 # 0 /\ n + 1 - 1 = n
    OBVIOUS
  <2>2. f[n + 1] = f[n + 1 - 1] + (IF n + 1 - 1 \in Times THEN g[n + 1 - 1] ELSE 0)
    BY <1>8, <2>1
  <2> QED
    BY <2>1, <2>2
<1>11. \A n \in Nat : f[n] \in Nat
  <2> DEFINE S == {n \in Nat : f[n] \in Nat}
  <2>1. 0 \in S
    BY <1>9
  <2>2. \A n \in Nat : n \in S => n + 1 \in S
    BY <1>10
  <2>3. Nat \subseteq S
    <3> HIDE DEF S
    <3> QED
      BY <2>1, <2>2, SetInduction
  <2> QED
    BY <2>3
<1>12. f \in [Nat -> Nat]
  BY <1>8, <1>11
<1> QED
  BY <1>9, <1>10, <1>12 DEF f

\* No sum falls.
LEMMA SumGrows ==
  ASSUME NEW g \in [Times -> Nat], NEW m \in Nat, NEW n \in Nat, m <= n
  PROVE  SumBefore(g)[m] <= SumBefore(g)[n]
<1> DEFINE f == SumBefore(g)
           S == {k \in Nat : f[m] <= f[m + k]}
<1>1. f \in [Nat -> Nat] /\ \A k \in Nat : f[k + 1] >= f[k]
  BY SumBeforeIs
<1> HIDE DEF f
<1>2. 0 \in S
  BY <1>1
<1>3. ASSUME NEW k \in Nat, k \in S PROVE k + 1 \in S
  <2>1. f[m + k + 1] >= f[m + k] /\ f[m + k] >= f[m] /\ m + (k + 1) = m + k + 1
    BY <1>1, <1>3
  <2> QED
    BY <1>1, <2>1
<1>4. n - m \in S
  <2>1. Nat \subseteq S
    <3> HIDE DEF S
    <3> QED
      BY <1>2, <1>3, SetInduction
  <2> QED
    BY <2>1
<1> QED
  BY <1>4 DEF f

\* A sum stands where there is nothing to add.
LEMMA SumStands ==
  ASSUME NEW g \in [Times -> Nat], NEW m \in Nat, NEW n \in Nat, m <= n,
         \A t \in Times : m <= t /\ t < n => g[t] = 0
  PROVE  SumBefore(g)[n] = SumBefore(g)[m]
<1> DEFINE f == SumBefore(g)
           S == {k \in Nat : m + k <= n => f[m + k] = f[m]}
<1>1. f \in [Nat -> Nat] /\ \A k \in Nat : f[k + 1] = f[k] + (IF k \in Times THEN g[k] ELSE 0)
  BY SumBeforeIs
<1> HIDE DEF f
<1>2. 0 \in S
  BY <1>1
<1>3. ASSUME NEW k \in Nat, k \in S PROVE k + 1 \in S
  <2>1. SUFFICES ASSUME m + (k + 1) <= n PROVE f[m + (k + 1)] = f[m]
    OBVIOUS
  <2>2. m + k \in Nat /\ m <= m + k /\ m + k < n /\ m + (k + 1) = m + k + 1
    BY <2>1
  <2>3. f[m + k] = f[m]
    BY <1>3, <2>2
  <2>4. (IF m + k \in Times THEN g[m + k] ELSE 0) = 0
    BY <2>2
  <2>5. f[m + k + 1] = f[m + k] + 0
    BY <1>1, <2>2, <2>4
  <2> QED
    BY <1>1, <2>2, <2>3, <2>5
<1>4. n - m \in S
  <2>1. Nat \subseteq S
    <3> HIDE DEF S
    <3> QED
      BY <1>2, <1>3, SetInduction
  <2> QED
    BY <2>1
<1>5. m + (n - m) = n
  OBVIOUS
<1> QED
  BY <1>4, <1>5 DEF f

\* One more at an instant is one more in every sum over it.
LEMMA SumAdds ==
  ASSUME NEW g \in [Times -> Nat], NEW now \in Times, NEW h \in [Times -> Nat],
         h[now] = g[now] + 1, \A t \in Times : t # now => h[t] = g[t], NEW n \in Nat
  PROVE  SumBefore(h)[n] = SumBefore(g)[n] + (IF now < n THEN 1 ELSE 0)
<1> DEFINE f == SumBefore(g)
           e == SumBefore(h)
           S == {k \in Nat : e[k] = f[k] + (IF now < k THEN 1 ELSE 0)}
<1>1. /\ f \in [Nat -> Nat] /\ e \in [Nat -> Nat] /\ f[0] = 0 /\ e[0] = 0
      /\ \A k \in Nat : f[k + 1] = f[k] + (IF k \in Times THEN g[k] ELSE 0)
      /\ \A k \in Nat : e[k + 1] = e[k] + (IF k \in Times THEN h[k] ELSE 0)
  BY SumBeforeIs
<1>2. now \in Nat
  BY QuotaAssumption DEF Times
<1> HIDE DEF e, f
<1>3. 0 \in S
  BY <1>1, <1>2
<1>4. ASSUME NEW k \in Nat, k \in S PROVE k + 1 \in S
  <2>1. e[k] = f[k] + (IF now < k THEN 1 ELSE 0)
    BY <1>4
  <2>2. CASE k = now
    <3>1. e[k + 1] = f[k] + (g[k] + 1) /\ f[k + 1] = f[k] + g[k]
      BY <1>1, <1>2, <2>1, <2>2
    <3> QED
      BY <1>1, <1>2, <2>2, <3>1
  <2>3. CASE k # now
    <3>1. (IF k \in Times THEN h[k] ELSE 0) = (IF k \in Times THEN g[k] ELSE 0)
      BY <2>3
    <3>2. now < k + 1 <=> now < k
      BY <1>2, <2>3
    <3>3. (IF k \in Times THEN g[k] ELSE 0) \in Nat
      OBVIOUS
    <3> QED
      BY <1>1, <1>2, <2>1, <3>1, <3>2, <3>3
  <2> QED
    BY <2>2, <2>3
<1>5. Nat \subseteq S
  <2> HIDE DEF S
  <2> QED
    BY <1>3, <1>4, SetInduction
<1> QED
  BY <1>5 DEF e, f

-----------------------------------------------------------------------------
(***************************************************************************)
(* What is sent is paid for.                                               *)
(***************************************************************************)
Granted(b) == SumBefore(granted[b])
Handing == {c \in Callers : request[c].stage = Sending}

Paid ==
  /\ IsFiniteSet(Handing)
  /\ Granted(Global)[MaxClock + 1] = sends + wasted + Cardinality(Handing)

LEMMA GlobalIsBucket == Global \in Buckets
  BY DEF Global, Buckets

\* Every grant of the platform's counter counts once, at whatever instant.
LEMMA GrantCounts ==
  ASSUME QuotaTypeOK, NEW b \in Buckets, NEW now \in Times, Grant(b, now), NEW n \in Nat
  PROVE  /\ Granted(b)'[n] = Granted(b)[n] + (IF now < n THEN 1 ELSE 0)
         /\ \A q \in Buckets : q # b => Granted(q)' = Granted(q)
<1>1. granted[b] \in [Times -> Nat] /\ granted' \in [Buckets -> [Times -> Nat]]
  BY GrantTypes DEF QuotaTypeOK
<1>2. granted'[b][now] = granted[b][now] + 1 /\ \A t \in Times : t # now => granted'[b][t] = granted[b][t]
  BY DEF Grant, QuotaTypeOK
<1>3. \A q \in Buckets : q # b => granted'[q] = granted[q]
  BY DEF Grant, QuotaTypeOK
<1>4. SumBefore(granted'[b])[n] = SumBefore(granted[b])[n] + (IF now < n THEN 1 ELSE 0)
  BY <1>1, <1>2, SumAdds
<1>5. \A q : Granted(q) = SumBefore(granted[q]) /\ Granted(q)' = SumBefore(granted'[q])
  BY DEF Granted, SumBefore
<1> QED
  BY <1>3, <1>4, <1>5

LEMMA PaidStep ==
  ASSUME QuotaInv, Paid, [QuotaNext]_vars
  PROVE  Paid'
<1>t. QuotaTypeOK /\ request \in [Callers -> Request]
  BY DEF QuotaInv, QuotaTypeOK
<1>n. MaxClock + 1 \in Nat /\ sends \in Nat /\ wasted \in Nat /\ \A t \in Times : t < MaxClock + 1
  BY <1>t, QuotaAssumption DEF QuotaTypeOK, Times
<1>p. /\ IsFiniteSet(Handing) /\ Cardinality(Handing) \in Nat
      /\ Granted(Global)[MaxClock + 1] = sends + wasted + Cardinality(Handing)
  BY FS_CardinalityType DEF Paid
<1>s. Sending = 4
  BY DEF Sending
<1>1. ASSUME Handing' = Handing, UNCHANGED <<granted, sends, wasted>> PROVE Paid'
  <2>1. Granted(Global)' = Granted(Global)
    BY <1>1 DEF Granted
  <2> QED
    BY <1>1, <1>p, <2>1 DEF Paid
<1>2. ASSUME NEW c \in Callers, Leave(c) PROVE Handing' = Handing \ {c}
  <2>1. \A d \in Callers : request'[d] = IF d = c THEN Idle ELSE request[d]
    BY <1>t, <1>2 DEF Leave
  <2>2. Idle.stage # Sending
    BY <1>s DEF Idle
  <2> QED
    BY <2>1, <2>2 DEF Handing
<1>3. ASSUME NEW c \in Callers, NEW number \in Numbers, Arrive(c, number) PROVE Paid'
  <2>1. /\ request[c].stage = 0 /\ UNCHANGED <<granted, sends, wasted>>
        /\ \E now \in Times : request' = [request EXCEPT ![c] = [stage |-> 1, number |-> number, now |-> now]]
    BY <1>3 DEF Arrive
  <2>2. request'[c].stage = 1 /\ \A d \in Callers : d # c => request'[d] = request[d]
    BY <1>t, <2>1
  <2>3. Handing' = Handing
    BY <1>s, <2>1, <2>2 DEF Handing
  <2> QED
    BY <1>1, <2>1, <2>3
<1>4. ASSUME NEW c \in Callers, InClaims(c), Grant(Asked(c), request[c].now), Asked(c) # Global
      PROVE  Granted(Global)' = Granted(Global)
  BY <1>t, <1>4, AskedIsBucket, GlobalIsBucket, GrantCounts, <1>n
<1>5. ASSUME NEW c \in Callers, InClaims(c), Grant(Asked(c), request[c].now), Asked(c) = Global
      PROVE  Granted(Global)'[MaxClock + 1] = Granted(Global)[MaxClock + 1] + 1
  <2>1. request[c].now \in Times
    BY <1>5, AskedIsBucket
  <2> QED
    BY <1>t, <1>n, <1>5, <2>1, GlobalIsBucket, GrantCounts
<1>6. ASSUME NEW c \in Callers, Claim(c) PROVE Paid'
  <2>1. /\ InClaims(c) /\ Grant(Asked(c), request[c].now)
        /\ request' = [request EXCEPT ![c].stage = @ + 1]
        /\ UNCHANGED <<sends, wasted>>
    BY <1>6 DEF Claim
  <2>2. /\ request[c].stage \in {1, 2, 3} /\ request[c].number \in Numbers
        /\ request'[c].stage = request[c].stage + 1
        /\ \A d \in Callers : d # c => request'[d] = request[d]
    BY <1>t, <2>1 DEF InClaims, QuotaInv, RequestsAreRecent, Request
  <2>3. Asked(c) = Global <=> request[c].stage = 3
    BY <2>2, QuotaAssumption DEF Asked, Claims, Global
  <2>4. CASE Asked(c) = Global
    <3>1. Handing' = Handing \union {c} /\ c \notin Handing
      BY <1>s, <2>2, <2>3, <2>4 DEF Handing
    <3>2. IsFiniteSet(Handing') /\ Cardinality(Handing') = Cardinality(Handing) + 1
      BY <1>p, <3>1, FS_AddElement
    <3>3. Granted(Global)'[MaxClock + 1] = Granted(Global)[MaxClock + 1] + 1
      BY <1>5, <2>1, <2>4
    <3> QED
      BY <1>n, <1>p, <2>1, <3>2, <3>3 DEF Paid
  <2>5. CASE Asked(c) # Global
    <3>1. Handing' = Handing
      BY <1>s, <2>2, <2>3, <2>5 DEF Handing
    <3> QED
      BY <1>4, <1>p, <2>1, <2>5, <3>1 DEF Paid
  <2> QED
    BY <2>4, <2>5
<1>7. ASSUME NEW c \in Callers, InClaims(c), Leave(c) PROVE Handing' = Handing
  BY <1>2, <1>7, <1>s DEF Handing, InClaims
<1>8. ASSUME NEW c \in Callers, Refuse(c) PROVE Paid'
  BY <1>1, <1>7, <1>8 DEF Refuse
<1>9. ASSUME NEW c \in Callers, Unavailable(c) PROVE Paid'
  <2>1. InClaims(c) /\ Handing' = Handing /\ sends' = sends
    BY <1>7, <1>9 DEF Unavailable
  <2>2. CASE UNCHANGED <<rows, granted, wasted>>
    BY <1>1, <2>1, <2>2
  <2>3. CASE /\ Grant(Asked(c), request[c].now)
             /\ wasted' = IF Asked(c) = Global THEN wasted + 1 ELSE wasted
    <3>1. CASE Asked(c) = Global
      <4>1. Granted(Global)'[MaxClock + 1] = Granted(Global)[MaxClock + 1] + 1
        BY <1>5, <2>1, <2>3, <3>1
      <4> QED
        BY <1>n, <1>p, <2>1, <2>3, <3>1, <4>1 DEF Paid
    <3>2. CASE Asked(c) # Global
      BY <1>4, <1>p, <2>1, <2>3, <3>2 DEF Paid
    <3> QED
      BY <3>1, <3>2
  <2> QED
    BY <1>9, <2>2, <2>3 DEF Unavailable
<1>10. ASSUME NEW c \in Callers, Send(c) \/ Crash(c) PROVE Paid'
  <2>1. /\ c \in Handing /\ Leave(c) /\ granted' = granted
        /\ \/ sends' = sends + 1 /\ wasted' = wasted
           \/ sends' = sends /\ wasted' = wasted + 1
    BY <1>10 DEF Send, Crash, Handing
  <2>2. Handing' = Handing \ {c}
    BY <1>2, <2>1
  <2>3. IsFiniteSet(Handing') /\ Cardinality(Handing') = Cardinality(Handing) - 1
    BY <1>p, <2>1, <2>2, FS_RemoveElement
  <2>4. Granted(Global)' = Granted(Global)
    BY <2>1 DEF Granted
  <2> QED
    BY <1>n, <1>p, <2>1, <2>3, <2>4 DEF Paid
<1>11. ASSUME UNCHANGED <<request, granted, sends, wasted>> PROVE Paid'
  BY <1>1, <1>11 DEF Handing
<1> QED
  BY <1>3, <1>6, <1>8, <1>9, <1>10, <1>11 DEF QuotaNext, Answer, Sweep, Stop, Restore, Tick, vars

\* The allowance of the platform pays for sends and for nothing else, however
\* many requests claim at a time and whatever fails between claim and send.
THEOREM SendsArePaid == QuotaSpec => []EverySendIsPaid
<1>1. QuotaInit => Paid
  <2> SUFFICES ASSUME QuotaInit PROVE Paid
    OBVIOUS
  <2>1. granted[Global] \in [Times -> Nat] /\ \A t \in Times : granted[Global][t] = 0
    BY GlobalIsBucket DEF QuotaInit
  <2>2. MaxClock + 1 \in Nat
    BY QuotaAssumption
  <2>3. Granted(Global)[MaxClock + 1] = 0
    <3>1. SumBefore(granted[Global])[MaxClock + 1] = SumBefore(granted[Global])[0]
      BY <2>1, <2>2, SumStands
    <3> QED
      BY <2>1, <3>1, SumBeforeIs DEF Granted
  <2>4. Handing = {}
    BY DEF QuotaInit, Handing, Idle, Sending
  <2>5. IsFiniteSet({}) /\ Cardinality({}) = 0
    BY FS_EmptySet
  <2> QED
    BY <2>3, <2>4, <2>5 DEF Paid, QuotaInit
<1>2. QuotaInv /\ Paid /\ [QuotaNext]_vars => Paid'
  BY PaidStep
<1>3. QuotaInv /\ Paid => EverySendIsPaid
  <2> SUFFICES ASSUME QuotaInv, Paid PROVE EverySendIsPaid
    OBVIOUS
  <2>1. granted[Global] \in [Times -> Nat] /\ MaxClock + 1 \in Nat
    BY GlobalIsBucket, QuotaAssumption DEF QuotaInv, QuotaTypeOK
  <2>2. SumBefore(granted[Global])[0] = 0 /\ SumBefore(granted[Global])[MaxClock + 1] \in Nat
    BY <2>1, SumBeforeIs
  <2>3. GrantsWithin(Global, 0, MaxClock + 1) = SumBefore(granted[Global])[MaxClock + 1]
    <3>1. 0 + (MaxClock + 1) = MaxClock + 1
      BY <2>1
    <3> HIDE DEF SumBefore
    <3> QED
      BY <2>2, <3>1 DEF GrantsWithin
  <2> QED
    BY <2>3 DEF EverySendIsPaid, Paid, Granted, Handing
<1> QED
  BY <1>1, <1>2, <1>3, QuotaInvariant, PTL DEF QuotaSpec


-----------------------------------------------------------------------------
(***************************************************************************)
(* Two allowances.                                                         *)
(***************************************************************************)

\* f sums up the grants of a counter whose windows are w long and allow l.  Since
\* the window that began at s there were at most k, and of the time before it no
\* interval that reaches into the window has met more than one allowance.
WindowPays(f, w, l, s, k) ==
  /\ \A n \in Nat : s <= n => f[n] <= f[s] + k
  /\ \A t \in Nat : t <= s /\ s < t + w => f[s] <= f[t] + l

MeetsTwo(f, w, l) == \A t \in Nat : f[t + w] <= f[t] + 2 * l

AllowanceHolds(b) ==
  /\ rows[b] # NoRow => WindowPays(Granted(b), WindowOf(b), LimitOf(b), rows[b].start, rows[b].count)
  /\ MeetsTwo(Granted(b), WindowOf(b), LimitOf(b))

AllowancesHold == \A b \in Buckets : Followed(b) => AllowanceHolds(b)

\* A window that opens after the last grant: an interval that meets it meets at
\* most one window before.
LEMMA OpeningPays ==
  ASSUME NEW f \in [Nat -> Nat], NEW e \in [Nat -> Nat], NEW now \in Nat,
         NEW w \in Nat \ {0}, NEW l \in Nat \ {0},
         \A n \in Nat : e[n] = f[n] + (IF now < n THEN 1 ELSE 0),
         \A n \in Nat : now <= n => f[n] = f[now],
         \A t \in Nat : t <= now /\ now < t + w => f[now] <= f[t] + l,
         MeetsTwo(f, w, l)
  PROVE  WindowPays(e, w, l, now, 1) /\ MeetsTwo(e, w, l)
<1>1. ASSUME NEW n \in Nat, now <= n PROVE e[n] <= e[now] + 1
  <2>1. f[n] = f[now] /\ e[now] = f[now] /\ f[now] \in Nat
    BY <1>1
  <2>2. e[n] = f[n] \/ e[n] = f[n] + 1
    OBVIOUS
  <2> QED
    BY <2>1, <2>2
<1>2. ASSUME NEW t \in Nat, t <= now, now < t + w PROVE e[now] <= e[t] + l
  <2>1. e[now] = f[now] /\ e[t] = f[t]
    BY <1>2
  <2> QED
    BY <1>2, <2>1
<1>3. ASSUME NEW t \in Nat PROVE e[t + w] <= e[t] + 2 * l
  <2>1. /\ t + w \in Nat /\ f[t] \in Nat /\ f[t + w] \in Nat /\ f[now] \in Nat
        /\ f[t + w] <= f[t] + 2 * l
    BY DEF MeetsTwo
  <2>2. CASE now < t
    <3>1. e[t] = f[t] + 1 /\ e[t + w] = f[t + w] + 1
      BY <2>1, <2>2
    <3> QED
      BY <2>1, <3>1
  <2>3. CASE t <= now /\ now < t + w
    <3>1. e[t] = f[t] /\ e[t + w] = f[t + w] + 1
      BY <2>1, <2>3
    <3>2. f[t + w] = f[now] /\ f[now] <= f[t] + l
      BY <2>1, <2>3
    <3> QED
      BY <2>1, <3>1, <3>2
  <2>4. CASE t + w <= now
    <3>1. e[t] = f[t] /\ e[t + w] = f[t + w]
      BY <2>1, <2>4
    <3> QED
      BY <2>1, <3>1
  <2> QED
    BY <2>1, <2>2, <2>3, <2>4
<1> QED
  BY <1>1, <1>2, <1>3 DEF WindowPays, MeetsTwo

\* A window that goes on, below its limit.
LEMMA ExtendingPays ==
  ASSUME NEW f \in [Nat -> Nat], NEW e \in [Nat -> Nat], NEW now \in Nat,
         NEW w \in Nat \ {0}, NEW l \in Nat \ {0}, NEW s \in Nat, NEW k \in Nat,
         \A n \in Nat : e[n] = f[n] + (IF now < n THEN 1 ELSE 0),
         \A m, n \in Nat : m <= n => f[m] <= f[n],
         s <= now, now < s + w, k < l,
         WindowPays(f, w, l, s, k), MeetsTwo(f, w, l)
  PROVE  WindowPays(e, w, l, s, k + 1) /\ MeetsTwo(e, w, l)
<1>s. e[s] = f[s] /\ f[s] \in Nat
  OBVIOUS
<1>1. ASSUME NEW n \in Nat, s <= n PROVE e[n] <= e[s] + (k + 1)
  <2>1. f[n] <= f[s] + k /\ f[n] \in Nat
    BY <1>1 DEF WindowPays
  <2>2. e[n] = f[n] \/ e[n] = f[n] + 1
    OBVIOUS
  <2> QED
    BY <1>s, <2>1, <2>2
<1>2. ASSUME NEW t \in Nat, t <= s, s < t + w PROVE e[s] <= e[t] + l
  <2>1. e[t] = f[t]
    BY <1>2
  <2> QED
    BY <1>2, <1>s, <2>1 DEF WindowPays
<1>3. ASSUME NEW t \in Nat PROVE e[t + w] <= e[t] + 2 * l
  <2>1. /\ t + w \in Nat /\ f[t] \in Nat /\ f[t + w] \in Nat
        /\ f[t + w] <= f[t] + 2 * l
    <3>1. t + w \in Nat
      OBVIOUS
    <3>2. f[t + w] <= f[t] + 2 * l
      BY DEF MeetsTwo
    <3> QED
      BY <3>1, <3>2
  <2>2. CASE now < t
    <3>1. e[t] = f[t] + 1 /\ e[t + w] = f[t + w] + 1
      BY <2>1, <2>2
    <3> QED
      BY <2>1, <3>1
  <2>3. CASE t <= now /\ now < t + w
    <3>1. e[t] = f[t] /\ e[t + w] = f[t + w] + 1
      BY <2>1, <2>3
    <3>2. f[t + w] <= f[s] + k
      <4>1. s <= t + w
        BY <2>3
      <4> QED
        BY <2>1, <4>1 DEF WindowPays
    <3>3. f[s] <= f[t] + l
      <4>1. CASE s <= t
        <5>1. f[s] <= f[t]
          BY <4>1
        <5> QED
          BY <1>s, <2>1, <5>1
      <4>2. CASE t < s
        <5>1. t <= s /\ s < t + w
          BY <2>3, <4>2
        <5> QED
          BY <5>1 DEF WindowPays
      <4> QED
        BY <4>1, <4>2
    <3> QED
      BY <1>s, <2>1, <3>1, <3>2, <3>3
  <2>4. CASE t + w <= now
    <3>1. e[t] = f[t] /\ e[t + w] = f[t + w]
      BY <2>1, <2>4
    <3> QED
      BY <2>1, <3>1
  <2> QED
    BY <2>1, <2>2, <2>3, <2>4
<1> QED
  BY <1>1, <1>2, <1>3 DEF WindowPays, MeetsTwo

\* A counter that is not granted from, and whose row stays or goes.
LEMMA AllowanceRests ==
  ASSUME NEW b \in Buckets, AllowanceHolds(b), Granted(b)' = Granted(b),
         \/ rows'[b] = NoRow
         \/ rows[b] # NoRow /\ rows'[b].start = rows[b].start /\ rows'[b].count = rows[b].count
  PROVE  AllowanceHolds(b)'
<1>1. WindowOf(b)' = WindowOf(b) /\ LimitOf(b)' = LimitOf(b)
  BY DEF WindowOf, LimitOf
<1> QED
  BY <1>1 DEF AllowanceHolds, WindowPays, MeetsTwo

\* A grant, of a window that opens or one that goes on.
LEMMA GrantHolds ==
  ASSUME QuotaInv, NEW b \in Buckets, NEW now \in Times, Grant(b, now), clock <= now + MaxLag,
         Followed(b), AllowanceHolds(b)
  PROVE  AllowanceHolds(b)'
<1> DEFINE w == WindowOf(b)
           l == LimitOf(b)
           f == Granted(b)
           e == Granted(b)'
           g == granted[b]
<1>t. QuotaTypeOK /\ RowIsNewest(b) /\ SweptIsOver(b)
  BY DEF QuotaInv, RowsRight
<1>n. now \in Nat /\ clock \in Nat /\ MaxLag \in Nat /\ Times \subseteq Nat
  BY <1>t, QuotaAssumption DEF QuotaTypeOK, Times
<1>w. w \in Nat \ {0} /\ l \in Nat /\ l >= 1
  <2>1. Admits(rows[b], b, now)
    BY <1>t, GrantEffect
  <2> QED
    BY <2>1, BucketKinds DEF Admits
<1>c. WindowOf(b)' = w /\ LimitOf(b)' = l
  BY DEF WindowOf, LimitOf
<1>g. g \in [Times -> Nat] /\ granted'[b] \in [Times -> Nat]
  BY <1>t, GrantTypes DEF QuotaTypeOK
<1>f. f \in [Nat -> Nat] /\ e \in [Nat -> Nat]
  <2>1. e = SumBefore(granted'[b])
    BY DEF Granted, SumBefore
  <2>2. f = SumBefore(g)
    BY DEF Granted
  <2> HIDE DEF e, f, g
  <2> QED
    BY <1>g, <2>1, <2>2, SumBeforeIs
<1>m. \A m, n \in Nat : m <= n => f[m] <= f[n]
  BY <1>g, SumGrows DEF Granted
<1>e. \A n \in Nat : e[n] = f[n] + (IF now < n THEN 1 ELSE 0)
  BY <1>t, GrantCounts
<1>a. MeetsTwo(f, w, l)
  BY DEF AllowanceHolds
<1>r. /\ rows[b].start \in Nat /\ rows[b].count \in Nat /\ rows[b].last \in Nat
      /\ rows[b] \in Row /\ rows'[b] = Claimed(rows[b], b, now)
  BY <1>t, RowsAreNumbers, GrantEffect
<1>1. CASE rows[b] = NoRow \/ Expired(rows[b], b, now)
  <2>1. rows'[b].start = now /\ rows'[b].count = 1
    BY <1>1, <1>r DEF Claimed
  <2>2. \A t \in Times : g[t] > 0 => t < now
    <3>1. CASE rows[b] = NoRow
      BY <3>1, <1>t, <1>n, <1>w DEF SweptIsOver
    <3>2. CASE rows[b] # NoRow /\ Expired(rows[b], b, now)
      BY <3>2, <1>t, <1>n, <1>w, <1>r DEF RowIsNewest, Expired
    <3> QED
      BY <1>1, <3>1, <3>2
  <2>3. ASSUME NEW n \in Nat, now <= n PROVE f[n] = f[now]
    <3>1. \A t \in Times : now <= t /\ t < n => g[t] = 0
      <4> SUFFICES ASSUME NEW t \in Times, now <= t PROVE g[t] = 0
        OBVIOUS
      <4>1. g[t] \in Nat /\ t \in Nat
        BY <1>g, <1>n
      <4> QED
        BY <1>n, <2>2, <4>1
    <3> QED
      BY <1>g, <1>n, <2>3, <3>1, SumStands DEF Granted
  <2>4. ASSUME NEW t \in Nat, t <= now, now < t + w PROVE f[now] <= f[t] + l
    <3>1. CASE rows[b] = NoRow
      <4>1. \A u \in Times : t <= u /\ u < now => g[u] = 0
        <5> SUFFICES ASSUME NEW u \in Times, t <= u, g[u] # 0 PROVE FALSE
          OBVIOUS
        <5>1. g[u] > 0 /\ u \in Nat
          BY <1>g, <1>n
        <5>2. u + w + MaxLag < clock
          BY <1>t, <3>1, <5>1 DEF SweptIsOver
        <5> HIDE DEF w
        <5> QED
          BY <1>n, <1>w, <2>4, <5>1, <5>2
      <4>2. f[now] = f[t]
        BY <1>g, <1>n, <2>4, <4>1, SumStands DEF Granted
      <4> QED
        BY <1>f, <1>w, <4>2
    <3>2. CASE rows[b] # NoRow /\ Expired(rows[b], b, now)
      <4>1. rows[b].start + w <= now
        BY <3>2 DEF Expired
      <4>2. rows[b].start <= t /\ rows[b].start <= now
        BY <1>n, <1>w, <1>r, <2>4, <4>1
      <4>3. f[now] <= f[rows[b].start] + rows[b].count
        BY <1>n, <3>2, <4>2 DEF AllowanceHolds, WindowPays
      <4>4. f[rows[b].start] <= f[t]
        BY <1>m, <1>r, <4>2
      <4>5. rows[b].count <= l
        BY <1>t, <3>2, <1>w DEF RowIsNewest
      <4>6. f[now] \in Nat /\ f[t] \in Nat /\ f[rows[b].start] \in Nat
        BY <1>f, <1>n, <1>r
      <4> HIDE DEF f, l
      <4> QED
        BY <1>w, <1>r, <4>3, <4>4, <4>5, <4>6
    <3> QED
      BY <1>1, <3>1, <3>2
  <2>5. WindowPays(e, w, l, now, 1) /\ MeetsTwo(e, w, l)
    <3>1. l \in Nat \ {0} /\ w \in Nat \ {0}
      BY <1>w
    <3> HIDE DEF e, f, w, l
    <3> QED
      BY <1>a, <1>e, <1>f, <1>n, <2>3, <2>4, <3>1, OpeningPays
  <2> QED
    BY <1>c, <2>1, <2>5 DEF AllowanceHolds, WindowPays, MeetsTwo
<1>2. CASE rows[b] # NoRow /\ ~Expired(rows[b], b, now)
  <2>1. rows'[b].start = rows[b].start /\ rows'[b].count = rows[b].count + 1
    BY <1>2, <1>r DEF Claimed
  <2>2. /\ rows[b].count < l
        /\ now >= rows[b].last + CooldownInSql(b, rows[b].count)
    BY <1>t, <1>2, GrantEffect DEF Admits
  <2>3. rows[b].start <= now /\ now < rows[b].start + w
    <3>1. rows[b].start <= rows[b].last
      BY <1>t, <1>2 DEF RowIsNewest
    <3>2. rows[b].last <= now
      BY <1>n, <1>r, <2>2, SqlLadder
    <3>3. ~ (rows[b].start + w <= now)
      BY <1>2 DEF Expired
    <3> QED
      BY <1>n, <1>r, <1>w, <3>1, <3>2, <3>3
  <2>4. WindowPays(f, w, l, rows[b].start, rows[b].count)
    BY <1>2 DEF AllowanceHolds
  <2>5. WindowPays(e, w, l, rows[b].start, rows[b].count + 1) /\ MeetsTwo(e, w, l)
    <3>1. l \in Nat \ {0} /\ w \in Nat \ {0}
      BY <1>w
    <3> HIDE DEF e, f, w, l
    <3> QED
      BY <1>a, <1>e, <1>f, <1>m, <1>n, <1>r, <2>2, <2>3, <2>4, <3>1, ExtendingPays
  <2> QED
    BY <1>c, <2>1, <2>5 DEF AllowanceHolds, WindowPays, MeetsTwo
<1> QED
  BY <1>1, <1>2

LEMMA GrantsHold ==
  ASSUME QuotaInv, AllowancesHold, NEW b \in Buckets, NEW now \in Times, Grant(b, now),
         clock <= now + MaxLag, UNCHANGED operator
  PROVE  AllowancesHold'
<1> SUFFICES ASSUME NEW q \in Buckets, Followed(q)' PROVE AllowanceHolds(q)'
  BY DEF AllowancesHold
<1>1. Followed(q) /\ AllowanceHolds(q) /\ QuotaTypeOK
  BY DEF AllowancesHold, Followed, QuotaInv
<1>2. CASE q = b
  BY <1>1, <1>2, GrantHolds
<1>3. CASE q # b
  <2>1. rows'[q] = rows[q]
    BY <1>1, <1>3, GrantEffect
  <2>2. Granted(q)' = Granted(q)
    BY <1>1, <1>3, GrantCounts
  <2> QED
    BY <1>1, <2>1, <2>2, AllowanceRests
<1> QED
  BY <1>2, <1>3

LEMMA AllowancesStep ==
  ASSUME QuotaInv, AllowancesHold, [QuotaNext]_vars
  PROVE  AllowancesHold'
<1>t. QuotaTypeOK
  BY DEF QuotaInv
<1>1. ASSUME UNCHANGED <<rows, granted, operator>> PROVE AllowancesHold'
  <2> SUFFICES ASSUME NEW q \in Buckets, Followed(q)' PROVE AllowanceHolds(q)'
    BY DEF AllowancesHold
  <2>1. AllowanceHolds(q) /\ Granted(q)' = Granted(q)
    BY <1>1 DEF AllowancesHold, Followed, Granted
  <2> QED
    BY <1>1, <2>1, AllowanceRests
<1>2. ASSUME NEW c \in Callers, Claim(c) \/ Unavailable(c) PROVE AllowancesHold'
  <2>1. /\ InClaims(c) /\ operator' = operator
        /\ Grant(Asked(c), request[c].now) \/ UNCHANGED <<rows, granted>>
    BY <1>2 DEF Claim, Unavailable
  <2>2. Asked(c) \in Buckets /\ request[c].now \in Times /\ clock <= request[c].now + MaxLag
    BY <2>1, AskedIsBucket
  <2> QED
    BY <1>1, <2>1, <2>2, GrantsHold
<1>3. ASSUME NEW b \in Buckets, Sweep(b) PROVE AllowancesHold'
  <2> SUFFICES ASSUME NEW q \in Buckets, Followed(q)' PROVE AllowanceHolds(q)'
    BY DEF AllowancesHold
  <2>1. rows' = [rows EXCEPT ![b] = NoRow] /\ operator' = operator /\ granted' = granted
    BY <1>3 DEF Sweep
  <2>2. AllowanceHolds(q) /\ Granted(q)' = Granted(q)
    BY <2>1 DEF AllowancesHold, Followed, Granted
  <2>3. rows'[q] = NoRow \/ rows'[q] = rows[q]
    BY <1>t, <2>1 DEF QuotaTypeOK
  <2> QED
    BY <2>2, <2>3, AllowanceRests
<1>4. ASSUME Stop PROVE AllowancesHold'
  <2> SUFFICES ASSUME NEW q \in Buckets, Followed(q)' PROVE AllowanceHolds(q)'
    BY DEF AllowancesHold
  <2>1. /\ rows[Global] # NoRow /\ operator = "none" /\ granted' = granted
        /\ rows' = [rows EXCEPT ![Global].count = Limit["global"]]
    BY <1>4 DEF Stop
  <2>2. Followed(q) /\ AllowanceHolds(q) /\ Granted(q)' = Granted(q)
    BY <2>1 DEF AllowancesHold, Followed, Granted
  <2>3. CASE q # Global
    <3>1. rows'[q] = rows[q]
      BY <1>t, <2>1, <2>3 DEF QuotaTypeOK
    <3> QED
      BY <2>2, <3>1, AllowanceRests
  <2>4. CASE q = Global
    <3>1. rows[q] \in Row /\ rows[q].start \in Nat /\ rows[q].count \in Nat
      BY <1>t, RowsAreNumbers
    <3>2. rows'[q].start = rows[q].start /\ rows'[q].count = Limit["global"]
      BY <1>t, <2>1, <2>4, <3>1 DEF QuotaTypeOK, Row
    <3>3. rows[q].count <= LimitOf(q) /\ LimitOf(q) = Limit["global"] /\ LimitOf(q) \in Nat
      BY <2>1, <2>2, <2>4, BucketKinds DEF QuotaInv, RowsRight, RowIsNewest, LimitOf, Global
    <3>4. Granted(q) \in [Nat -> Nat]
      <4>1. granted[q] \in [Times -> Nat]
        BY <1>t DEF QuotaTypeOK
      <4> QED
        BY <4>1, SumBeforeIs DEF Granted
    <3>5. WindowPays(Granted(q), WindowOf(q), LimitOf(q), rows[q].start, rows[q].count)
      BY <2>1, <2>2, <2>4 DEF AllowanceHolds
    <3>6. WindowPays(Granted(q), WindowOf(q), LimitOf(q), rows[q].start, LimitOf(q))
      <4> DEFINE f == Granted(q)
                 s == rows[q].start
                 k == rows[q].count
      <4>1. ASSUME NEW n \in Nat, s <= n PROVE f[n] <= f[s] + LimitOf(q)
        <5>1. f[n] <= f[s] + k
          BY <3>5, <4>1 DEF WindowPays
        <5>2. f[n] \in Nat /\ f[s] \in Nat /\ k \in Nat /\ k <= LimitOf(q) /\ LimitOf(q) \in Nat
          BY <3>1, <3>3, <3>4
        <5> HIDE DEF f, s, k
        <5> QED
          BY <5>1, <5>2
      <4> QED
        BY <3>5, <4>1 DEF WindowPays
    <3>7. WindowOf(q)' = WindowOf(q) /\ LimitOf(q)' = LimitOf(q)
      BY DEF WindowOf, LimitOf
    <3> QED
      BY <2>2, <3>2, <3>3, <3>6, <3>7 DEF AllowanceHolds, WindowPays, MeetsTwo
  <2> QED
    BY <2>3, <2>4
<1>5. ASSUME Restore PROVE AllowancesHold'
  <2> SUFFICES ASSUME NEW q \in Buckets, Followed(q)' PROVE AllowanceHolds(q)'
    BY DEF AllowancesHold
  <2>1. rows' = [rows EXCEPT ![Global] = NoRow] /\ operator' = "restored" /\ granted' = granted
    BY <1>5 DEF Restore
  <2>2. q # Global
    BY <2>1 DEF Followed
  <2>3. AllowanceHolds(q) /\ Granted(q)' = Granted(q) /\ rows'[q] = rows[q]
    BY <1>t, <2>1, <2>2 DEF AllowancesHold, Followed, Granted, QuotaTypeOK
  <2> QED
    BY <2>3, AllowanceRests
<1> QED
  BY <1>1, <1>2, <1>3, <1>4, <1>5
     DEF QuotaNext, Answer, Arrive, Refuse, Send, Crash, Tick, vars

\* For any windows, limits, lag and number of deliveries at one time: no interval
\* as long as a window of a counter meets more than two of its allowances.
THEOREM AllowancesMeet == QuotaSpec => []AtMostTwoAllowances
<1>1. QuotaInit => AllowancesHold
  <2> SUFFICES ASSUME QuotaInit, NEW b \in Buckets PROVE AllowanceHolds(b)
    BY DEF AllowancesHold
  <2>1. rows[b] = NoRow /\ granted[b] \in [Times -> Nat] /\ \A t \in Times : granted[b][t] = 0
    BY DEF QuotaInit
  <2>2. ASSUME NEW t \in Nat PROVE Granted(b)[t + WindowOf(b)] <= Granted(b)[t] + 2 * LimitOf(b)
    <3>1. WindowOf(b) \in Nat /\ LimitOf(b) \in Nat /\ t + WindowOf(b) \in Nat /\ t <= t + WindowOf(b)
      BY BucketKinds
    <3>2. \A u \in Times : t <= u /\ u < t + WindowOf(b) => granted[b][u] = 0
      BY <2>1
    <3>3. SumBefore(granted[b])[t + WindowOf(b)] = SumBefore(granted[b])[t]
      BY <2>1, <3>1, <3>2, SumStands
    <3>4. SumBefore(granted[b])[t] \in Nat
      BY <2>1, SumBeforeIs
    <3> HIDE DEF SumBefore
    <3> QED
      BY <3>1, <3>3, <3>4 DEF Granted
  <2> QED
    BY <2>1, <2>2 DEF AllowanceHolds, MeetsTwo
<1>2. QuotaInv /\ AllowancesHold /\ [QuotaNext]_vars => AllowancesHold'
  BY AllowancesStep
<1>3. QuotaInv /\ AllowancesHold => AtMostTwoAllowances
  <2> SUFFICES ASSUME QuotaInv, AllowancesHold, NEW b \in Buckets, NEW t \in Times,
                      b # Global \/ operator # "restored"
               PROVE  GrantsWithin(b, t, WindowOf(b)) <= 2 * LimitOf(b)
    BY DEF AtMostTwoAllowances
  <2>1. WindowOf(b) \in Nat /\ LimitOf(b) \in Nat /\ t \in Nat
    BY BucketKinds, QuotaAssumption DEF Times
  <2>2. Granted(b)[t + WindowOf(b)] <= Granted(b)[t] + 2 * LimitOf(b)
    BY <2>1 DEF AllowancesHold, AllowanceHolds, MeetsTwo, Followed
  <2>3. Granted(b) \in [Nat -> Nat]
    <3>1. granted[b] \in [Times -> Nat]
      BY DEF QuotaInv, QuotaTypeOK
    <3> QED
      BY <3>1, SumBeforeIs DEF Granted
  <2>4. Granted(b)[t + WindowOf(b)] \in Nat /\ Granted(b)[t] \in Nat
    BY <2>1, <2>3
  <2>5. GrantsWithin(b, t, WindowOf(b)) = Granted(b)[t + WindowOf(b)] - Granted(b)[t]
    BY DEF GrantsWithin, Granted
  <2> QED
    BY <2>1, <2>2, <2>4, <2>5
<1> QED
  BY <1>1, <1>2, <1>3, QuotaInvariant, PTL DEF QuotaSpec
=============================================================================
