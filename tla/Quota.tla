------------------------------- MODULE Quota -------------------------------
(***************************************************************************)
(* The allowances of one-time codes sent by SMS: application/sms_guard.rs, *)
(* infrastructure's sms_authorization.rs and persistence/sms_send_quota.rs,*)
(* the hook that sends (server/auth_routes.rs), and the sweep.             *)
(*                                                                         *)
(* Counters are rows that all processes share.  A request reads its clock  *)
(* once and claims three of them, a statement each, and no lane serialises *)
(* two requests for a number: what keeps them apart is the claim alone.    *)
(* A refusal's second statement and the look at the edge write nothing,    *)
(* and are operators that the properties ask of every row.                 *)
(***************************************************************************)
EXTENDS Naturals, Sequences, FiniteSets

CONSTANTS
  Numbers,    \* phone numbers
  Everybody,  \* the platform, whose allowance all numbers share
  Callers,    \* deliveries of the hook at one time
  Window,     \* length of a window, by kind of counter
  Limit,      \* sends allowed in one
  Backoff,    \* cooldowns after the first send to a number, the second, ...
  Keep,       \* age at which the sweep takes a row
  MaxLag,     \* how old the clock a request read, or a late replica's, may be
  MaxClock,   \* bound on time
  MaxFaults   \* bound on failures

Kinds == {"hour", "day", "global"}

ASSUME QuotaAssumption ==
  /\ Everybody \notin Numbers
  /\ Window \in [Kinds -> Nat \ {0}]
  /\ Limit \in [Kinds -> Nat]
  /\ Backoff \in Seq(Nat)
  /\ {MaxLag, MaxClock, MaxFaults} \subseteq Nat
  /\ Keep \in Nat
  /\ \A kind \in Kinds : Window[kind] + MaxLag <= Keep

VARIABLES
  clock,    \* the time
  rows,     \* sms_send_quota, NoRow where a counter has none
  request,  \* what each delivery of the hook is doing
  sends,    \* number of messages handed to the provider
  wasted,   \* number of sends that were claimed and never handed over
  operator, \* what the operator did last to the counter of the platform
  faults,   \* number of failures so far
  granted   \* history: number of grants of a counter, by the clock of the request

vars == <<clock, rows, request, sends, wasted, operator, faults, granted>>

Times == 0 .. MaxClock
Buckets == (Numbers \X {"hour", "day"}) \union {<<Everybody, "global">>}
Global == <<Everybody, "global">>
Row == [start : Times, count : Nat, last : Times]
NoRow == [start |-> 0, count |-> 0, last |-> 0]

\* Mutation: the platform's allowance is claimed first.
ClaimsGlobalFirst(number) == <<Global, <<number, "hour">>, <<number, "day">>>>

\* The claims of a send, in the order in which they are made.
Claims(number) == <<<<number, "hour">>, <<number, "day">>, Global>>

Request == [stage : 0 .. 4, number : Numbers \union {Everybody}, now : Times]
Idle == [stage |-> 0, number |-> Everybody, now |-> 0]
Sending == 4

QuotaTypeOK ==
  /\ clock \in Times
  /\ rows \in [Buckets -> Row]
  /\ request \in [Callers -> Request]
  /\ {sends, wasted, faults} \subseteq Nat
  /\ operator \in {"none", "stopped", "restored"}
  /\ granted \in [Buckets -> [Times -> Nat]]

QuotaInit ==
  /\ clock = 0
  /\ rows = [b \in Buckets |-> NoRow]
  /\ request = [c \in Callers |-> Idle]
  /\ sends = 0
  /\ wasted = 0
  /\ operator = "none"
  /\ faults = 0
  /\ granted = [b \in Buckets |-> [t \in Times |-> 0]]

(***************************************************************************)
(* One claim.                                                              *)
(***************************************************************************)
WindowOf(b) == Window[b[2]]
LimitOf(b) == Limit[b[2]]
\* Only the hourly counter has a ladder.
LadderOf(b) == IF b[2] = "hour" THEN Backoff ELSE <<>>

Lesser(m, n) == IF m < n THEN m ELSE n

\* Mutation: the array is taken to be indexed from 0.
CooldownFromZero(b, count) ==
  IF count - 1 \in DOMAIN LadderOf(b) THEN LadderOf(b)[count - 1] ELSE 0

\* The cooldown in the statement: an array indexed from 1, none if it is empty.
CooldownInSql(b, count) ==
  LET rung == Lesser(count, Len(LadderOf(b)))
  IN  IF rung \in DOMAIN LadderOf(b) THEN LadderOf(b)[rung] ELSE 0

\* Mutation: a clock before the window is taken for one after it.
ExpiredEitherWay(row, b, now) == now < row.start \/ row.start + WindowOf(b) <= now

Expired(row, b, now) == row.start + WindowOf(b) <= now

\* The WHERE of the upsert, before it the kill switch.
Admits(row, b, now) ==
  /\ LimitOf(b) >= 1
  /\ \/ row = NoRow
     \/ Expired(row, b, now)
     \/ row.count < LimitOf(b) /\ now >= row.last + CooldownInSql(b, row.count)

\* Its SET.
Claimed(row, b, now) ==
  IF row = NoRow \/ Expired(row, b, now) THEN [start |-> now, count |-> 1, last |-> now]
  ELSE [start |-> row.start, count |-> row.count + 1, last |-> now]

Left(till, now) == IF till > now THEN till - now ELSE 0

\* Mutation: the edge asks for the ceiling alone.
PeekAtCeiling(row, b, now) ==
  /\ LimitOf(b) >= 1
  /\ row = NoRow \/ Expired(row, b, now) \/ row.count < LimitOf(b)

\* What the edge asks before it calls the identity provider.
PeekPasses(row, b, now) ==
  /\ LimitOf(b) >= 1
  /\ \/ row = NoRow
     \/ Expired(row, b, now)
     \/ row.count < LimitOf(b) /\ Left(row.last + CooldownInSql(b, row.count), now) = 0

\* The countdown of a refusal, from the row its second statement finds.
RetryAfter(row, b, now) ==
  IF row = NoRow THEN WindowOf(b)
  ELSE IF row.count >= LimitOf(b) THEN Left(row.start + WindowOf(b), now)
  ELSE LET left == Left(row.last + CooldownInSql(b, row.count), now) IN IF left > 1 THEN left ELSE 1

(***************************************************************************)
(* A delivery of the hook.                                                 *)
(***************************************************************************)

\* The request reads its replica's clock.
Arrive(c, number) ==
  /\ request[c].stage = 0
  /\ \E now \in Times :
       /\ now <= clock /\ clock <= now + MaxLag
       /\ request' = [request EXCEPT ![c] = [stage |-> 1, number |-> number, now |-> now]]
  /\ UNCHANGED <<clock, rows, sends, wasted, operator, faults, granted>>

Fault == faults < MaxFaults /\ faults' = faults + 1
Leave(c) == request' = [request EXCEPT ![c] = Idle]
InClaims(c) == request[c].stage \in 1 .. 3
Asked(c) == Claims(request[c].number)[request[c].stage]

\* The statement takes effect.
Grant(b, now) ==
  /\ Admits(rows[b], b, now)
  /\ rows' = [rows EXCEPT ![b] = Claimed(@, b, now)]
  /\ granted' = [granted EXCEPT ![b][now] = @ + 1]

\* try_claim grants: on to the next counter, and after the last to the send.
Claim(c) ==
  /\ InClaims(c)
  /\ Grant(Asked(c), request[c].now)
  /\ request' = [request EXCEPT ![c].stage = @ + 1]
  /\ UNCHANGED <<clock, sends, wasted, operator, faults>>

\* try_claim denies, and nothing granted before is given back.
Refuse(c) ==
  /\ InClaims(c)
  /\ ~Admits(rows[Asked(c)], Asked(c), request[c].now)
  /\ Leave(c)
  /\ UNCHANGED <<clock, rows, sends, wasted, operator, faults, granted>>

\* The store cannot be reached, which refuses; the statement may have taken
\* effect all the same.
Unavailable(c) ==
  /\ InClaims(c)
  /\ Fault
  /\ \/ UNCHANGED <<rows, granted, wasted>>
     \/ /\ Grant(Asked(c), request[c].now)
        /\ wasted' = IF Asked(c) = Global THEN wasted + 1 ELSE wasted
  /\ Leave(c)
  /\ UNCHANGED <<clock, sends, operator>>

\* The witness is used up by one call of the provider, which may fail.
Send(c) ==
  /\ request[c].stage = Sending
  /\ sends' = sends + 1
  /\ Leave(c)
  /\ UNCHANGED <<clock, rows, wasted, operator, faults, granted>>

\* The process dies between the claim and the call.
Crash(c) ==
  /\ request[c].stage = Sending
  /\ Fault
  /\ wasted' = wasted + 1
  /\ Leave(c)
  /\ UNCHANGED <<clock, rows, sends, operator, granted>>

(***************************************************************************)
(* Around it.                                                              *)
(***************************************************************************)

\* sweep_retention.
Sweep(b) ==
  /\ rows[b] # NoRow
  /\ rows[b].last + Keep < clock
  /\ rows' = [rows EXCEPT ![b] = NoRow]
  /\ UNCHANGED <<clock, request, sends, wasted, operator, faults, granted>>

\* The operator raises the counter of the platform over its ceiling; an
\* UPDATE does nothing where there is no row.
Stop ==
  /\ operator = "none"
  /\ rows[Global] # NoRow
  /\ operator' = "stopped"
  /\ rows' = [rows EXCEPT ![Global].count = Limit["global"]]
  /\ UNCHANGED <<clock, request, sends, wasted, faults, granted>>

\* A DELETE of the row, whatever it counts, restores sends and starts the count
\* over.
Restore ==
  /\ operator # "restored"
  /\ operator' = "restored"
  /\ rows' = [rows EXCEPT ![Global] = NoRow]
  /\ UNCHANGED <<clock, request, sends, wasted, faults, granted>>

\* Time passes; no request is slower than MaxLag.
Tick ==
  /\ clock < MaxClock
  /\ \A c \in Callers : InClaims(c) => clock < request[c].now + MaxLag
  /\ clock' = clock + 1
  /\ UNCHANGED <<rows, request, sends, wasted, operator, faults, granted>>

Answer(c) == Claim(c) \/ Refuse(c) \/ Send(c)

QuotaNext ==
  \/ \E c \in Callers :
       \/ \E number \in Numbers : Arrive(c, number)
       \/ Answer(c) \/ Unavailable(c) \/ Crash(c)
  \/ \E b \in Buckets : Sweep(b)
  \/ Stop \/ Restore \/ Tick

\* A delivery of the hook goes on.
QuotaFairness == \A c \in Callers : WF_vars(Answer(c))

QuotaSpec == QuotaInit /\ [][QuotaNext]_vars /\ QuotaFairness

(***************************************************************************)
(* Properties.                                                             *)
(***************************************************************************)

\* What a function of the times sums up to before an instant.
SumBefore(g) ==
  LET sum[n \in Nat] == IF n = 0 THEN 0 ELSE sum[n - 1] + (IF n - 1 \in Times THEN g[n - 1] ELSE 0)
  IN  sum

\* Grants of a counter to requests whose clock read n instants from t on.
GrantsWithin(b, t, n) == SumBefore(granted[b])[t + n] - SumBefore(granted[b])[t]

\* A window turns over as a whole, so an interval as long as one can meet two
\* allowances, and never a third: with requests that are late, with replicas
\* whose clocks differ, and with the sweep.  Restoring starts over.
AtMostTwoAllowances ==
  \A b \in Buckets : \A t \in Times :
    b # Global \/ operator # "restored" => GrantsWithin(b, t, WindowOf(b)) <= 2 * LimitOf(b)

\* The allowance of the platform pays for sends and for nothing else: a request
\* that a number's own counter refuses does not touch it, and no message goes
\* out unpaid, whatever fails between the claims and the call.
EverySendIsPaid ==
  GrantsWithin(Global, 0, MaxClock + 1)
    = sends + wasted + Cardinality({c \in Callers : request[c].stage = Sending})

\* The ladder by the reference: the cooldown owed after a number of sends.
CooldownAfter(count) == IF count = 0 \/ Backoff = <<>> THEN 0 ELSE Backoff[Lesser(count, Len(Backoff))]

\* Within a window of a number, a send keeps the cooldown after every earlier
\* one of that window, in whatever order the requests read their clocks.
LadderIsKept ==
  [][\A number \in Numbers : LET b == <<number, "hour">> IN
       rows'[b].start = rows[b].start /\ rows'[b].count > rows[b].count /\ rows[b] # NoRow
         => \A t \in Times : t >= rows[b].start /\ granted[b][t] > 0
              => rows'[b].last >= t + CooldownAfter(rows[b].count)]_vars

\* The store for tests, the reference that the SQL must match.
Decide(row, b, now) ==
  /\ LimitOf(b) >= 1
  /\ row # NoRow /\ now < row.start + WindowOf(b) =>
       /\ row.count < LimitOf(b)
       /\ now >= row.last + (IF b[2] = "hour" THEN CooldownAfter(row.count) ELSE 0)

\* On no row, at no time, does the look at the edge answer other than the claim
\* would, or either other than the reference; and whoever waits out the countdown
\* of a refusal, and is alone in asking, is let through by the counter that
\* refused, whichever row the refusal's second statement found.
AnswersAgree ==
  \A b \in Buckets : \A now \in Times :
    /\ PeekPasses(rows[b], b, now) <=> Admits(rows[b], b, now)
    /\ Admits(rows[b], b, now) <=> Decide(rows[b], b, now)
    /\ LimitOf(b) >= 1 => Admits(rows[b], b, now + RetryAfter(rows[b], b, now))
=============================================================================
