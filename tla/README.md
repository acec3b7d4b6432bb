# Captain.Food's actor runtime, event log and sagas in TLA+

Captain.Food takes restaurant orders. A request becomes a *message* in a
durable mailbox; workers that lease the mailbox's lanes hand each message to an
actor; an actor, folded from its stream or from a cache, appends *facts* to an
event log; projection workers fold the facts into read models; sagas react to
them, call Stripe and the delivery partners, and record what came of it; a
deletion engine erases the streams whose retention is over. What can go wrong
lies between these parts: leases that move while a handler runs, statements
that commit while their answer is lost, positions that are drawn in one order
and seen in another, rows that are read before a call and written after it,
legs that run twice. This directory models that core, checks it on small
instances with TLC and proves most of its safety for every instance with TLAPS.

File and line references are to the repository (`crates/...`, `migrations/...`).

- [The system](#the-system): every component, its state and what makes it correct
- [The modules](#the-modules): which module models what, and how
- [What is checked](#what-is-checked): the runs, their bounds, their fairness
- [What the code does not do](#what-the-code-does-not-do): three disagreements, and what else the models show
- [What is proved](#what-is-proved): theorems, invariants, assumptions
- [What is left out](#what-is-left-out) and [the plan](#the-plan)

## The system

```
 sender --insert--> inbound_messages --drain--> handler --append--> domain_events
 clock  --promote-^    ^    ^   |                ^   |                |   |    |
 operator --requeue----+    |   | lease          |   +--promote--> activation  |
 webhooks -----record-------+   |                +------fold------- cache      |
                           mailbox workers                 projection --- saga ---- deletion
                                ^                           workers      runner     engine
                                |                              |         |   |         |
                                +------- lanes of sagas -------|---------+   |   deletes streams
                                                          read models     Stripe,
                                                          and checkpoints  partners
```

All the arrows but those to Stripe, to the partners and to the cache are rows
of one PostgreSQL database. A step of the models is one SQL statement, one
transaction, one call or one critical section of the cache: the grain at which
processes interleave.

| Component | State | Operations | Correct when |
| --- | --- | --- | --- |
| Partition registry (`actor_runtime/src/lease.rs`) | per lane: owner, lease, `ownership_version` | seed, claim, steal, heartbeat, release | no version is claimed twice |
| Fair-share rebalance (`worker.rs`, `rebalance`) | the census a worker carries between statements | two census queries, steal | a thief keeps to its share; stealing settles on a fair spread and stays there |
| Mailbox worker (`worker.rs`, `drain`, `drain_lane`, `poison_raw`) | believed lanes, where a pass stands | read a batch, attempt, complete, count an attempt, poison, renew | order within a lane; a bad row is given up, not retried for ever; nothing is stranded |
| Fenced completion (`completion.rs`) | row status, checkpoint, effects | one transaction behind two guards | effects at most once, by the newest owner |
| Mailbox store (`infrastructure/src/persistence/mailbox_store.rs`, `mailbox_lanes.rs`, `actor_runtime/src/schedule.rs`) | rows and their positions | insert, schedule, cancel, promote, requeue | a cancelled reminder is never delivered |
| Activation cache (`actor_runtime/src/activation.rs`, `infrastructure/src/mailbox/activation.rs`, `handler.rs`, `flush.rs`) | folded aggregates, an epoch per lane | look up, load, fill, guard, promote, invalidate, drop a lane, passivate | no verdict on a state the log has left; nothing invalidated comes back |
| Event log (`persistence/event_store.rs`) | facts, their positions | append | streams are serial; the log's head never goes back |
| Projection workers (`infrastructure/src/projection/worker.rs`) | checkpoint per group, the head of the last full pass | idle gate, scan, fold | a checkpoint hides nothing; nothing is folded twice |
| Deletion engine (`infrastructure/src/deletion.rs`) | its cursor, tombstones, the ledger | bound, scan, tombstone (tx1), delete + receipt + cursor (tx2) | what is erased was folded first; one receipt per stream |
| Saga runner (`infrastructure/src/process_manager/runner.rs`) | a checkpoint per saga | select, legs, `commit_leg` | a leg that runs twice has one effect; a trigger that commits in order is not passed over |
| Checkout: `place_order` and `PlaceOrderProcess` (`application/src/commands.rs`, `process_managers/place_order.rs`, `mailbox/pm_delivery.rs`) | the run row of a cart, payments, intents | read cart and run, request an intent, record Stripe's facts, bear the order | an order is paid for, a cart becomes one order of a lane, money held becomes an order |
| Settlement and refunds (`process_managers/payment_settlement.rs`, `refund.rs`) | the refund run, the Payment stream | capture, release, open, approve, deny, refund | the money follows the order; one decision, one refund |
| Delivery dispatch (`process_managers/delivery_dispatch.rs`, `deliveries.rs`, `domain/src/delivery_job.rs`, `delivery_offer_timeout_worker.rs`) | the dispatch row, the job | offer, advance, fail, accept, report, time out | channels in rank order; the job moves legally; the walk ends |
| SMS codes (`application/src/sms_guard.rs`, `infrastructure/src/persistence/sms_send_quota.rs`, `sms_authorization.rs`, `server/src/auth_routes.rs`) | a row per counter: window, count, last grant | claim, look, countdown, send, sweep, stop, restore | what is sent was paid for; what fits in a window is bounded whoever asks at the same time |
| Cart binding, reclamation, supervision ledger, reservations, clients, adapters, web, code generation | see `PROJECT.json` | | |

The behaviours that make it hard, and the lines where they bite, are the
`hazards` of `PROJECT.json`. In short:

- **Belief and authority.** A worker remembers the version at which it claimed
  a lane and never reads it again. It may act on a lane it lost; the database
  refuses the commit (`completion.rs:77`).
- **Positions.** `inbound_messages` and `domain_events` draw a position at
  INSERT and show the row at COMMIT
  (`migrations/20260717120000_domain_schema.sql:109-124`). A row can appear
  below rows that were already read: to the mailbox, to the projection workers
  and to the saga runner, of which only the first looks for it again.
- **Lost answers.** A claim, a completion or a call to Stripe may take effect
  although the caller sees an error.
- **Statements that belong together and are not.** Counting an attempt and
  poisoning; the two queries of the census and the steal; the two transactions
  of an erasure; a leg's effects and its checkpoint; a saga's row read at the
  beginning of a leg and replaced at its end.
- **State kept beside the log.** The activation cache, the projected row a leg
  decides on, and the row of a saga all lag behind the log.
- **Processes die or panic between any two statements.**

## The modules

| Module | Models | Uses |
| --- | --- | --- |
| `Lease` | the registry and each worker's belief | |
| `Rebalance` | census and steals | `Lease` |
| `OnceDelivery` | **abstract**: what a sender is promised about one message | |
| `Mailbox` | rows, drain, completion, poison, reminders, requeue | `Lease`; refines `OnceDelivery` |
| `Activation` | the cache of one process, and the deliveries that fold over it | |
| `EventLog` | facts, positions, tombstones, receipts | |
| `Projection` | the workers' ticks | `EventLog` |
| `Retention` | **abstract**: what is promised about facts on record, their readers and forgetting them | |
| `Erasure` | the deletion engine beside the workers | `Projection`; refines `Retention` |
| `Purchase` | **abstract**: what customer and restaurant are promised about the checkout of one cart | |
| `Checkout` | the checkout of one cart, up to the birth of the order | refines `Purchase` |
| `Escrow` | **abstract**: what customer and restaurant are promised about the money of one order | |
| `Settlement` | the money of one placed order: settlement and refund sagas | refines `Escrow` |
| `Errand` | **abstract**: what restaurant and customer are promised about the delivery of one order | |
| `Dispatch` | the delivery of one ready order: the dispatch saga and the job | refines `Errand` |
| `Quota` | the counters of one-time codes sent by SMS, and the hook that claims them | |
| `MCRebalance`, `MCMailbox`, `MCErasure`, `MCActivation`, `MCCheckout`, `MCSettlement`, `MCDispatch`, `MCQuota` | model values for TLC | |
| `Lease_proofs`, `Mailbox_proofs`, `Erasure_proofs`, `Activation_proofs`, `Checkout_proofs`, `Settlement_proofs`, `Dispatch_proofs`, `Quota_proofs` | theorems and the lemmas they rest on | the modules they name |

`Lease` has no behaviour of its own: `Rebalance` and `Mailbox` are two
compositions of it, one that looks at who gets which lane and one at what is
done with it. `Mailbox` lets a worker steal any live lane, so whatever the
rebalance decides is covered. The three saga modules stand beside each other:
`Checkout` ends where an order is born with its payment authorised, which is
where `Settlement` begins, and `Dispatch` begins at `OrderMarkedReady`. What a
lane is to them (the head is delivered, a failure delivers it again, after too
many it is given up, nothing is committed twice) is what `Mailbox` shows.

### How state and actions correspond to the code

`PROJECT.json` maps every definition to its lines. The choices worth knowing,
of the runtime and the log first:

- **Time** is kept as far as a statement reads it. A lease is absent, live or
  expired; a backoff is running or over; a reminder may be due at once; an
  offer may be stale as soon as it is made. A lease that expires under a
  running owner is a *disturbance* (bounded by `MaxChurn`); one whose owner is
  gone or has forgotten the lane expires freely, and must.
- **Payloads, verdicts and errors** are left out of `Mailbox`. `COMPLETED`
  stands for every verdict a handler commits; `POISONED` is `FAILED` with
  `DeliveryInfrastructureError`, the only one an operator may requeue.
- **A handler** is the step from `Attempt` to `Complete`, with any other
  process moving in between. Its effects are one counter, raised in the
  transaction that also writes the status and the checkpoint.
- **`late`**, in both halves, is history: the rows (facts) that became
  deliverable (visible) at a position below one that could already be seen. A
  requeued row is late by definition, since the operator asks for it out of
  order.
- **The order** in which a worker drains its lanes, a projector its groups and
  a runner its sagas is left open; so is the tie-break of the census.
- **A fold's writes** are abstracted to whether they were committed. A fold
  that fails is `skipped` (the code logs and goes on); under the halting policy
  it fails the tick (`TickFails`).
- **Appends** to one stream exclude each other, as `UNIQUE (stream_name,
  version)` does; reading the stream and inserting are one step, since a writer
  that lost the race changes nothing. `Activation`, which is about that race,
  keeps them apart.
- **One engine** runs at a time: the CronJob forbids overlap
  (`deploy/generated/manifests/bins/worker-erasure.yaml:25`). tx2's early
  return for a stream somebody else erased therefore appears only when the
  stream is read.
- **`Fault`**, `Disturb` and `Trouble` count everything that fails: aborted
  transactions, lost answers, panics, crashes, shutdowns, failed calls.
  `MaxFaults`, `MaxChurn` and `MaxTroubles` bound them in a run; the theorems
  hold for any bound.

Of the cache (`Activation`):

- A row of the log is a version and an id that stands for its contents, so a
  row that another writer put in the place of an expected one is told apart. A
  held activation is the set of rows it was folded from.
- The epoch is kept as the set of workers whose captured epoch an invalidation
  has left behind (`behind`), which is what `put_at_epoch` asks.
- A peer process owns its own cache: it appears as a claim of the lane, the
  completion of messages, and appends nobody announces here.
- A delivery loads its stream once; the byte budget and the age of an entry are
  the freedom of `Passivate`; the poison cap does not appear, so a lane that
  always failed would never be freed by giving a message up.
- An erased stream is not born again. Its version then stands still at zero, or
  has a gap if an append was open under the DELETE (`gapped`).

Of the sagas:

- **A leg** is read, decide, call or append, upsert, commit; each is a step. An
  error of a leg consumes its trigger (`runner.rs:395-408`): `LegError` and the
  calls that fail end in `commit`, and the history variable `unheard` says that
  nothing came of it. A lost version race is `CrashLeg`.
- **`commit_leg`** writes its position, whether ahead or behind
  (`runner.rs:667`), and any number of runners may drain a saga, as during a
  hand-over.
- **Late facts.** The runner selects the triggers of *all* orders past one
  checkpoint (`runner.rs:365-371`), and a model has the facts of one order. That
  a fact of it commits below a position somebody has read (`MayBeLate`) counts
  as a failure; from then on the leg of another order may take the checkpoint
  past it (`PassOver`), and no error says so. Nobody owes a late trigger
  anything (`Owed`): the idle gate compares the head with the one it saw
  (`runner.rs:312-323`), and a fact below it does not raise the head, so it waits
  at least for the next fact of anybody. A trigger that is not late raises the
  head, so the gate delays it by nothing. Left out: that with several runners the
  leg of another order also takes the checkpoint *back* (`runner.rs:667`; the legs
  of this order do); that the projector of `OrderTracking` passes over a late
  fact; and that `OrderMarkedReady` itself, with which `Dispatch` begins, is
  late, whereupon the order is not dispatched at all.
- **The projected row** a leg reads is `folded` (or `projected`), a prefix of
  the log that moves by itself.
- **Stripe** is an intent that is created, held, captured, released or expired,
  with refunds, as the outbound adapter's calls and the inbound adapter's facts
  use it. A repeated call with the same idempotency key answers as the first.
  Its reports are recorded in any order and chained to the lanes of the sagas
  in the transaction that records them.
- **Delivery partners** accept, decline and report whenever the recorder admits
  it, those of a rank the walk has left included. Left out: a partner's fact on a
  stream that has no birth, which is recorded with no guard
  (`deliveries.rs:104-112`) and moves no job.
- **The plan** of a walk is resolved again in every hook
  (`delivery_dispatch.rs:257-297`) and is one for a behaviour here: an operator
  who changes a city's channels under a walk is left out, and so are the skips
  for an order without a pickup or a drop-off address (`136-147`).
- `ACCEPTED` of an order stands for ACCEPTED, PREPARING and READY; `PICKED_UP`
  of a job for PICKED_UP and OUT_FOR_DELIVERY. Prices, credit, opening hours,
  addresses and the identity of partners are left out: no property asks for
  them.
Of the counters (`Quota`), which share nothing with the rest but the database:

- Time is counted, since every decision compares two times. A request reads its
  clock once, up to `MaxLag` behind the others', and its claims are over within
  `MaxLag` of what it read. That conjunct of `Tick` is an assumption and not in
  the code: replicas keep roughly the same time, and a delivery is soon over or
  given up by who asked. The sweep must wait for it, which `AtMostTwoAllowances`
  tests. The call to the provider may take as long as it likes.
- The look at the edge and the second statement of a refusal write nothing, so
  they are operators, and the properties ask them of every row at every time.
- The operator stops once, and deletes the row once, before or after that; the count is raised to the ceiling,
  since only `count < limit` is ever asked.
- Numbers and the countries served are left out. The wall for e-mail
  (`email_authorization.rs`) makes the same claims without a ladder.

**History variables** (`unheard`, `late`, `reopened`, `behind`, `orphaned`,
`resolved`, `givenUp`, `gapped`, `raced`, and `operator` of `Quota`) only excuse, in a property, what
the code is known not to prevent; each is raised in the one action where that
happens, and the section on disagreements says what they amount to.

## What is checked

Definitions named "Mutation" in a module are plausible bugs; `PROJECT.json`
says which property each of them breaks in which run. Each property of a
passing run has one. The type invariants of the modules with proofs are theorems
and are not checked again by a run.

| Run | Instance | Shows |
| --- | --- | --- |
| `rebalance` | 3 workers, 2 lanes, 2 steals per pass, 1 disturbance | ownership settles on a spread in which nobody steals and every lane is leased (`Converges`), with two thieves acting on stale counts; by a steal nobody comes to have more than its share (`StealsWithinShare`) |
| `mailbox` | 2 workers, 2 lanes, 2 commands and a reminder, batch 2, cap 1, 1 disturbance | the fence (`NewestBeliefCommits`); `HeadOfLine` and the checkpoint with rows landing out of order |
| `mailbox_reminder` | 2 workers, 1 lane, a command and a reminder, batch 1, cap 1, 2 disturbances | the mailbox implements `OnceDelivery`, safety and liveness (`MeetsPromise`); effects exactly once |
| `activation` | 2 workers and a peer, 2 messages, 2 rows more, 2 troubles | verdicts are fresh, caches hold what was the log, obsolete entries stay out, every message is answered |
| `erasure` | an order's stream (birth, expiry) and its payment; 2 groups, one with no checkpoint row yet, batch 1, 1 failure | workers and engine implement `Retention` (`KeepsRetention`); checkpoints hide nothing, one receipt, erased after folded; nothing committed in order stays unfolded, no expiry that every checkpoint has passed stays undone |
| `checkout` | 3 attempts at one cart, 2 of them in one lane, 4 sends, 1 declined card, 1 failure | the checkout implements `Purchase` (`KeepsPurchase`); paid orders only, one per lane, run and cart follow, an authorization becomes an order |
| `settlement` | 1 order, both sagas, 2 refund amounts, 1 refund request, 2 decisions, 2 failures (late commits are failures) | the sagas implement `Escrow` (`KeepsEscrow`); the money follows the order, once; one decision; every ending is settled unless an error consumed it or it committed late, every approval refunded |
| `dispatch` | walks of 0, 1 and 2 channels and self-dispatch, 1 runner, 1 sweeper, 3 moves of others, partners that report a pickup or a delivery, 1 failure or late commit | the dispatch implements `Errand` (`KeepsErrand`); rank order, legal moves of couriers, the walk ends and a delivery closes its order, unless an error consumed the trigger or it committed late |
| `quota` | 1 number, 2 requests at a time, hour 2 of 2, day and platform 3, 2 and 1 sends, 1 rung, 7 instants, clocks 1 apart, 1 failure | two allowances at most where two windows meet, what is sent is paid for, the ladder, and three versions of the rule and the countdown that agree |
| `erasure_unfolded`, `checkout_double`, `dispatch_failed` | small | the three disagreements below |

**Why the bounds are enough.** Two workers are the fewest for a stale owner and
a rightful one, and every pairwise race is there; the third worker of
`rebalance` is for thieves that invalidate each other's census, which needs two
thieves and a victim; its one disturbance is of any kind, a census that errs, a
steal whose answer is lost and a claim whose answer is lost included. Two messages in a lane are the fewest for an order, batch
2 for a batch read before and handled after a change. In `activation` two
workers are the one that captured an epoch and the one that promotes, and two
troubles are a takeover and an erasure in one behaviour. Three attempts at a
cart are the two that share a lane and one beside them; the second authorized
attempt is what an orphan needs. Two decisions are the fewest that can
contradict each other, and two amounts the fewest for a second refund; two
faults put a crash of a runner beside a redelivery of a decision. A walk of two
channels has an offer that is left behind and one that exhausts it. Two requests
are the fewest that race for a counter, a second send is where the ladder
starts, and 7 instants hold two windows of the longest kind and the sweep;
time stops at the last instant and requests do not, which hides nothing, since
no property of it is about what must come. One failure
of an engine, a projector or a runner suffices to put a restart between any two
of its statements. Most of the safety part does not rest on this: see the
theorems below. `MaxVersion` (8) is a bound on steals only so that a thrashing
variant has finitely many states; it hides nothing, for with 12 in its place the
run has the same 461091 states.

**Fairness.** Weak fairness only, on what the code's loops do whatever happens
around them: a worker process starts, and makes its passes on a timer even
without a wake-up (`MailboxWorker::run`); within a pass it goes on to the next
statement; an open transaction ends; a backoff and an unrenewed lease run out;
a projector ticks and the engine starts passes (`run_loop`, the CronJob); the
saga runner polls (`run_loop_with`) and goes through what it has begun, and begins with a
trigger that is not late (`Owed`), and the sweeper sweeps; a lane's head is
delivered; a webhook that was accepted is a row of the mailbox and is recorded.
Clients, writers, restaurants, couriers, operators, Stripe and failures are
never obliged to do anything. That heartbeats come in time is expressed the
other way round: the lease of a lane its owner still holds runs out at most
`MaxChurn` (`MaxTroubles`) times. Crashes, panics and lost answers are finitely
many in a behaviour for the same reason, and the fleet always keeps a process
(`NotLast`), as the deployment does.

`CHECK_DEADLOCK FALSE` appears wherever the system may come to rest: every
message settled and no sender obliged to write another.

## What the code does not do

Each of the three is a run that TLC refutes, with the shortest trace.

1. **`erasure_unfolded`** (a bug). `deletion.rs:8-10` bounds the engine by the
   slowest checkpoint, "so by construction every fact it acts on has already
   been folded by every read model". An expiry draws its position, a payment
   draws the next one and commits first; the order read model folds the payment
   and its checkpoint passes the expiry, which then commits. No scan finds it
   again (`position > checkpoint`), the bound tells the engine that it was
   folded, and the stream is erased while the read model keeps its row.
   `ErasedWereFolded` is what the bound does guarantee.
2. **`checkout_double`**. `commands.rs:2825-2827`: a checkout in flight is to be
   rejected "before the gateway so no second intent is created and no money can
   be taken twice". The run row is read long before it is written, the
   write replaces the row of whichever order the cart had (`ON CONFLICT (cart_id)
   DO UPDATE`), and only deliveries of one lane exclude each other. Two attempts with different order
   ids on two lanes both read no run and both request an intent, and a customer
   who confirms both has two holds. One order comes of it: the other
   authorization finds the cart's run another order's, is orphaned, and its
   hold lapses. `OneOrderOfALane` and `KeepsPurchase` are what does hold.
3. **`dispatch_failed`** (a bug). `delivery_job.rs:78-79`: the legality of a
   transition is "enforced by the handlers at append time". The leg that ends
   the walk asks only whether the job already folds FAILED. A channel that
   accepts after its offer timed out, and before the leg of that timeout ran,
   holds the job, which the leg then records FAILED: ASSIGNED to FAILED is no
   transition of the lifecycle, the restaurant is told to handle by hand what a
   courier is on the way for, and the courier's next report is not admitted.
   `CouriersMoveLegally` is what holds of everybody else.

What else the models contain, without a run of its own. The first five are
races of the runtime, the last two are of the SMS counters, the others of the
sagas:

- `poison_raw` counts an attempt in one statement and flips the row in another
  that tests only the status (`worker.rs:492`); a poisoning by another worker
  and an operator's requeue fit in between, and the flip then fails a row that
  has no attempts.
- A stale worker's poison flip has no fence, so the rightful owner can be told
  `AlreadyCompleted`, and forgets a lane the registry still grants it until the
  lease runs out, although `worker.rs:280` says "the authority is gone".
- `beat` empties its list before renewing and returns on the first database
  error without telling the cache (`worker.rs:243`), although `LaneEvents` is
  "called whenever this worker STOPS believing it owns a lane". Activations
  stay cached, into the worker's next claim of the lane. `VerdictIsFresh` shows
  that this is harmless: the guard compares versions at every commit.
- A promotion does not ask for the epoch (`mailbox/activation.rs:171`): it can
  put back an entry that was invalidated between its look-up and its put
  (`raced`). That too costs one attempt, not a wrong verdict.
- The engine's bound is a minimum over checkpoints that move only when their
  group folds something (`deletion.rs:229`), so a group whose streams are quiet
  holds back every later expiry, although `generated/deletion_policy.rs:8-9`
  speaks of a reaction "immediately".
- A trigger that commits below the checkpoint of its saga is never selected
  (`late`, `runner.rs:365-371`): the hold of the order is neither captured nor
  released, the walk stands still at a rank whose timeout is on record, or the
  order of a delivered job is never closed. No leg ran, so none failed, and
  `/saga` shows nothing, although `runner.rs:14-15` has "anomalies are never
  silently skipped"; that "no PM can have a pending trigger" while the head stands
  still (`runner.rs:318-320`) is not so of such a fact either. `actor_runtime/src/worker.rs:326-331`
  describes the same hazard of the mailbox, which drains by status for its sake. Without the
  excuse for `late`, TLC finds this in `EndedIsSettled`, `WalkEnds` and
  `DeliveryClosesOrder`.
- A leg that meets a read model which has not caught up, or a transient
  database error, consumes its trigger (`unheard`): an order delivered before
  its row is projected is not captured by the saga.
- The opening leg of a refund admits a run that is pending and upserts it
  later; a decision committed in between is set back to pending (`reopened`,
  `refund.rs:78`), and can be taken again.
- An approval that the mailbox gives up may have refunded at Stripe without
  being recorded (`givenUp`).
- A late or replayed birth leg resets the dispatch row, and one runner may
  replace a row another has moved (`behind`); a timeout or decline of a channel
  the walk has left moves the walk on, so a channel may be passed over before
  its own time is up; a timeout whose leg failed is never recorded again for
  that rank, and the walk stands still (excused by `unheard`, although
  `specs/delivery/rules.yaml:31` has "a stale offer never blocks the walk").
- A job that was offered to nobody, since its city has no channel, and one that
  was handed back by its rider, are offered to nobody by the saga.
- Windows do not roll, although `sms_guard.rs:70` and `79` speak of sends "to
  ONE number per rolling hour" and "Platform-wide sends per rolling day". A
  window is anchored at its first send and reset whole by the first claim past
  its end, which does not ask for the cooldown: the last sends of one and the
  first of the next lie within one day that rolls, up to twice the ceiling.
  `AtMostTwoAllowances` is what does hold.
- Raising `sent_count` of `global:day` "stops sends IMMEDIATELY" and a `DELETE`
  "restores them" (`specs/customer/configuration.yaml:107-110`). Nobody needs to:
  the reset of the window forgets the raised count, at most a day later and
  perhaps at once. The statement also finds nothing to update before the first
  send of all, or after the sweep.

## What is proved

Every theorem holds for any finite sets of workers, messages, facts, attempts
and runners, any number of lanes, any assignment of messages to lanes and of
streams to groups, any batch size and cap, and any bound on failures: the
assumptions are `LeaseAssumption`, `MailboxAssumption`, `MaxVersionAssumption`,
`EventLogAssumption`, `ProjectionAssumption`, `ActivationAssumption`,
`CheckoutAssumption`, `SettlementAssumption`, `DispatchAssumption` and
`QuotaAssumption`, which say no more than that the
constants have these kinds, that a batch is not empty, that two workers do
not share a group, and that a counter's row is kept for longer than its window
and the lag of a request.

| Theorem | In | Property | Establishes |
| --- | --- | --- | --- |
| `EffectsOnce` | `Mailbox_proofs` | `ExactlyOnce` | For any number of workers, lanes, messages and failures and any cap and batch, a message's effects are committed at most once, and exactly when its row says COMPLETED. |
| `MailboxKeepsPromise` | `Mailbox_proofs` |  | The mailbox implements the abstract OnceDelivery: every step is one the promise allows, or leaves what a sender observes unchanged. |
| `FenceHolds` | `Mailbox_proofs` | `NewestBeliefCommits` | Whoever commits a delivery holds the newest claim of its lane; no other worker believes in a later one. |
| `MailboxInvariant` | `Mailbox_proofs` |  | The inductive invariant under the three above: types, beliefs that never run ahead of the registry, and no authority held by two workers. |
| `TypesHold` | `Mailbox_proofs` |  | Every variable of the mailbox keeps its type. |
| `AuthorityIsUnique` | `Mailbox_proofs` | `NoSharedAuthority` | No two workers ever believe in the same version of a lane, in the mailbox with every drain step, crash and steal. |
| `BeliefsStayBehind` | `Mailbox_proofs` |  | A believed version is never ahead of the registry, and whoever believes in the current one is the owner. |
| `OrderInvariant` | `Mailbox_proofs` |  | The inductive invariant of delivery order: a batch knows every deliverable row below its own rows, or that row came late. |
| `DeliveredInOrder` | `Mailbox_proofs` | `HeadOfLine` | A row waits behind a completed row of its lane only if it became deliverable below a position already visible. |
| `CheckpointHolds` | `Mailbox_proofs` | `CheckpointIsHighWater` | A lane's checkpoint is the highest position completed in it, although late rows complete out of position order. |
| `RebalanceInvariant` | `Lease_proofs` |  | The inductive invariant of the rebalance: the registry's and the bounds of the census numbers a worker carries. |
| `CensusTypesHold` | `Lease_proofs` |  | The fair share is always a number of lanes and never divides by zero, although its counts come from different statements. |
| `StealsKeepAuthorityUnique` | `Lease_proofs` | `NoSharedAuthority` | Thieves that decide on stale counts never share an authority. |
| `ProjectionInvariant` | `Erasure_proofs` |  | The inductive invariant of the projection workers over the log: a checkpoint is the position of a fact that was visible, and a batch has no gaps that are not late. |
| `CheckpointsHideNothing` | `Erasure_proofs` | `NothingBehindCheckpoint` | Whatever a group's checkpoint has passed was folded, given up, or committed late. |
| `ClosedGateIsSafe` | `Erasure_proofs` |  | While the idle gate is closed, a worker's groups have nothing pending but what was committed late. |
| `ErasureKeepsRetention` | `Erasure_proofs` | `KeepsRetention` | Erasure implements Retention: a group deals with its facts in the order of the log, once and without gaps but for what was late, and a stream that expires once is erased whole, with one receipt, after the groups that had a row. |
| `ErasureTypesHold` | `Erasure_proofs` |  | Types hold and the engine's cursor never runs ahead of the sequence, with or without checkpoint rows. |
| `OneReceipt` | `Erasure_proofs` | `ReceiptIffErased` | Of streams that expire once: a receipt is recorded exactly when the rows are deleted, however often passes die. |
| `ErasureWaits` | `Erasure_proofs` | `ErasedWereFolded` | Of streams that expire once: what is deleted up to the expiry was folded, given up or late in every group that had a checkpoint row. |
| `CheckoutTypeCorrect` | `Checkout_proofs` |  | Every variable of the checkout keeps its type. |
| `PlacedOrdersArePaid` | `Checkout_proofs` | `PlacedIsPaid` | For any number of attempts, lanes, sends and faults: an order is born only when its intent was authorized and the log says so. |
| `LanesPlaceOnce` | `Checkout_proofs` | `OneOrderOfALane` | Of the attempts at one cart that share a lane at most one becomes an order, though the run is read before it is written. |
| `RunRowFollowsOrder` | `Checkout_proofs` | `RunFollowsOrder` | The row of the cart and the status of the cart agree with the orders born. |
| `CheckoutKeepsPurchase` | `Checkout_proofs` | `KeepsPurchase` | Checkout implements Purchase: no card is charged before its attempt is on record, no attempt of a lane goes on once one became an order, and the first order closes the cart for good. |
| `ActivationInvariant` | `Activation_proofs` |  | The inductive invariant of the cache: while no append has slipped into an erased stream, of the contents the log has had each has a version of its own, and what a delivery folds over, promotes or puts is one of them. |
| `CacheTypesHold` | `Activation_proofs` |  | Every variable keeps its type, and the cache holds at most one set of rows. |
| `CacheHoldsLog` | `Activation_proofs` | `HeldWasLog` | For any workers, writes, erasures and failures: what the cache holds the log once was, all of it and nothing else. |
| `ObsoleteNeverReturns` | `Activation_proofs` | `ObsoleteStaysOut` | What an invalidation dropped as out of date is not held again, unless a put came after an invalidation its lookup had not seen. |
| `VerdictsAreFresh` | `Activation_proofs` | `VerdictIsFresh` | Every verdict rests on what the log was during its own delivery, although entries of the cache may be out of date and the guard compares versions only. |
| `QuotaInvariant` | `Quota_proofs` |  | The inductive invariant of the counters: who claims knows a recent time, the row of a number holds its newest grant, and a row that is gone was gone for longer than any request is old. |
| `QuotaTypesHold` | `Quota_proofs` |  | Every variable of the counters keeps its type. |
| `LadderHolds` | `Quota_proofs` | `LadderIsKept` | For any ladder, lag and number of deliveries at one time: within a window of a number, a send keeps the cooldown after every earlier one. |
| `AnswersHold` | `Quota_proofs` | `AnswersAgree` | The claim, the look at the edge, the reference and the countdown of a refusal agree on every row at every time, for any window, limit and ladder. |
| `ThievesKeepToTheirShare` | `Lease_proofs` | `StealsWithinShare` | For any workers, lanes and disturbances: whatever became of the counts a thief decided on, by its steal it comes to have no more live lanes than the share it counted, nor more than half of them all. |
| `SendsArePaid` | `Quota_proofs` | `EverySendIsPaid` | The platform's allowance pays for sends and for nothing else, however many requests claim at a time and whatever fails between the claims and the call. |
| `AllowancesMeet` | `Quota_proofs` | `AtMostTwoAllowances` | For any windows, limits, lag and number of deliveries at one time: no interval as long as a window of a counter meets more than two of its allowances. |
| `SettlementInvariant` | `Settlement_proofs` |  | The inductive invariant of the settlement and the refund: of whatever legs, deliveries and reports are in hand, the log has what they rely on. |
| `SettlementTypesHold` | `Settlement_proofs` |  | Every variable keeps its type: a leg never looks for a first trigger where there is none, and no worker ends a delivery of an empty lane. |
| `MoneyFollows` | `Settlement_proofs` | `MoneyFollowsOrder` | For any runners, replays and answers of Stripe: money is captured only of an order that was handed over, and a saga lets go of it only of one that was aborted. |
| `AppendedOnce` | `Settlement_proofs` | `RecordedOnce` | What a saga appends is appended once, and so is what Stripe reports of it, although legs and reports are repeated and overlap. |
| `RunTells` | `Settlement_proofs` | `RunFollowsLog` | The run's row never claims what the log does not say, and says it all unless a leg that was late has opened it again. |
| `DecidedOnce` | `Settlement_proofs` | `OneDecision` | Unless a leg reopened the run or the mailbox gave an approval up, the refund is decided once, refunds one amount at most, and none that is not approved. |
| `SettlementKeepsEscrow` | `Settlement_proofs` | `KeepsEscrow` | The saga implements its abstract specification: every statement of a leg, of the lane, of Stripe and of a webhook, a crash and the call of a worker that lost its lane included, is one step of the escrow or none. |
| `DispatchInvariant` | `Dispatch_proofs` |  | The inductive invariant of the dispatch: of whatever legs are in hand, what they will write has happened, and the walk went through the channels in rank order. |
| `DispatchTypesHold` | `Dispatch_proofs` |  | Every variable keeps its type: a leg never begins without a trigger, and no row has a status or a rank that is not one. |
| `CouriersKeepLifecycle` | `Dispatch_proofs` | `CouriersMoveLegally` | Whoever writes to the stream of the job and in whatever order: it is born once, held by one courier at a time and moved along the declared lifecycle. |
| `WalkGoesInOrder` | `Dispatch_proofs` | `WalkInOrder` | For any number of channels: they are offered the job in rank order with none left out, the row claims no offer that was not made, and the dispatch fails only at the end of the walk. |
| `RunTellsJob` | `Dispatch_proofs` | `RunFollowsJob` | What the row tells has happened, whichever of the overlapping legs wrote it last. |
| `DispatchKeepsErrand` | `Dispatch_proofs` | `KeepsErrand` | The dispatch implements its abstract specification, for any walk and any runners: every statement of a leg, a crash, a replay and an overlap of legs, and every fact of riders, partners and operators is one step of the errand or none; nobody takes a job another has, and the run goes on from what it told unless a leg took it back. |

`BeliefIsBehind`, `KeepsPromise`, `GateMeansDrained` and the type invariants are stated
by their theorems and checked by no run of their own.

### The arguments

**One authority** (`Lease_proofs`). That two workers never share an authority
is not inductive: a claim hands out `version + 1`, which could be what somebody
already believes in. The missing half is `BeliefIsBehind`: no belief is ahead
of the registry. Together they are preserved by every move of the registry,
and both compositions cite the same lemmas.

**A thief keeps to its share** (`Lease_proofs`). A steal acts on counts that may
be old, its own and the victim's. Of the victim's nothing survives, and several
thieves may have counted the same one. Of its own this does (`BidCounts`): between
its first census query and its steal a worker claims nothing and sends no
heartbeat, so that it can only lose live lanes, whatever others do. `StealsWithinShare`
follows, one lane at a time, and half of the lanes comes with it: the share is
`Width \div k`, and if some worker has more lanes than it, `k` is not 1.

**Effects once** (`Mailbox_proofs`). The proof never looks at the fence: of a
message's status only the moves matter, `COMPLETED` is entered from `RECEIVED`
alone, in the transaction that raises the counter, and is never left. A
definition `StatusStep` says what any step may do to one row; each action is
shown to be one, and one step of that kind is shown to be a step of
`OnceDelivery`. The fence is a separate theorem about *who* commits.

**Order** (`Mailbox_proofs`). The hard case is a batch that was read long
before its rows are handled. The invariant `BatchKnows` says that a row which
is deliverable now, below a row of somebody's batch, is in that batch too, or
came late. A row that lands in time is above everything visible, so it cannot
slip below a batch; the head of the batch is then the head of the lane, and
committing it breaks neither `HeadOfLine` nor the checkpoint.

**Checkpoints** (`Erasure_proofs`). The log first: positions are drawn once, no
one has seen the position of an open fact, and the head of the log never goes
back, although erasing deletes rows, because the receipt is newer than what it
deletes. Then the workers: a checkpoint is always the position of a fact that
*was visible*, so a fact that commits below it is below the head and hence
late; a batch has no gaps that are not late, so the new checkpoint passes
nothing over; a head recorded by the gate is not the position of an open fact,
so what lands at or below it is late too. These are `GroupInv` and `WorkerOK`,
preserved by the log's steps under any worker state (`LogMovesUnderWorkers`)
and by each of the worker's statements.

**Erasure** (`Erasure_proofs`). The engine's bound was at most every tracked
checkpoint when it was computed, and checkpoints only grow; with
`NothingBehindCheckpoint` everything of the stream up to the expiry was dealt
with. For receipts: an expiry in the engine's hand is still committed, since
nothing else erases its stream. Both need that a stream expires once
(`OneExpiry`): with a second expiry beyond the bound, the first one's deletion
takes the second along. The code gives that: the recorder appends
`OrderExpired` only to a stream that has none
(`application/src/commands.rs:1093`), and `OrderExpired` is the only trigger
(`deletion_policy.rs:42`).

**One order of a lane** (`Checkout_proofs`). The run is read before the
gateway is called and written after it, so what keeps two attempts of one lane
apart is neither that read nor the write alone. `AwaitingExcludes`: while the
row awaits the payment of an attempt of a lane, no attempt of that lane has
become an order. `WorkExcludes`: nor has one while the lane is delivering a
`PlaceOrder` beyond its first read, or the authorization of the run it found.
A birth needs the row to await payment, and the lane that brings it is the only
one that could be at work for its attempts, so each of the two keeps the other.
That an order is paid for rests on the reports (`ReportsAreTrue`) and on the
copies chained to the lanes (`LanesAreTrue`) saying what Stripe did, through
redelivery and reordering.

**Workers and engine keep a retention** (`Erasure_proofs`). `Retention` has no
ticks, checkpoints, gates, tombstones or cursors: facts with a place in the log,
what each reader has dealt with, and receipts. A fact comes behind all that are
there or is late, and that is the model's `late`, for a commit that is not
behind the head is below it. A batch is one step of its group: it is past the
checkpoint, and what was dealt with is not (`GroupInv`), so nothing is dealt with
twice or out of order; what lies before the batch is behind the checkpoint, and
what lies within it is in it, or late (`BatchOK`). That it holds while the log moves
and while the engine erases facts of the batch in hand is what `WorkerInv` is for.
An erasure is one step too: the DELETE, the receipt and the cursor commit
together, the receipt is the first (`ReceiptIffErased`), and the groups that had a
row are past the expiry (`EngineInv`). The promise does not say that a stream that
was erased stays empty: an append that was let in while a tombstone of a pass
that died stood there may commit after the DELETE.

**A version tells the contents** (`Activation_proofs`). The guard, the promotion
and the unique index all compare versions, and what matters is contents. The
invariant says that the log never had two contents of one version: it grows by
one version at a time, and an erased stream is not born again. The one step
that breaks this is an append still open under the DELETE, and `gapped` says
that it happened. Given that, an entry of the log's version *is* the log, an
entry of the version a promotion was folded from *is* what it was folded from,
and a promotion's result is out of date only if what it extends was (the last
clause of `InHand` at `promote`), which is what carries `ObsoleteStaysOut`
over an invalidation between a commit and its promotion.

**The ladder** (`Quota_proofs`). A claim compares its own clock with the last
grant of the row, and clocks may disagree, so what is needed is that the row
*has* the newest grant. Within a window it has: a claim is admitted only at or
after the last one. Across windows it has because the last grant lies within its
window, so a claim that opens the next is later (`RowIsNewest`); and across a
sweep because a row is kept for longer than a window and a lag, so that no
request still knows a time before the grants that are forgotten (`SweptIsOver`,
from the last conjunct of `QuotaAssumption`). That the array of the statement,
indexed from 1 and NULL when it is empty, is the reference's ladder is
`SqlLadder`, which `AnswersHold` rests on too.

**Two allowances, and every send paid** (`Quota_proofs`). Both count grants, so
both need facts about a sum over time. `SumBefore` sums a counter's grants up to
an instant, and all that is asked of it is that it starts at 0 and adds one
instant at a time (`SumBeforeIs`). A sum never falls, stands where there is
nothing to add, and one grant more raises exactly the sums beyond it
(`SumGrows`, `SumStands`, `SumAdds`). These are inductions over the naturals,
each for a set that is named in the proof: `SetInduction` derives that much from
the well-foundedness of `<`. For `AtMostTwoAllowances` the strengthening is
`WindowPays`: since the window of the row opened there were at most as many
grants as its count, and no interval that reaches back from the opening, and is
shorter than a window, met more than one allowance before it. A claim that goes
on with a window keeps to its limit; one that opens the next finds the last
one's start too far back for an interval to meet both it and a third. For
`EverySendIsPaid` every claim of the platform's counter is told apart from those
of a number's, and a delivery between its third claim and its call is counted
in `Handing`.

**The checkout keeps a purchase** (`Checkout_proofs`). `Purchase` has no lanes to
drain, deliveries, reports or rows: attempts, their money, what is on record of
it, the orders, whose the cart is and what the run tells. Its guard on every step
that goes on with an attempt, that no attempt of the lane became an order, is
one the code does not evaluate at that step: it reads the run in one statement,
calls Stripe in another and commits in a third. `WorkExcludes` gives it at each. Its
guard on a charge, that the attempt is on record, is not evaluated either: the
customer confirms at Stripe. `PurchaseInv` gives it, for the secret that a card is
confirmed with leaves the server only after the commit (`SecretsAreOnRecord`);
and a commit, a record and an abandoned run each rest on what happened before in
another place (the call, the card, the fact that was chained to the lane), which
are its other three parts.

**The log carries the money** (`Settlement_proofs`). None of the five properties
is inductive, for a leg was admitted long before it acts. What lasts is the log,
which only grows: a leg that has come as far as its call has its trigger in it
(`LegInv`), so a capture has its delivery and a release its rejection or
cancellation, whoever replays it. What Stripe did is known by its reports: of
each change one is on its way or recorded, never both (`Reports`), which is what
makes a repeated report and an overlapping leg record nothing twice. A decision
rests on the run it read: a delivery in hand still acts on the status it
expected unless `reopened` says that a leg was late (`RunInv`). And an amount that
Stripe refunded, or that a worker which lost its lane may yet ask for, is in the
log as approved, or is the one that the head of the lane is approving
(`Approving`): with one decision at most, one amount at most.

**The sagas keep an escrow** (`Settlement_proofs`). `Escrow` is the same money
without runners, legs, lanes and webhooks: what became of the order, where the
money is, what was paid back, and what the records say of each. The mapping
reads it from the log, Stripe and the history variables, and the proof goes by
what a step records. A step that records nothing changes at most one of three
things: the intent, as the order's end in the log says or by the lapse of the
hold; the amounts refunded; or whether the refund may be decided again. A step
that records something changes neither of them, and records what happened. Two
facts are needed beyond the invariant above (`EscrowInv`): an amount that is on
record as approved or refunded, that is reported, or whose approval is about to
be committed, *was* refunded by Stripe, since the call precedes the commit; and
nobody is about to ask for a refund that was not opened. That a payment finds
the refund undecided is where `Approving` pays: if the decision were recorded,
its amount would be refunded already.

**What a leg will write was right when it read the row** (`Dispatch_proofs`).
The row is one for all legs and its last writer wins, so the row alone proves
nothing. `LegOK` says of a leg at each of its statements what it may count on:
that the rank it will offer follows a rank that was offered, that it will fail
the dispatch only after every channel was, that what it will put in the row
has happened (`RowTells`). Each of these stays true while others move, since
offers are not taken back and facts stay in the log; so an overlapping leg may
put the row back, but never to something that did not happen. That the job
moves legally rests on none of it: each handler folds the state it moves from in
the statement that appends, and the only writer that does not is excused by
the property, and is the subject of `dispatch_failed`.

**The dispatch runs an errand** (`Dispatch_proofs`). `Errand` has no runners,
legs, positions or rows read earlier: a job with one courier at a time, the
channels that were asked, and what the run tells. The proof goes by what a step
touches. An append moves the job along an edge of the lifecycle, and who holds
it with it: a courier takes it from nobody and gives back only its own, because
the job that can be taken was just born or given back (the first part of
`ErrandInv`); the leg that ends the walk is the exception the source makes, and
`Errand` lets it fail the job under whoever has it, once every channel was
asked (`Exhaust`). A call asks the channel after the one before it. The row is
the hard one: a leg writes what went on from the row *it read* (the second part
of `ErrandInv`), and by then another row may be there. Where that happened the
run was taken back, and `behind` says so; otherwise what it tells goes on from
what it told, rank by rank, and in either case it has happened.

What the `CHOOSE` of a least or greatest position stands for (`MinExists`,
`MaxExists`) comes from the well-foundedness of `<` on the naturals too.

### Only model-checked

Liveness (`Converges`, `MeetsPromise`, `ReleasedIsErased`, `EventuallyFolded`,
`EventuallyAnswered`, `AuthorizedIsOrdered`, `EndedIsSettled`,
`ApprovedIsRefunded`, `WalkEnds`, `DeliveryClosesOrder`) is TLC's alone: the
proof system handles neither fairness with `ENABLED` nor the well-founded
arguments convergence needs. Every other
invariant and action property of the runs is proved.

## What is left out

- The order of lanes within a drain, so a row whose handler always panics and
  starves the lanes after it is a hazard without a property.
- A second deletion engine. The server can run one behind the same flag as the
  CronJob; whether both may run is a question of deployment.
- Transactions that append several facts, and deliveries over several streams.
- The `LISTEN/NOTIFY` wake-ups, which only shorten a wait that ends on a timer. The
  idle gate of the saga runner (`last_head`) appears as what nobody owes a late
  trigger, and not as a variable.
- The tombstones a projection's scan passes: they move a checkpoint past positions
  where only late facts can come.
- Declaring a reminder id again, moving a pending one, and the retention that
  makes a message id new after 90 days.
- The sagas of cart binding and reclamation: the first re-keys a cart when its
  customer is identified, the second turns a resolved claim into credit; each
  is one leg with one guarded append.
- In the modelled sagas: prices, credit, opening hours, acceptance timeouts
  (behind a flag that is off), collection orders, and the routing of an order's
  completion through its lane (off by default).
- Aggregates other than Payment, Order and DeliveryJob, queries, read-model
  stores, reservations, the adapters' HTTP, web and desktop clients,
  the Sirene import and generated code: sequential, or I/O, or guarded by a
  constraint of the database. `PROJECT.json` has the reason for each.

## The plan

Done, in this order: `Lease` with `Rebalance`; `OnceDelivery` and `Mailbox`;
`EventLog`, `Projection` and `Erasure`; `Activation`; `Settlement`, `Checkout`
and `Dispatch`; `Quota`; the proofs; `Escrow`, which `Settlement` refines,
`Errand`, which `Dispatch` refines, `Purchase`, which `Checkout` refines, and
`Retention`, which `Erasure` refines. What a next step would take up, most useful first:

1. The fair share's safety in numbers: how often a lane can change hands between two
   disturbances, as a function of the lanes and the workers; so far `MaxVersion` is seen to suffice.
2. An abstract actor that `Activation` refines: one state per actor, changed
   by one verdict per message, with no cache.
3. The order of lanes in a drain and a handler that always panics: liveness of
   the other lanes.
4. Reminders: due times, the rescheduling policies, ids declared again.
5. Two engines over one ledger; the supervision ledger's second transaction.
