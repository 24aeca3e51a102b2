# MetaMarket in TLA+

A verification development of MetaMarket, a marketplace that is used through
chat: buyers and vendors write to one WhatsApp number, the *conversation
operating system* keeps their objectives as workflows, requests are fanned out
to vendors, vendors pay credits to be shown, and credits are bought by bank
transfer. Everything runs on several identical pods over one Postgres, one
Redis and BullMQ.

Paths are relative to the repository: the program is under `src/src/`, the
schema is `src/prisma/schema.prisma`. `PROJECT.json` maps every definition to
the lines it stands for.

Reading order: `CreditLedger`, `WalletLedger` and the part of
`EventOutboxProofs` about it (small and complete), then any of the others.
`EngineStep` before `VendorOnboarding` and `SearchWorkflow`,
`CapabilityMatching` before the latter.

## 1. Inventory

### 1.1 Components with state, and what makes them correct

| Component | State | Operations | Hard part | Correct when |
|---|---|---|---|---|
| Credit wallet (`prisma-wallet.repository.ts`, `wallet.service.ts`) | `credit_wallets.balance_credits`, `credit_transactions` (unique `provider_reference`) | `creditAtomically`, `debitAtomically`, `grantAtomically`, `create` | concurrent sessions on one row, retries, rollback | a reference moves a balance once; never below zero; balance = sum of the ledger; a refusal is true |
| Payments (`paystack-webhook.controller.ts`, `payment-processor.service.ts`, `prisma-payment-notification.repository.ts`) | `payment_notifications` status and attempts | `handle`, `processPending`, `credit`, `fail`, `sweep` | redelivered webhooks, work claimed twice, partial failure after the commit | every recorded payment is settled; credited once; announced once; parked only for a reason; a settled row is not processed again |
| Outbound queue (`durable-channel-notifier.ts`, `outbound-delivery.sweeper.ts`, `prisma-outbound-message.repository.ts`) | `outbound_messages` status, attempts, `next_attempt_at` | `send` (enqueue, inline attempt, settle), `drain`, `purge` | the inline send and the sweep have the same row; leases; lost outcomes | a queued reply is delivered or parked for a reason; duplicates have a cause; order within a conversation |
| Fulfilment (`request-distribution.service.ts`, `vendor-response-handler.service.ts`) | `request_deliveries`, `customer_requests`, the vendor's wallet | `distribute`, `recordVendorResponse`, `sweepTimeouts`, selection, completion | a paid answer is four awaits long; timeout sweeps, which may overlap, write the same rows | who was asked is shown only if charged; charged means shown; what closed a delivery is heard of, once; every delivery closes |
| Message intake (`message-ingestion.service.ts`, `conversation-context.manager.ts`, `redis-distributed-lock.adapter.ts`) | `inbound_messages`, the conversation lock in Redis | `handle`, `resumeAfterMedia`, `runTurn` | at-least-once webhooks, a lease that is never extended | one turn per message; turns of a conversation exclude each other; every stored message is answered |
| Media batch (`media-processing.processor.ts`, `redis-media-batch-tracker.ts`) | BullMQ jobs, a Redis set per message, `artifacts` | `process`, `markSettled`, `clear` | at-least-once jobs, the last of several parts | the turn starts when the last part settled, and not before |
| Workflows (`turn-processor.service.ts`, `workflow-manager.ts`, `workflow-engine.ts`, `prisma-workflow.repository.ts`, `workflow-expiry.sweeper.ts`) | `workflow_instances`, `conversations.active_workflow_id` | resume, restart, cancel, start, engine loop, hand-off, finalise, expire | separate writes of row and focus; decisions from a registry read at the beginning of the turn; the sweeper | one open instance per exclusive type; finished stays finished; expired rows close; focus names no finished workflow |
| Event outbox (`outbox-event-publisher.ts`, `outbox-relay.service.ts`) | `outbox_events` published and attempts | `publishAll`, `relayPending` | dispatch at write time and by several relays; beliefs are also written by a vendor's turn | what is marked published was carried to every subscriber; every recorded event is served; a vendor is welcomed once; beliefs count the evidence once |
| Evidence (`evidence-processor.service.ts`, `prisma-evidence.repository.ts`) | raw events, records, aggregates | `onMarketplaceEvent`, `processBacklog`, `reaggregate` | three steps without a transaction, several pods | no event is marked without its records; a second copy has a cause; an aggregate equals the replay of its records; the backlog empties |
| Model providers (`llm-provider.service.ts`, `circuit-breaker.ts`) | breaker state per provider, in memory | `complete` with retries and failover | concurrent callers of a half-open breaker | one probe at a time; a recovered provider is used again |
| Workflow definitions (`triage`, `buyer-search`, `credit-recharge`, `vendor-onboarding`) | state and data of an instance, patched step by step | the handlers, the services they call, the hand-off | what a message means; retries after a step half done; two workflows in one turn | a turn answers once and moves only as declared; a search asks once; the buyer learns how many accepted; a listed vendor is complete and announced once |
| Capability matching (`capability-matching.service.ts`, `demand.ts`, `hybrid-knowledge-graph.ts`) | none; reads DNA, evidence, taxonomy | `match`: retrieve, graph match, suppress, rank, cut | lookups that fail, limits applied before filters | who holds what was asked is found, whatever lookup fails |
| Conversation memory (`conversation-context.manager.ts`, `prisma-conversation.repository.ts`) | history, memory facts | `load`, `rememberFacts`, `touch` | read-modify-write | a weaker fact never replaces a stronger one |

### 1.2 Components without state of their own

Payload mappers and signatures (both webhooks), channel rendering and text
splitting, media adapters, understanding (continuity, intent, semantics: answers
of language models), the arithmetic of capability beliefs, taxonomy import,
response composition, command line tools, configuration and wiring. Each is
in `PROJECT.json` with its files and the reason it is not modelled, or not yet.

### 1.3 Interactions

```
 WhatsApp --> webhook --> ingestion --(lock)--> turn processor --> workflow engine
                 |            ^                    |    |               |
                 |       media jobs                |    |               v
                 v                                 |    |         fulfilment ---> wallet
             BullMQ ------------------------------ |    v               |            ^
                                                   |  outbox/evidence <-+            |
                                                   v                                 |
                                            outbound queue --> channel    payments --+
                                                                             ^
                                                              Paystack ------+
```

* The vendor's *turn* runs fulfilment, which calls the wallet: `Fulfilment` uses
  `CreditLedger`'s `Post` for the debit.
* A payment's worker calls the wallet: `PaymentProcessor` uses the same `Post`.
* `WalletLedger` shows that the wallet's transactions implement `Post`, so the
  two may treat the debit and the credit as one step.
* `SearchWorkflow` extends `CapabilityMatching` for whom a query finds, and
  leaves the paid answer of a vendor, `Accept` there, to `Fulfilment`.
  `VendorOnboarding` ends in `seller.onboarded`, with which `EventOutbox` begins;
  the acceptances of `Fulfilment` are the other events there, and the statements
  that an onboarding turn has observed the other writer of beliefs; what its `capture`
  subscriber stores is what `EvidenceBacklog` sweeps; an aggregate is the
  constant `Evidence` of `CapabilityMatching`.
* `WorkflowLifecycle` models the rows of a conversation with any handlers,
  `VendorOnboarding` and `SearchWorkflow` the registered handlers with as few
  rows as they need; `EngineStep` is what the three have in common.
* The reply of a turn goes through the outbound queue; `ConversationTurn` and
  `WorkflowLifecycle` stop at "handed to the queue", `OutboundQueue` goes on.
* `ConversationTurn` shows when turns of a conversation exclude each other;
  `WorkflowLifecycle` assumes that they do, and `Fulfilment` lets them overlap
  (counted, see below), since this is where money is at stake.

### 1.4 The behaviours that are hard

Listed one by one, each at its line, under `hazards` in `PROJECT.json`:
interleaved database sessions, claims with a lease or an age limit, crashes
between two writes, calls whose outcome is lost, redelivered webhooks and jobs,
decisions from state read earlier, caps and budgets, and everything that must
eventually be settled.

## 2. Modules

| Module | Models | Size of the instance |
|---|---|---|
| `CreditLedger` | what the wallet promises its callers (abstract) | - |
| `WalletLedger` | the three wallet transactions as concurrent sessions | 2 wallets, 4 references, 2 sessions |
| `PaymentProcessor` | webhook to credits | 2 payments, 2 workers, 2 deliveries each |
| `OutboundQueue` | reply to user | 2 messages of a conversation, 2 pods |
| `Fulfilment` | ask, paid answer, silence | 1 delivery, 2 turns, 2 sweeps, 2 payments |
| `ConversationTurn` | webhook to reply, media, lock | 3 messages (one with 2 parts), 2 runs at a time |
| `WorkflowLifecycle` | routing, engine, hand-off, expiry | 4 rows of 3 types |
| `EventOutbox` | outbox row to subscribers: capture, grant, promotion; statements | 2 events, 1 statement, 1 pod |
| `EvidenceBacklog` | raw event to records to aggregate | 3 events, 2 pods, batches of 2 |
| `LlmFailover` | circuit breakers and the failover loop | 2 calls, 2 providers |
| `EngineStep` | what the engine makes of a handler's result | - |
| `VendorOnboarding` | the onboarding definition and its services | 3 statements, 1 vendor |
| `CapabilityMatching` | whom a search finds, as a function | 4 vendors, 3 bricks, 3 segments |
| `SearchWorkflow` | triage, buyer search, recharge, hand-off | the same market, 2 requests |
| `PaymentProcessorProofs`, `OutboundQueueProofs`, `FulfilmentProofs`, `WorkflowLifecycleProofs` | theorems of one component | every value of the constants |
| `ConversationTurnProofs` | theorems of `ConversationTurn` and `VendorOnboarding` | every value of the constants |
| `EventOutboxProofs` | theorems of `EventOutbox` and `WalletLedger` | every value of the constants |
| `EvidenceBacklogProofs` | theorems of `EvidenceBacklog` and `LlmFailover` | every value of the constants |
| `SearchWorkflowProofs` | theorems of `CapabilityMatching` and `SearchWorkflow` | every value of the constants |

`MC*.tla` give the constants that a `.cfg` cannot write; a `.cfg` with another
suffix is one question asked of the same instance module.

### 2.1 Conventions

* A process (session, worker, turn, sweeper) has a `pc`. Its actions are split
  where the code awaits something another process can interfere with, and
  nowhere else. A local variable that outlives an await is a variable.
* A database write that does not look at the current row (`update ... where id`)
  is an unconditional assignment in the model; one with a condition or a row
  lock has it in its guard. Many properties depend on exactly this difference.
* Faults are actions of their own: *Throw* (an await fails), *Crash* or *Abandon*
  (the pod dies), *Lapse*, *Stall*, *BecomeDue*, *Age* (time passes at a bad
  moment). They are bounded by `MaxFaults`, `MaxTrouble` or `MaxBreaks`, and
  where a property has to know of them they are counted per entity (`doubt`,
  `disturbed`): "at most one, plus one for each thing that went wrong with it".
* Counters that the code only compares with a cap saturate at it.
* Components that share a proof module are specifications with no name in
  common, which is why `WalletLedger`, `LlmFailover` and `VendorOnboarding` prefix
  theirs (`WalletSpec`, `FailoverNext`, `OnboardingTypeOK`) and call the place of
  a process `place` or `phase` where the others say `pc`.
* A definition whose comment begins with "Mutant:" is not part of the model. It
  is a plausible bug in the definition after it, and documents what the
  properties are sensitive to; `mutants` in `PROJECT.json` pairs them.

### 2.2 CreditLedger and WalletLedger

`balance` is `balance_credits`; `rows[r]` counts ledger rows with
`provider_reference` r; `rowLock` is the row lock of `SELECT ... FOR UPDATE`;
`seen` is the balance read under it. `Begin` is any caller; `LockWallet`,
`RefuseShort`, `RejectDuplicate`, `CommitRow` are the statements of the three
transactions, which have the same shape: lock, for a debit the check, insert,
increment, commit. `Abort` is a crash or a failed statement and rolls back.
`Answer` returns the outcome, after which the callers publish and notify.

`ImplementsLedger` is the refinement: `CreditLedger` with `posted` read as "has
a row". `Fulfilment` and `PaymentProcessor` use the abstract `Post` itself for
their debit and credit, over their own references; that their money then moves
as in `CreditLedger` is so by definition and is not a property.

### 2.3 PaymentProcessor

`status` and `attempts` are the row's; `claim[w]` is a worker's batch with the
attempts it read when claiming, because `credit()` decides from that copy.
`credit()` is `Resolve`, `CreditAtomically`, `SettleDuplicate`,
`PublishCredited`, `NotifyCredited`, `Catch`; `fail()` is `MarkFailed` and
`PublishFailed`. The model keeps which awaits the try block covers (`InTry`) and
which escape (`Uncaught`): `fail()` is returned from the try block without an
await, so its rejection ends the whole batch. `Age` reflects that
`releaseStale` goes by `received_at`: a row can be released the moment after it
was claimed, so that two workers have it in hand. Each judges the attempt budget
by the count it read when claiming (`Catch`), and `ParkedForCause` says that
nothing worth credits is parked before its attempts are spent all the same.

### 2.4 OutboundQueue

`pc[m]` is where the caller of `send` is with message m, `act[s]` where pod s's
sweep is, `claim[s]` its remaining batch with the attempt numbers it read,
`last[s]` the last text per conversation. `due` stands for `next_attempt_at <=
now`; a lease and a backoff are the same column, so claiming and rescheduling
both remove from `due` and `BecomeDue` puts back. If that happens while somebody
has the message in hand it is counted as trouble: the inline send has a 20 s
deadline against a first due time of 2.5 to 7.5 s, and a batch of 50 can outlast
the 60 s lease. `Transmit` says what an attempt may have done: a retryable answer
proves nothing was sent, any other failure may have reached the user.
`EnqueueFails` is the direct send of a reply that could not be written down; if
it was written and only the answer of the database was lost, the row is there
too and will be sent again, which is counted in `doubt`.

### 2.5 Fulfilment

`Check`, `Bill`, `Update`, `Publish` are the awaits of `recordVendorResponse`;
`Bill` is `billResponder` with the three answers of the debit, the balance check
before the uniqueness check as in the repository. `Begin` lets a second turn of
the same vendor run only as a disturbance (the lock lapsed). A sweep is one run
of `sweepTimeouts`: `FindStale`, `MarkTimeout`, `PublishTimeout`, with no
condition in the second. The method has no running flag, so the next interval may
start before a run is over, and every pod sweeps: `Sweeper` is a set of runs that
overlap freely. `overlaps` counts, per delivery, the runs that read it while
another had it, `dropped` the deliveries of a run that broke off.

Every delivery here is one that asks (`immediate: false`), since `distribute`
creates no other: `selected` is the empty list (179). A comment, a test and the
schema describe deliveries that are shown without being asked, unpaid if need be;
see `TopIsShown` in section 5. The branch of `billResponder` for a vendor that is
not found (365-374) is left out: nothing in the program deletes a vendor, and its
outcome is that of a short wallet, 'insufficient'.

### 2.6 ConversationTurn

A worker is a detached webhook handler or a BullMQ job. `Store` is the
deduplication; `Acquire`, `GiveUp`, `Reply`, `Release`, `MarkProcessed` are
`runTurn`; `MarkSettled` is the tracker's SADD and SCARD in one MULTI;
`CheckProcessed` is read outside the lock, as in the code. `Lapse` is the end of
a 30 s lease during a turn (`extendLock` has no caller). BullMQ is external:
jobs run at least once, a stalled one is queued again while the first run goes
on.

### 2.7 WorkflowLifecycle

One turn at a time, with expiry sweeps beside it; a `Sweeper` is one run of the
sweep, and runs overlap, on one pod or several. Routing (`Route*`) loads
the registry and picks; what it picks depends on a language model, so it is a
choice among the rows that `canResume`. Every write after that is an action in
the code's order: the focus, the row, the parked workflow, the created row, the
ceiling, each engine step, the dead letter, the cleared focus. `cur` is the
status in the turn's own copy of the instance and `seen` the statuses in the
registry it loaded: the code decides from both after they may be stale.
Statuses completed, cancelled and failed are one value, `finished`. `hopped`
is the `isHandoff` argument: a hand-over is followed once in a turn, so the
workflow it starts cannot hand over again (`MayHandOff`).

### 2.8 EventOutbox

`row` and `attempts` are the outbox table, `pub[p]` a `publishAll` under way on
pod p, `relay[p]` its sweep with the attempts it read. Every subscriber is
registered with `{ async: true }`, so emitting only queues it: `tasks` is the bag
of subscribers queued or running, each on a pod. An event is therefore marked
published when it is queued, not when it is served, and `Crash` takes the queue
along. `lost` records which runs of a subscriber failed or died. `Grant` and
`Welcome` are the onboarding grant, `AppendEvidence` and `ReplaceBeliefs` the
promotion of an acceptance: it appends a row with an id of its own (again on
each redelivery), reads the vendor's history and replaces the beliefs by what
it derived. A rejection promotes alike and is not modelled separately.

Beliefs have a second writer. When a vendor describes its business in a turn,
`observeStatement` ends in the same `recordEvidence`: `Observe` queues such a run
for a "statement", an event that no outbox row carries and nobody redelivers. The
conversation lock keeps two turns of a vendor apart, and no promotion out.
`crossed` records that two runs past their append overlapped, of either writer;
each may then replace what the other derived.

### 2.9 EvidenceBacklog

One vendor's raw events. `Sweep` is `processBacklog` statement by statement on
every pod, without locks: `FindUnprocessed`, `AppendRecords`, `MarkProcessed`,
`FindPairs`, then `LoadRecords` and `SaveAggregate` per subject. `records[e]`
counts copies of the records of an event, which are appended together with fresh
ids. `shared`, `cut` and `unsafe` record what two sweeps had at once, what a
sweep appended and did not mark, and which subjects one left behind. Of the score
only its being a number is kept: `Wilson` is the argument of the square root in
`wilsonLowerBound`, in integers.

### 2.10 LlmFailover

One process; breakers are in memory. A call runs without a pause from one await
to the next, so `GoOn` passes over every provider that refuses it and stops at
the first that admits it, in one step. `probing[c]` says that the circuit was not
closed when c was admitted: the code does not keep this, which is why the report
of a *straggler*, admitted while the circuit was closed, clears `probeInFlight`
for a probe still out. `straggled` records that; `OneProbe` holds but for it.
`Transient` and `Terminal` are how each of the three adapters classifies its
failures.

### 2.11 EngineStep, VendorOnboarding and SearchWorkflow

`EngineStep` has the rules of the engine that concern a definition: undeclared
moves, the resulting status, when the loop stops. A handler's action produces a
`result`, and `Commit` applies it: the row with its patch, the reply, the step
cap. A handler that throws leaves what its services have written.

`VendorOnboarding`: `HandleTurn` is the handler that the entry and all waiting
states share. `Extraction` is every outcome of the extraction its rules allow;
`observed` are the statements that reached the capability discovery; `announced`
counts `seller.onboarded`, on which the wallet grants credits.

`SearchWorkflow`: `Classify` and `AwaitDetail` are triage, `ConcludeWith` its
silent hand-off, `Handoff` the turn processor's (which a row that reached the step
cap forgets); `AskWhat`, `AskWhich`, `FindNobody` and `Distribute` are
`resolveDemand`; `delivered` and `accepted` are the deliveries of the request and
the revealed ones among them. The deliveries go to some of the cards: `distribute`
stops at its limit and skips vendors it cannot resolve. Of who accepted the buyer
is only ever told a number, and only by `PresentResponders`; every other reply
("Still waiting on the other suppliers") says none. So a result carries a `count`,
`NoCount` for most, and `told` is the last count that was sent. A turn may hand off
to onboarding, which takes it over and is not repeated here.

In both modules `TurnDies` is a turn that ends between a handler and the end of
the turn: the pod died, or a write failed, and then
`handleInternalProcessingError` apologises, in addition to what was said.

### 2.12 CapabilityMatching

`match` without state: `Understood` and `Expansion` are what the two stages of
demand understanding may answer, also when a model fails, and `Demands` what
results. What is looked up (`Targets`) is what was asked, its ancestors and the
expansion; the lookup of each capability's ancestors may fail by itself.
`FindByCapability` cuts each answer before unlisted vendors are filtered out, as
`findByCapability` does, and `Candidates` filters. `IsSuppressed` is the
cross-domain protection, which a failed segment lookup (`blind`) switches off: a
vendor who holds nothing of what was asked, whose trade does not connect to it
either, is left out of the ranking. `EvidenceOn` is the record on the subject, or
half the trust in the overall one, or a neutral score; `CombineRanking` is the
weighted sum in percent. Both cuts, of a lookup by confidence and of the ranking
by score, are `Firsts`: of those that tie at the limit any may stay. `Matches`
ranges over every lookup that fails, `Outcomes` over every demand besides.

`HoldersFound` speaks of vendors that the graph connects to everything that was
asked. Of the others the repository says two things, see `UnconnectedSuppressed`
in section 5.

## 3. Runs

Twelve runs; `evidence_score` expects a violation.

| Run | Checks | Distinct states |
|---|---|---|
| `wallet` | `BalanceNeverNegative`, `AppliedReturnedOnce`, `RefusalIsCurrent`, `ImplementsLedger` | 8,888 |
| `payment` | `AnnouncedOnce`, `ParkedForCause`, `RecordedIsSettled` | 301,428 |
| `outbound` | `SettledForCause`, `DuplicatesExplained`, `QueuedIsSettled` | 135,642 |
| `fulfilment` | `RevealedIsPaid`, `ChargedIsShown`, `EvidenceIsBounded`, `ClosedIsHeard`, `DeliveryCloses` | 251,678 |
| `turn` | `ExclusiveUnlessLapsed`, `TurnSeesAllParts`, `TurnsExplained`, `StoredIsTold` | 266,044 |
| `workflow` | `OneOpenPerType`, `FinishedStaysShut`, `ExpiredIsClosed` | 497,844 |
| `outbox` | `PublishedIsServed`, `WelcomedOnce`, `BeliefsExplained`, `RecordedIsServed` | 393,049 |
| `evidence` | `ProcessedHasRecords`, `DuplicatesExplained`, `AggregateExplained`, `CapturedIsProcessed` | 599,924 |
| `llm` | `OneProbe`, `RecoveredIsUsed` | 14,032 |
| `onboarding` | `AnswersOnce`, `ListedHasEvidence`, `AnnouncedOnce` | 36,245 |
| `search` | `AnswersOnce`, `EffectsOnce`, `RespondersTold`, `HoldersFound` | 910,722 |
| `evidence_score` | violation of `ScoresAreNumbers`: a score that is not a number | - |

Each module states its types as `TypeOK`. The runs leave it out, with
`BalanceIsLedgerTotal`, `CallReturns`, `CreditedIsPosted`, `TerminalNeverRequeued`
and `FocusNotFinished`: they hold on the same instances; every `TypeOK` and the
last three of the others are proved, and adding a line to the `.cfg` checks any
of them.

### 3.1 Bounds, and why they are enough

* **Two of each process.** The races here are between two parties over one row.
  A third session, worker or sweeper repeats one of the two roles. Where a
  module has theorems, they remove the bound for its safety properties: any
  number of sessions, workers, turns, pods and sweeps, of messages, deliveries,
  parts and events, and of faults.
* **wallet**: a funded wallet billed by two leads of which it affords one at a
  time, so that order, refusal and duplicate all occur; any reference may be
  attempted without limit, no counter is bounded.
* **payment**: the cap is 2 instead of 5 and the batch 2 instead of its
  constant: both are reached; two faults are enough for a throw after the commit
  followed by another on the last attempt.
* **outbound**: the cap is 2 instead of 8 and both messages carry the same
  text, so that the repeat check fires.
* **fulfilment**: every property is about one delivery, and two of them exceed a
  million states beside what they need: two turns, two sweeps that may overlap,
  two payments so that an attempt may find the wallet short, paid once or paid
  twice, and three faults, so that a fault may be blamed for one thing and
  another happen.
* **turn**: three webhooks for three messages give one redelivery or three
  messages; two tries instead of three; one trouble.
* **workflow**: two rows of an exclusive type are needed to break
  `OneOpenPerType`, the concurrent type lets two workflows be open for the
  ceiling (1 instead of 10) to archive, the step cap is 2 instead of its
  constant; one break and one expired row.
* **outbox**: a batch with one event of each kind and a statement of the same
  vendor beside it. One pod publishes, relays and runs turns: its relay already
  races its publisher, which makes events run twice, and the theorems speak of any
  number of pods. One fault, so that a property may blame it; two attempts instead
  of ten.
* **evidence**: a delivery and the acceptance whose signals share a subject, an
  event that bears none, batches of two of three events; one break.
* **llm**: a threshold of two failures, so that one success in between matters;
  two attempts; the calls repeat without a bound.
* **onboarding**: a generic, a contentless and a telling statement are the three
  kinds the code tells apart; the step cap is the code's; turns without a bound.
* **search**: the market has a weak holder with a record that its segment connects,
  a vendor settled in another trade, as weak a holder of one product and not
  connected to it (these two tie at the cut of its lookup), a convincing one and
  one not listed; lookups return two and two cards are shown, so that both limits
  bite; the triage and step caps are the code's; two requests, so that what a
  search half did can be done again; turns without a bound.

Deadlock is checked except in `turn`, `workflow`, `outbox` and `evidence`. There
the bounds on webhooks, rows and events, which are the model's, let it come to
rest: all work is done and nothing is left to happen.

### 3.2 Fairness

* Code that has begun goes on: weak fairness of a process's steps. Every await
  in the code has a timeout or is a local transaction.
* `@Interval` sweeps come round again (payments, outbound, fulfilment,
  workflow, outbox relay, evidence): weak fairness of the sweep's steps, the
  first one included.
* The event loop of a pod gets to its queued callbacks: weak fairness of `RunOn`.
* Time passes: weak fairness of `Age`, `BecomeDue`, `Expire` (of a dead lock
  holder's lease), `Elapse` (of a breaker's cooldown). Expiry of a workflow is
  not fair; the property speaks of rows that did expire.
* BullMQ picks up queued jobs.
* Nothing obliges users, vendors, Meta, Paystack or a model provider to act or to
  recover, and faults are never fair; their number is bounded, which is what
  "once the faults are over" means in a liveness property. `RecoveredIsUsed`
  speaks of a provider that is up from some time on.
* `onboarding` and `search` check safety only and state no fairness: what a
  turn must bring about is said of the moment it ends.

## 4. Proofs

TLAPS proves the following for every value of the constants, from the
assumptions named in the modules that declare them (`WalletLedgerAssumption`,
`PaymentAssumption`, `OutboundAssumption`, `FulfilmentAssumption`,
`TurnAssumption`, `WorkflowAssumption`, `OutboxAssumption`,
`EvidenceAssumption`, `FailoverAssumption`, `OnboardingAssumption`,
`MatchingAssumption`, `SearchAssumption`): types of the constants, that sweeping
pods, vendors and the parts of a message are finitely many, and what the
taxonomy looks like. Two theorems, about every turn answering once, have one
hypothesis more: `MaxSteps > 2`; the code's is 12.

Every safety property that a passing run checks, the refinement among them, is
the statement of a theorem. What the runs add is liveness, and that the
situations the theorems speak of do occur.

Every proof has the same shape. An inductive invariant (`IInv`, `WalletInv`,
`ChainInv`, `OnboardingInv`, `SearchInv`) is a conjunction of named parts; lemmas
show that every action keeps them; an invariance theorem puts them together, and
each property follows. Each of these invariants was checked on the instance of
the module's run before it was proved.

**WalletLedger** (in `EventOutboxProofs`). `WalletTypeCorrect`, `NeverNegative`,
`ReturnedOnce`, `RefusalCurrent`, `WalletRefinement` (the repository implements
`CreditLedger`). `BalanceNeverNegative` is not inductive by itself: a commit
subtracts on the strength of a balance read earlier. `WalletInv` strengthens it
with: a session in `locked` holds its wallet's row lock, and what it has seen is
the balance. Then the check made on `seen` is a check of the balance. For
`ReturnedOnce` it adds that a session about to return 'applied' is the only one
for its reference and has its row, and that nobody was told before.

**PaymentProcessorProofs.** `TypeCorrect`, `CreditedHonest`,
`AnnouncedAtMostOnce`, `NeverRequeued`, `ParkedSpent` (`ParkedForCause`). The
difficulty of
`AnnouncedOnce` is that several workers may hold the same notification. The
invariant (`AnnounceInv`) says that a worker at `publish` or `notify` has its
money in the ledger, that nobody has announced or told what it is about to, and
that no two workers are there for the same payment. The right to announce is
created by the one step that posts the ledger row, and a duplicate never gets it.
`TerminalNeverRequeued` follows per action: only rows that are received or
processing are claimed or released. For `ParkedForCause`, `ParkInv` says that a
worker's copy of the attempts never runs ahead of the row's, which grow up to the
cap; so a worker whose copy is spent is one whose row is.

**OutboundQueueProofs.** `TypeCorrect`, `NothingSettledWithoutCause`
(`SettledForCause`), `DuplicatesAreExplained` (`DuplicatesExplained`), for any
messages, texts, conversations, pods and batch size. `SettledForCause` needs what
an outcome rests on between the attempt and the write (`OutcomeInv`), what the
repeat check compares with (`LastInv`: that text has reached the conversation,
so a reply settled as a repeat is one the user has), and that a claim is at most
one attempt ahead of its row (`ClaimInv`), as a row is parked on the number the
sweep read. `DuplicatesExplained` bounds arrivals by one and the doubts about the
message; by itself it says nothing of attempts on their way. `CountInv` adds
them up: arrivals, a caller that may still send, sweepers that have it and have
not sent it, and a row that may still be claimed are together at most one plus
the doubts. Claiming moves a unit from the last to the third, a sent reply moves
it to the first, and only a lost outcome, a row that comes due in somebody's
hands or a row that was written although its enqueue failed makes a new one. For
the last `RowInv` says that a caller still composing has no row yet.

**FulfilmentProofs.** `TypeCorrect`, `PaidBeforeShown` (`RevealedIsPaid`),
`ShownOrExplained` (`ChargedIsShown`), `EvidenceBounded` (`EvidenceIsBounded`),
`HeardOrBroken` (`ClosedIsHeard`), for any vendors, deliveries, turns and runs of
the sweep. A turn that was paid for is at the write, with its fee in the ledger
(`PaidInv`). A charge that is not shown is of a turn about to show it or of a
delivery that something went wrong with: for this two turns on one delivery
count as a disturbance (`OverlapInv`), and a turn that has not paid, on an
undisturbed delivery, finds no charge of an earlier turn there (`UnpaidInv`):
whoever left one behind broke off or overlapped. Answers are
counted like arrivals above: while a delivery is open each turn on it may answer
it; once closed, only those past the check (`AnswerCount`). For silences,
`SilenceCount` adds the reports and the sweeps that have the delivery in hand: a
sweep that finds it open, beside none, is the first to add to them, since a
reported delivery is closed and stays closed (`ClosedInv`); one beside another is
an overlap. `ClosedIsHeard` is inductive beside those: whoever writes the status
last is the one about to publish it, and only a break ends it without.

**ConversationTurnProofs.** `TypeCorrect`, `LockExcludes`
(`ExclusiveUnlessLapsed`), `TurnAfterAllParts` (`TurnSeesAllParts`),
`TurnsAreExplained` (`TurnsExplained`), for any messages with any finite sets of
parts and any number of runs. `LockInv`: a turn whose lease has not run out holds
its conversation's lock; the token compared on release keeps a late one from
freeing another's. `RunInv`: what is settled has its artifacts, and a run past
the tracker found all settled. For `TurnsExplained`, `CountInv` counts what may
still become a turn. With e executions of media jobs to come and d parts missing
in the tracker, at most e - d + 1 of them find it full (`Left`): an execution that
settles a new part lowers both, one that settles a part again (a stalled job's)
lowers e alone, and the stall which made it was a disturbance.

**EventOutboxProofs.** `TypeCorrect`, `PublishedReachesSubscribers`
(`PublishedIsServed`), `OneWelcome` (`WelcomedOnce`), `BeliefsFollowEvidence`
(`BeliefsExplained`), for any events, batches, vendors and pods. `ServedInv`
extends the first from rows to what a publisher has dispatched and a sweep has
emitted and neither has marked yet; that a subscriber once reached stays reached
(`ReachedStays`) needs that a task leaves the bag only with its work done, or
lost. `WelcomeInv`: of the tasks about to welcome a vendor there is one, in a
single copy, and the vendor is granted and not yet welcomed; only the step that
inserts the grant's ledger row makes such a task. `BeliefInv`: a vendor whose
promotions and statements neither overlapped nor were cut short has at most one
past its append, which has seen every row, and without one its beliefs count the
rows.

**EvidenceBacklogProofs.** `TypeCorrect`, `NothingLost` (`ProcessedHasRecords`),
`TwiceForCause` (`DuplicatesExplained`), `ScoresFollowRecords`
(`AggregateExplained`), for any number of pods and breaks. None is inductive.
`AppendedInv` says that what a sweep is about to mark has its records.
`OriginInv` says where records come from: those of an event not yet processed
belong to a sweep about to mark it or to one that broke; two sweeps that have
the same event are known to share it; and a sweep about to append what has
records already is one of the explained cases. For the scores, `LoadInv` bounds
what a sweep has loaded by the history, which only grows, and `StaleInv` says
that an aggregate which differs from the history has a sweep that will show it
all of that, or a reason.

**LlmFailover** (in `EvidenceBacklogProofs`). `FailoverTypeCorrect`, `ProbedOnce`
(`OneProbe`), for any number of concurrent calls and any chain. That a second
call is turned away rests on the breaker's flag, which any report on the provider
clears. `ProbeInv` adds that the flag and the half-open circuit last as long as a
probe is out and nobody else has reported.

**WorkflowLifecycleProofs.** `WorkflowTypeCorrect`, `OneOpen` (`OneOpenPerType`),
`ShutForGood` (`FinishedStaysShut`), `FocusLeavesFinished` (`FocusNotFinished`),
for any rows, types, sweeping pods and bounds. A turn decides from copies,
`cur` and `seen`, while sweepers write beside it, so the invariant says what
the copies are worth. `LiveInv`: while a turn runs its row, nobody else finishes
that row, though a sweeper may archive it. `SeenInv`: what the registry calls
open is not finished, the turn's own row apart. `CoverInv`: as long as a row may
still be started from the registry, it misses no open row but the turn's own;
sweepers only close. With `AloneInv`, that no second row of the turn's type is
open, a row is created or reopened only where it is the one of its type.
`CoverInv` fails for a turn that may hand over twice, since the registry does not
know the row which the first hand-over started: that the code follows one
hand-over a turn is what `OneOpenPerType` rests on. `FocusInv` names the places
at which the focus may be on a finished row, all of them of the turn that
finished it.

**VendorOnboarding** (in `ConversationTurnProofs`). `OnboardingTypeCorrect`,
`ListedCanBeFound` (`ListedHasEvidence`), `AnnouncedWithListing`
(`AnnouncedOnce`), `OnboardingAnswers` (`AnswersOnce`, for `MaxSteps > 2`), for any
statements. `ProfileInv`: what the row and a result to be committed call the
capability has been before discovery and says more than a wish to sell, and
nothing is missing where the profile is created. `AnnouncedInv`: unless a turn
was cut, a vendor is announced with its listing, and a result that leads to
`CreateProfile` finds it not listed. `Fits` relates a handler's result to the state it ran in: the move is
declared, and it is silent only on the way to `CreateProfile`, which speaks; so a
turn makes two steps at most, and with room for a third the cap does not bite.

**SearchWorkflowProofs.** First of `CapabilityMatching`, with no state: a cut
keeps whom fewer than the limit rank as high as (`FirstsAre`); a listed holder of
what was asked is therefore retrieved by every lookup (`HolderRetrieved`), and one
that the graph connects is shown unless the cards are full (`HolderRanked`), which
is where the finiteness of the vendors is used. They give `HoldersAreFound`
(`HoldersFound`), for any taxonomy, beliefs, records and limits, whichever way
ties fall. Then of the turns: `SearchTypeCorrect`, `EffectsAreOnce`
(`EffectsOnce`), `PresentedAreTold` (`RespondersTold`), `SearchAnswers`
(`AnswersOnce`, for `MaxSteps > 2`). As above, `Fits` says that a result's move is
declared and that no silent state leads to a silent one. `DataInv` and `Sound` say
what the patch of a search contains when its state says it is waiting. `EffectInv`
accounts for the time between an effect and the row that records it: while the
result that made the request is still to be committed, the row's state says there
is none. `ToldInv` does so for the count the buyer was given: those presented grow
in one step of the turn and are counted in the next, so the row of a waiting
search, the result on its way to it and the message to be sent must agree.
`cut` marks the searches where one of these gaps was interrupted.

Model-checked only:

* All liveness (`RecordedIsSettled`, `QueuedIsSettled`, `DeliveryCloses`,
  `StoredIsTold`, `ExpiredIsClosed`, `RecordedIsServed`, `CapturedIsProcessed`,
  `RecoveredIsUsed`, `CallReturns`): it rests on fairness, and on ENABLED.
* `BalanceIsLedgerTotal`: a sum over the ledger needs induction over data. For
  the same reason the theorems about matching never evaluate `Coverage`; they
  hold for any score.
* The counterexamples of section 5, which are behaviours of an instance.

The modules declare no RECURSIVE operator, so that they stay open to proof.

## 5. What the model checker found

**A score that is not a number** (run `evidence_score`, quoted in `findings` of
`PROJECT.json`): two sweeps, or one that broke and its successor, record a
response twice; responses outnumber deliveries, and `wilsonLowerBound` takes the
root of a negative number.

Eight more things the repository says of itself and does not keep are stated in
the modules. No configuration lists them; put `INVARIANT` (or `PROPERTY`) and the
name into the module's `.cfg` and TLC shows the behaviour.

| Definition | Module | The code says | It does |
|---|---|---|---|
| `FailedNeverCredited` | `PaymentProcessor` | "Payment could not be credited" (`payment-processor.service.ts:320`) | a publish that fails after the commit (277) parks a credited payment as 'failed' |
| `SweepKeepsOrder` | `OutboundQueue` | "must not have its later messages delivered ahead of it" (`outbound-delivery.sweeper.ts:93`) | a message in backoff is not in the batch and holds nothing back (84); use different texts and one sweeper |
| `ChargedAcceptanceIsShown` | `Fulfilment` | "`duplicate` here is the crash-recovery path" (`request-distribution.service.ts:413`) | the retry is refused as short before it is recognised (`prisma-wallet.repository.ts:154`) |
| `TopIsShown` | `Fulfilment` | "If nobody can pay, the top-ranked vendor is delivered anyway, unpaid" (`request-distribution.service.ts:122`; also `marketplace-loop.test.ts:465`, `schema.prisma:705`) | nobody is: `selected` is empty (179) and every delivery waits for the vendor's paid answer (196) |
| `TimedOutIsUnanswered` | `Fulfilment` | "Marks unanswered deliveries as timed out" (`request-distribution.service.ts:496`) | rows are marked by id (521), whatever was answered since they were read |
| `SilenceIsRecorded` | `Fulfilment` | "Silence has to be recorded explicitly" (`request-distribution.service.ts:498`) | a sweep that breaks between marking and publishing (526) never does |
| `RunIsReactivated` | `WorkflowLifecycle` | "reactivates a suspended workflow when it is executed again" (`workflow-engine.spec.ts:214`) | starting the type in focus runs a stale copy and leaves the row suspended (`turn-processor.service.ts:441`) |
| `UnconnectedSuppressed` | `SearchWorkflow` | a vendor "whose archetype has zero overlap with the target is guaranteed to score 0.0" (`hybrid-knowledge-graph.ts:250`; also 130, 157, `Domain-Aligned-Expansion-Matching-TDR.md:93`) | only one that holds nothing of what was asked is (`capability-matching.service.ts:419`): a weak holder in another trade is found |

The exceptions of `ChargedIsShown`, `StoredIsTold`, `AnnouncedOnce` (onboarding)
and `EffectsOnce` ("unless something broke there") are what the code does lose by a
break between two of its writes: the debit and the reveal
(`request-distribution.service.ts:376`), the stored message and its turn
(`message-ingestion.service.ts:77`), the profile and the row
(`vendor-onboarding.service.ts:107`), the request and the row
(`buyer-search.workflow.ts:248`). The properties say that nothing else loses it;
they do not say that these are safe.

Seen while modelling, and not checked:

* Two replies composed at once may each find no backlog
  (`prisma-outbound-message.repository.ts:60`); `wallet.credited` is lost by a
  crash after the commit; the expiry sweeper may archive a row that a turn has
  just restarted; a workflow that ends on the last permitted step is
  dead-lettered (`workflow-engine.ts:217`).
* `circuit-breaker.ts:37` promises one probe; a straggler's report clears the
  mark of a probe that is still out, hence the exception in `OneProbe`.
* The buyer sees every ranked vendor's card, contact included, before anyone has
  accepted (`buyer-search.workflow.ts:260`), since `distribute` returns no
  immediate ones; `revealedVendors` is for those who did.
* A vendor reached only by expansion is said to be surfaced ("surfaces the general
  store that happens to stock hammers", `demand.ts:55`;
  `capability-matching.service.ts:586`), and is only if its trade connects to what
  was asked: otherwise it holds nothing of that and is suppressed (419).
* "A vendor matching what was asked for should always outrank one matching only
  what it implies" (`capability-matching.service.ts:190`): the weights of
  `combineRanking` do not see to it when the match is weak.
* The buyer is told how many accepted, never who (`buyer-search.workflow.ts:389`),
  although they may pick one by number; while comments speak of showing those who
  replied (262, 360).
* A triage that hands off says nothing itself; a search asks for clarification
  once and the matching engine does not know it (`buyer-search.workflow.ts:304`).
* `findByCapability` limits before listed vendors are filtered, which is why
  `Holds` counts unlisted ones; service capabilities are never searched for,
  because only `resolveProducts` is called; the codes of all bricks begin alike,
  so `inferArchetype` counts them to one segment; `evaluateMissionMatch` has no
  caller.
* A redelivered acceptance appends its evidence again, and beliefs count it twice
  (`BeliefsExplained` compares beliefs with the rows, not with the acceptances).
* `vendor-onboarding.workflow.ts:263` keeps a bare "I want to sell" out of the
  fields, and 286 passes it on to discovery all the same.

## 6. Not modelled, and why

* Wording, rendering, logging, metrics and configuration: no property is about
  them.
* What language models answer: a choice wherever the program branches on it.
* The internals of Postgres, Redis and BullMQ: modelled by what the code relies
  on (row locks, unique indexes, SKIP LOCKED, SET NX PX, at-least-once jobs).
* Clocks: only the order "before or after the deadline" appears.
* Data migration, the taxonomy import and operator scripts: single writer, run
  by hand.

## 7. Plan

In this order, most important behaviour first:

1. **Rest of fulfilment**: `distribute` step by step with the request's status and
   the fan-out ask; with it the order of `request.delivered` and the acceptance.
2. **Wallet creation**: `ensureWallet`, `getRechargeView`, virtual accounts.
3. **Conversation memory**: history and facts, read-modify-write under a lock
   that may lapse; artifacts that a retried media job appends again
   (`media-processing.processor.ts:45`).
4. **Pure algorithms** against reference definitions over bounded inputs: belief
   update and propagation, fingerprint scoring, text splitting, backoff schedule,
   response composition.
5. **Proofs** for what the above adds, as far as it is safety. Of the present
   modules, what is left is named at the end of section 4.

Runs will be merged where one instance can answer two questions.
