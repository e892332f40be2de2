# A TLA+ model of nxs-anomaly

nxs-anomaly receives alerts, groups them, walks escalation chains and delivers
notifications to the people on call. This directory models the parts of it that
decide who is paged and when, checks them with TLC on small instances and proves
the most important invariants with TLAPS for every instance.

## 1. The system

All state is in one PostgreSQL database. Any number of API processes serve HTTP
(`internal/server`) and any number of worker replicas run a cycle of stages
(`Engine.RunWorkerCycle`, `internal/engine/worker.go`); both call the same engine
(`internal/engine`). An operation of the engine is a transaction: the rows it
needs are loaded, changed in memory and saved (`store_crud.go`). Three things
matter for concurrency, and every module says which of them its actions use:

* advisory locks, one per integration (ingest), per shard of groups (escalation)
  or per stage (flush, policy runs);
* row locks, taken on load for `alert_groups` and for no other collection;
* what is saved: changed rows only, or, with `writeAll`, every loaded row.

Some state lives in a process: the ingest gate, the reference-data cache, the
circuit breaker, the outcomes that could not be saved.

| Part | State | Operations | What is hard about it |
|---|---|---|---|
| Alert groups | status, timer, step, repeat, pass, episode | ingest, acknowledge, resolve, silence, undo, bulk forms | every operation may come between a worker's listing and its transaction |
| Escalation | chain, position, idempotency keys | list, lock a shard, walk the chain, repeat, wake a silence | replicas work from overtaken listings; keys of an earlier round must not swallow a page |
| Delivery | notification rows, claims, attempts, unsaved outcomes | claim, call, save, retry, reclaim, dead letter | provider calls are outside transactions; crashes, failed saves, slow workers |
| Batches | open batch per key, pages parked in it, the key's groups | attach, flush, resolve, reopen | attach and flush hold different locks; attaches are kept apart only by the rows of groups |
| Personal policies | runs with a next step and a time | start, list, advance, prune | overlapping listings, edits of the policy, answers in between |
| Ingest gate | slots, tokens, users | enter, wait, give up, hold, leave | a slot is deleted while others look it up |
| Reference cache | entry, load in flight | get, load, join, require, invalidate | loads and re-reads that a write overtakes |
| Circuit breaker | failures, openUntil | allow, record | results of old calls arrive late |
| Alert status | status of a group's alerts | a statement after the transition | two statements land in the other order |
| Source heartbeats | mark on the integration, SourceSilent group | decide, ingest, mark | three steps, no lock across them, cached rows |
| Schedules, shift notices, duty check-ins | rosters, overrides, attendance | resolve, detect handoffs, stamp | boundaries of time, two replicas seeing one handoff |
| Administration, retention, personal data | reference entities | create, update, delete, erase | whole-row saves of unlocked rows; references checked before a delete |

`PROJECT.json` lists every part with its sources, and every hazard at its line.

## 2. Modules

Every component module declares its state as VARIABLES, one action per operation
or per step between two points where others may run, and its properties at the
end. Definitions that begin with the comment "Slip:" are plausible mistakes in
the definition that follows them; a property is trusted once TLC finds it
violated by a slip.

**AlertGroup** has no variables. Its operators are the methods of
`model.AlertGroup` and the helpers of `steps.go`: they take the row that a
transaction loaded and return the row it saves. `AdvanceGroup` is the whole of
`advanceGroupLocked`: it walks the chain up to the step that stops it (a wait, a
repeat, a resolve, the end) and `AdvanceKeys` are the idempotency keys of the
pages queued on the way.

**Escalation** puts these into transactions: ingest of firing and resolving
alerts, direct pages, the operators' actions and their bulk forms, edits of the
chain, and the worker's stage in three steps (`ListDue` outside any lock,
`TryShard`, `AdvanceShard` with the checks repeated under row locks). `Save`
is the common end of a transaction: it stores the rows and the pages whose key is
not in use, and records as `swallowed` those whose key is.

**NotificationDelivery** is one pass of delivery or retry: save what an earlier
pass could not, claim, call providers, load, commit, report dead letters. Load
and commit are two steps because that transaction locks nothing. Engines crash
and come back with a new worker id; saves fail, adapters panic, the breaker
refuses, rows are deleted. A permanent failure has two reports, the row that
`recordDeliveryFailures` writes and the POST of `sendDeadLetterEvent`; either may
be lost, since their errors are only logged. Outcomes of an earlier pass count as
unsaved until that pass is over, as in the code, which forgets them after the
early save and its reports. Time is relative, so no clock bounds the runs.

**NotificationBatch**, **PolicyRuns**, **AlertStatusSync** and **SourceHeartbeat**
model the rows that the worker looks after in the background. An attach takes the
locks its transaction takes: an ingest the integration's lock and the rows of the
unresolved groups of the key, a worker its shard's lock and the row of the group it
advances. No lock belongs to the batch key; that attaches stay apart is a result,
and it fails for a group that an operator reopened beside an active one.
`AlertStatusSync` lets the statements of several transitions land in any order or
fail; `missed` records that the latest one did not land last. In `SourceHeartbeat`
the pipeline may drop the alert, an operator or the chain may resolve its group, and
`told` says whether the present silence was announced.

**IngestGate**, **RefCache** and **CircuitBreaker** model what a process keeps in
memory. A step is one section under the mutex, one channel operation or one read of
the database. `RefCache` has both ways into the cache: the shared load, which checks
that its flight was not invalidated, and the re-read of `refSet.require`, which does
not.

**EscalationProofs** and **IngestGateProofs** hold the theorems. **MCEscalation**
and **MCNotificationDelivery** extend their component for TLC. **MCProcess** and
**MCBackground** put several components that share no state side by side: a
behaviour exercises one of them, chosen by `part`, and the others stay as they began.
Three violation runs use a component's module as it is.

How the modules meet: the pages that `Escalation` queues are the notifications
of `NotificationDelivery`, directly or through `NotificationBatch`; a page to a
person starts a run of `PolicyRuns`; the transitions of `Escalation` are what
`AlertStatusSync` carries down; `SourceHeartbeat` ingests through the path
`Escalation` models and decides on rows that `RefCache` serves; `CircuitBreaker`
is one of the outcomes ("short") of a call in `NotificationDelivery`.

## 3. Runs

| Run | Instance | Shows |
|---|---|---|
| `escalation` | one group, one worker, a repeating and a resolving chain, reopening on new alerts, epic threshold | the timer agrees with the status, no open group is forgotten, no page is lost to its key |
| `escalation_replicas` | two workers, one may crash with the shard lock | pages only when due, keys stay behind the position, every due group is advanced, every timed silence ends |
| `delivery` | two replicas, two notifications, no reaper, two faults of any kind | nothing sent twice, outcomes remembered, attempts match, a row fails at the end of its budget and not before, failures reported once unless the report was lost |
| `delivery_reaper` | two replicas and a request on the first one's engine, reaper on, two faults, stages shorter than the claim timeout | settled stays settled, every notification is settled |
| `process` | a gate with three ingests, two integrations, one place and one waiter; a cache with a local writer and re-reads; a cache beside another replica; a breaker with three callers | limits, life of slots, no blocked release, every waiter served; loads never bring back rows older than an own write, staleness is bounded, loads are shared and end; one trial at a time, recovery |
| `background` | batches (racing, taking turns), a policy run, a group with three alerts, an integration (one replica, two) | pages released once and in the end, the unique index met only about reopened groups; steps in order, waits kept, quiet while answered; alerts follow the last statement; silence reported and withdrawn, the mark recovers |
| `escalation_notice` | one group, one reopening | violation: the second resolution is not announced |
| `escalation_dedupe` | two groups of one key, one reopening | violation: both are active |
| `delivery_stale` | two replicas, a failed save, the reaper | violation: a late save puts a settled row back |
| `batch_stranded` | one worker, one ingest | violation: a page is parked in a closed batch |
| `cache_refill` | two callers, one writer, one id | violation: a re-read stores rows older than an own write |
| `heartbeat_missed` | one replica, one failed save | violation: a second silence is never announced |

The last six are disagreements with comments or documents of the repository;
`PROJECT.json` quotes them.

Bounds. `MaxTime`, `MaxEpisode`, `MaxPass` and `MaxAlerts` let a group open, wait,
repeat, be answered, be reopened and repeat again; two workers suffice for a
listing to be overtaken, one crash for a lock to be orphaned. The runs with progress
have one group, so the limit of the due listing is not exercised. In delivery two
notifications are needed for a batch of more than one, one fault for each error
path and two for a fault during the recovery from a fault. The gate's instance is
small (two keys and two slots, so that a slot is deleted and used again) because its
safety is proved for every instance. Cache and breaker need two callers to share and
a third call to come late; a TTL of one and loads as long as the TTL produce every
order of expiry, load and write. Where a component is listed twice in an MC module
its two instances ask different questions: the batch with a racing ingest (safety
only, since `batch_stranded` shows what progress depends on) and with one replica
whose attaches and flushes take turns; the cache with own writes and with another
replica's; the heartbeat with one replica and no failure (where the group follows the
source) and with two, failures and dropped alerts (where only the mark does).

Deadlock is checked except in `background`, where a group may be archived and a
source may fall silent for good.

Fairness. The worker loop restarts its cycle at every poll whatever the last one
returned, so each replica's step is weakly fair, and so is the clock. Provider
calls and database reads are bounded by timeouts, so calls in the breaker and
loads in the cache end. In the gate a goroutine that can go on does; strong
fairness of taking a token stands for the queue of receivers of a Go channel.
Nothing is assumed of sources, operators, edits and faults.

## 4. Proofs

`EscalationProofs` proves, for every set of groups, keys, workers and chains,
that `Spec` implies `TypeOK`, `NoPageSwallowed`, `KeysBehind`,
`TimerMatchesStatus`, `OpenGroupIsScheduled` (each as an invariant) and
`PagedOnlyWhenDue` (an action property). Assumed of the constants: the switches
are Boolean, thresholds and bounds are naturals and chains are sequences of steps.

The inductive invariant is `IInv`. `NoPageSwallowed` alone is not inductive: a
page is lost when its key is in use, so one has to know where the used keys are.
`KeysBehind` says so: the keys of a group lie, in the order (episode, pass,
repeat, step), below its position. The walk over a chain stores keys from the
position up to where it stops (`WalkKeysBetween`), and every operation on a row
keeps the position or moves it up (`Forward` and the lemma of each operation).
`SaveStep` then treats all transactions alike: it is enough that each saved row is
well formed and its keys are new. `RowOK` adds to the type what the timers need.
For `PagedOnlyWhenDue` the invariant gives that the clock a worker listed by is
not ahead of the present.

`IngestGateProofs` proves, for any numbers of ingests, integrations, slots, places
and waiters, `TypeOK`, `AtMostHolders`, `BoundedQueue`, `SlotLivesWithUsers` and
`ReleaseNeverBlocks`. The invariant counts: a slot's users are the ingests that
point to it, and its tokens and holders add up to the number of places. The type
of the token count (never below zero) depends on the counting, so the type
invariant is not inductive alone either. Assumed: there are finitely many ingests,
at least one place, and `None` is not a slot.

Only model-checked: liveness (`DueGroupIsAdvanced`, `SilenceRunsOut`,
`EventuallySettled`, `Served`, `CallsReturn`, `RecoversAfterHeal`,
`EventuallyReleased`, `RunsEnd`, `SilenceReported`, `ReturnResolves`,
`MarkFollowsSource`), which is out of the prover's reach, and the other modules.
The theorems of the gate hold for every instance, the runs of `process` for the one
of section 3.

## 5. Observations without a run of their own

Met while modelling; each can be read off the code.

* `batch_deadline_seconds` is stored in `deadline_at`, which nothing reads; every
  page that joins moves `flush_at` on.
* `POST /escalations/run` uses the unsaved retries that belong to the worker
  goroutine; with failing saves they overwrite each other's.
* A policy run that sleeps through an acknowledgement and its undo goes on, and a
  run that ends in the transaction that starts it is never deleted.
* A resolve whose alert statement is overtaken by a reopening's, or is lost, leaves
  the alerts contradicting their group until the next transition; `AlertsFollowGroup`
  says that this is the only way they do.
* The group of a SourceSilent alert can contradict the source when two replicas
  overtake each other between ingest and mark, when the pipeline drops the alert, or
  when the mark fails (`heartbeat_missed` shows the last). The first two are found
  with the same property by giving `SourceHeartbeat.cfg` two replicas, or `Drops`,
  in place of the fault.
* An attach about a reopened group can meet the unique index on open batches: the
  worker's step is retried in the next cycle, an ingest is answered with the error.
* A failed report of a dead letter is logged and never made again.
* A breaker trial that outlasts the cooldown is joined by a second one; `process`
  keeps calls shorter than the cooldown.

## 6. Plan

Order of work, each step with its module, its questions and its proofs:

1. Schedules: `schedule.go` as operators (layers, rotations, overrides, the cut of
   the timeline at boundaries), checked against a pointwise definition of who is on
   call; then shift notices (a handoff is announced once, also by two replicas) and
   duty check-ins (an attendance stamp against a check-in).
2. The store itself: an abstract specification of a collection whose operations
   are atomic, and the load, change, save protocol with and without row locks,
   dirty saves and `writeAll`, shown to implement it where rows are locked.
3. Rate limiting: the shared token bucket and its bound over any window; the read
   limit and the worker's connection pool.
4. Maintenance windows and routing in the ingest transaction; the mobile event
   stream; deletes against new references; erasure of personal data.
5. Proofs: the circuit breaker's and the cache's safety, the claims of delivery
   (`SentAtMostOnce` from an invariant on who holds a row), order and waits of
   policy runs, the bound of the token bucket.

## 7. Not modelled

Sign-in, sessions and permissions are outside the scope of this project. Delivery
adapters, ChatOps wording, source formats and the ingest pipeline are conversions
of text; a provider's answer is chosen by the environment. Reports, history,
insights and metrics only read. Migrations run before a process serves. The
analytics outbox has no consumer in this edition.
