# Specifications of mybot

TLA+ modules for the parts of mybot in which several processes, retries and
crashes meet: the Redis streams and their consumer groups, the agent workers
under their conversation leases, the way of a message from access control to its
answer, the agent turn with its model router, tools, approvals and budget, the bot's
memory, proactive check-ins, the gateway, the two platform transports, the ingestion
of knowledge documents and the plugin host. TLC checks the modules on small instances;
TLAPS proves the main invariants for every value of the constants.

`PROJECT.json` maps every definition to the lines it models and lists runs,
mutants, hazards and theorems. Run one instance with
`tlc -config Stream_safety.cfg MCStreamConsumer`, check a proof with
`tlapm StreamConsumerProofs.tla`.

## 1. Inventory of the system

mybot is a chat bot made of several processes around Redis and PostgreSQL:

```
 Telegram --poll--> gateway --XADD--> ingest stream --> agent workers --+
 QQ/NapCat --ws---> gateway                                             |
    ^                  ^                                                |
    +---- send --------+<---- outbound stream <---- publish reply ------+
 operator console --> API --> outbox --> knowledge stream --> knowledge workers
 agent workers --invoke--> plugin broker (API) <--poll-- plugin child <--spawn-- supervisor
```

| Component | State | Operations | What is hard | What makes it correct |
|---|---|---|---|---|
| Stream consumer groups (`infrastructure/streams.py`) | stream, group position, pending entries with delivery counts, dedupe keys, dead letters | publish, read, claim idle, handle, mark, ack, dead-letter, replay | at-least-once over crashes; two replicas on one entry; trimming under pending entries; the attempt limit | nothing leaves the group unaccounted for; the dedupe key means "done"; poison entries leave |
| Conversation lease (`infrastructure/leases.py`) | one key with a token and a TTL per conversation | acquire, renew, release, expire | a stalled owner; a failing release; waiting longer than the stream's idle limit | turns exclude each other; nobody frees another's lease; no lease stays for ever |
| Agent worker (`services/agent_worker.py`, `repositories/messages.py`) | inbound rows, published replies | admit, persist, decide, run the turn, publish | a crash between any two of them; duplicates versus retries | no message lost, none answered twice |
| Gateway (`services/gateway.py`) | delivery marks | deliver, mark, shut down | partial sends, lost answers, cancellation of an accepted send | at least once; no avoidable repetition |
| Telegram transport (`adapters/telegram/transport.py`) | polling offset | discover, poll, publish, send | the offset runs ahead of the publish | nothing the server forgot is unpublished |
| QQ transport (`adapters/qq/transport.py`) | connection, pending calls | read frames, call, reconnect | two tasks share the socket; late answers | a call returns its own answer, and returns |
| Knowledge ingestion (`services/knowledge.py`, `engine/knowledge.py`, `repositories/knowledge.py`) | documents with generation and status, chunks, outbox | upload, reingest, delete, flush, claim, complete, fail | outbox duplicates, expired leases, reingest during ingestion | READY means current; no document is stranded |
| Model routing (`infrastructure/model_routing.py`) | channel list, cached per process; rotation cursors; shared cool-downs | select, call, fail over, cool down, invalidate | the list is read across an await; every channel cooling; a list edited between selection and call | fail-over ends and tries every candidate of its selection once; calls are accounted for |
| Turn guards and budget (`engine/guards.py`, `infrastructure/budget.py`, `engine/willingness.py`) | counters per user, conversation and minute; tokens per conversation and day | count, grant, refuse with or without notice; check, consume | minutes change between two counters; check and charge are apart | grants within the limits; bounded overshoot |
| Agent turn and tools (`engine/agent_turns.py`, `tools/`, approvals of `repositories/safety.py`) | place in the loop, tools run, tokens owed; approval rows | flush, model reply, tool call, ask, poll, decide, expire, bill, extract | decision, expiry and deadline race for one row; failure between reply and bill | no unapproved effect; bounded runs; every token billed once |
| Plugin broker and child (`plugins/broker.py`, `runner.py`, `child.py`, `state.py`) | registered object with its queues, polls, stored registration | register, restore, unregister, invoke, poll, run, report | polls outlive their child and their registration; old and new child share a runner id | an invocation runs at most once; no wake-up is lost; configurations never go back |
| Plugin supervisor (`plugins/supervisor.py`, `control.py`) | child process, generation, crashes, circuit; control file | reconcile, stop, kill, reap, spawn | the control is read before awaits and used after them; crash loops | no process is lost; an enabled plugin is served |
| Memory (`engine/memory_*`, `repositories/memory.py`, `core_memory.py`) | versioned rows with boundary, invalidation, links, revocation; core blocks | extract, flush, consolidate, merge, upsert, forget, revoke, decay; append, replace | decisions about rows read before a model call; snapshots of READ COMMITTED; stale timestamps | one version shown; links agree; forgotten stays forgotten; no note lost |
| Profiles and learning (`repositories/profiles.py`, `engine/personality_learning.py`) | profiles, persona versions, bindings | create, update, bind, delete, edit and roll back a persona, resolve, learn | concurrent persona edits; a profile deleted while messages resolve it | the active persona is the newest version |
| Pairing and access (`repositories/pairing.py`, `security/pairing.py`) | policy, requests, approvals | check, request, approve, dismiss, lapse | concurrent strangers at the pending limit | the limit holds; one live request per stranger |
| Moderation and evaluation (`security/moderation.py`, `repositories/safety.py`, `evaluation.py`) | policy, keyword automaton; runs and their cases | judge both directions, fail open or closed; seed, shadow, complete | a backend failing before another one flags; settings read per message; completions that overlap | what a backend flags is withheld unless the check itself fails; a run's counters agree with its cases |
| Maintenance and proactive (`services/maintenance.py`, `services/proactive.py`) | the spacing key of a chat, opted-in list, recorded and sent check-ins | sweep, acquire, generate, record, publish | several replicas, crashes in the middle, list and hour read once per pass | check-ins keep their interval; what is sent is recorded |
| Snapshots, operator API, settings, health, telemetry, skills, contracts, migrations, web console | - | forms, queries, wiring, presentation | - | not state machines of their own |

The interactions: the gateway and the workers share only the two streams; the
worker and the gateway share the message rows; the API reaches the workers
through the outbox, the knowledge stream and the dead-letter streams; the supervisor
reaches a child through signals and its environment, and the broker through the same
unregister request that the child uses. Workers and API processes meet in PostgreSQL
rows (memories, blocks, approvals, pairing requests, profiles, evaluation runs) and in
Redis keys (cool-downs, counters, budgets, once-keys); what they hold across an `await`
is where most of the hazards are.

## 2. Modules

| Module | Models | Built on |
|---|---|---|
| `StreamConsumer` | a stream, its group and consumers; the handler is opaque | - |
| `AgentWorker` | `handle_payload` under the lease as the handler of the ingest stream | `StreamConsumer` |
| `Gateway` | `deliver_payload`, `send_reply` as the handler of the outbound stream | `StreamConsumer` |
| `KnowledgeIngestion` | documents, outbox and ingestion as the handler of the knowledge stream | `StreamConsumer` |
| `TelegramTransport` | identity, long polling, publishing | - |
| `QQTransport` | reader task, calls, reconnects | - |
| `PluginBroker` | the broker, the children of one plugin, the registration store | - |
| `PluginHost` | the supervisor and the control file | `PluginBroker` |
| `ModelRouter` | channel list and cache, selection, rotation, fail-over, cool-downs | - |
| `AgentTurn` | `run_turn`: budget, model/tool loop, approvals, accounting | `ModelRouter` |
| `TurnContract` | abstract: what a turn promises about tools and tokens | implemented by `AgentTurn` |
| `MemoryItems` | versioned memories and the jobs that write them | - |
| `CoreMemory` | core blocks and their editors | - |
| `Heartbeat` | proactive check-ins | - |
| `Memory` | the three together, one process in one transaction at a time | `MemoryItems`, `CoreMemory`, `Heartbeat` |
| `Handlers` | the processes behind the front door and the stages they are at | - |
| `Pairing`, `Moderation`, `TurnGuards`, `Profiles`, `Evaluation` | access, moderation chain, rate limits, profiles and personas, evaluation runs | `Handlers` (`Evaluation`: `Profiles`) |
| `FrontDoor` | `_handle_serialized` from access to answer, composed of them | the five above |
| `Matcher` | `AhoCorasickMatcher` against plain substring search | - |
| `MC...` | the instances for TLC (symmetry, function constants) | their module |
| `GatewayProofs` | theorems about the gateway and the two transports | `Gateway`, the two transports, `StreamConsumerProofs` |
| `...Proofs` | theorems | their module; those of the workers and the ingestion also `StreamConsumerProofs` |

**StreamConsumer.** `log` is every payload ever added and `live` the ids that
MAXLEN has not trimmed; `last`, `pending`, `stale` are the group. A consumer's
`pc`, `phase`, `batch`, `cur`, `att` are its place in `process_available`: claim
idle entries, take them one by one (`delivery_count` is read there, after the
claim), then read new ones. `_handle` is `CheckOnce`, the handler, `MarkOnce`,
`Ack`; `_dead_letter` is `Bury`, `Ack`. Every `await` on the backend is a step.
`IterationFails` is a crash, a cancellation or a backend error: all three forget
the batch. `completed` and `buried` are history. Delivery counts saturate at
`MaxAttempts + 1`, because they are only compared with the limit. Idle time is
the event `BecomesStale`, the key's TTL `OnceExpires`.

**AgentWorker** opens the handler: `step` is the position in `LeaseManager.run`
and `_handle_serialized`. A lease is held by a worker, `Free`, or an `Orphan` (its
key is there, its `run()` is gone). `stalls` counts leases that expire under a
living worker; properties that need the lease to be kept are stated for
`stalls = 0`. The decision to answer, the verdicts of access and moderation and
the success of a turn are nondeterministic. `WorkerNext` refines `Next` of
`StreamConsumer`: a turn is one handler run.

**Gateway**: `stage` is the position in `_deliver`, `wire` counts what the
platform accepted of every segment, `accepted` the calls of `send_reply` that
returned. A cancellation while the row is marked has no effect (the shielded
task), one while sending ends the iteration.

**KnowledgeIngestion**: a payload is `<<document, generation>>`. `unpublished` is
the outbox, `todo`/`sending` a dispatcher between `pending_ingest_tasks`, `publish`
and `mark_ingest_task_published`; the API's flush after a request is one of them.
`expired` stands for `updated_at` being older than the lease. The claim is two
statements and two steps: its UPDATE (`ClaimAcquired`, `ClaimMisses`) and, when that took
nothing, its SELECT, which may see what another worker has committed meanwhile
(`ClaimBusy`, `ClaimTerminal`). The chunks of a
document are represented by the generation they were made from.

**TelegramTransport**: `confirmed` is what the server has forgotten, `offset` what
`run` will confirm with its next call. **QQTransport**: `run` and one `_call` at a
time (the gateway handles one outbound entry at a time) share `conn`, `awaited` and
the frames; answers carry the echo of their call and may outlive it.

**PluginBroker**: `reg` is the `_RunnerState` object of the plugin's runner id; `work`
and `events` are the queues of every object, registered or only held by a `work()`
call. `polls` are those calls: who listens, on which object, and where (`touch`,
parked on the event, woken). `cpc` is the place of a child in `_register_with_retry`,
`_serve`, `_execute` and `child.py`; `saving` and `unreg` are requests between their
two awaits. An object or poll that is released may be used again, which keeps the
identities finite without a counter. In `BrokerSpec` children are started, signalled
and killed at any time, also two at once. **PluginHost** adds `reconcile()`: `seen` is
the control it read and still uses, `spc` where its `_stop` or `_unregister` waits.
Backoff is time passing; crashes that leave the window are a choice in `Reaped`.

**ModelRouter / AgentTurn**: `config` is the list in `system_kv`, `held` and `cached` a
process's copy; `Ordered` is the order of `select`: priority groups, each rotated by its
cursor. `left` is what a caller has not tried yet of its selection. `AgentTurn` walks a worker
through `run_turn`; `pc` is the place, `spent` what the turn owes, `convSpent` and
`globalSpent` the counters of a day, `status` the approval rows. A call that needs an
approval asks, polls, and goes on with what the row says; the operator decides and the
operator's list expires rows at any time; the turn's deadline and its cancellation may
come at every step. Budget keys are taken with the day at which `consume` runs, so
midnight may fall into a turn. `TurnContract` says what is promised without the loop:
tools run inside a turn and at most `MaxToolCalls` times, and what is billed was owed.

**MemoryItems**: a row is its boundary (owner, scope and privacy in one), validity,
revocation and the two links. `step` is the place of a job between its awaits:
`merge_item` reads similar rows, the model decides, `apply_merge` tests the row again
under its lock. A statement that waits for a lock works on the rows of its snapshot that
still qualify (`UpsertReads`/`UpsertApplies`, `Forget`/`RevokeFor`). `stamp` is the `now`
the caller passed, which may be old. `overlapped` is history: the one thing the code does
not exclude. **CoreMemory**: `editing` is the advisory lock, `kept` the history of what
was appended since the last replacement. **Heartbeat**: `until` is the expiry of the
spacing key; a pass reads the hour and the list once.

**FrontDoor**: `stage` is the place of a message or request; its submodules own the
steps of their stages. The moderation backends' verdicts are a free function per call;
their evaluation order, fail mode and error handling are the code's. `Matcher` is the
automaton with its failure links, a function of the shorter words as in the constructor's
queue; that it finds exactly the terms that occur is `MatcherIsExact`, an assumption TLC
evaluates for every set of up to three words of up to three letters.

Abstractions common to all: payloads are model values; logs, traces, metrics and
texts are left out; rows that nobody reads before the next step are part of it.

## 3. Runs

| Run | Instance | Shows |
|---|---|---|
| `stream_safety` | 2 replicas, a good and a malformed payload, 2 entries, 2 attempts, 2 faults, MAXLEN 1 | entries are accounted for, the key means done, settled is final |
| `worker_safety` | 2 workers, 1 conversation, 2 copies of a message, 1 crash, 1 stall | turns exclude, a lease is only left by its owner, only retries repeat an answer |
| `worker_restart` | 1 worker, 2 messages (one a shadow evaluation), 1 crash, replays, failing renewals | every message is concluded or dead-lettered, none swallowed, leases are freed |
| `gateway_delivery` | 2 gateways, 2 segments, crash, cancellation, lost answer | acked means delivered; users see beginnings; repeats only for the named reasons |
| `telegram_ingest` | 5 updates, 2 restarts, 1 failed publish | nothing forgotten unpublished; repeats only by restarts; updates arrive |
| `qq_calls` | 2 calls, 2 events, 3 connections, 1 restart | own answers only; no call on a lost connection; calls end |
| `knowledge_ingest` | 2 workers, 1 dispatcher, 2 generations, 2 attempts; a crash, a stall or a task published twice | READY is current; nothing stranded; one worker per generation, and no late failure under it |
| `plugin_broker` | 1 child identity, 1 call, 2 objects, 2 polls, 2 configurations, 1 fault | at most one run; no lost wake-up; configurations only go forward |
| `plugin_host` | 1 child identity, 2 objects, 1 reload, 2 faults, crash limit 2 | the supervisor never loses a living child; an enabled plugin is served again |
| `agent_turns` | 2 workers, 2 channels of two priorities, 3 conversations, 1 approval, 2 days, 3 turns or faults | tools run only when approved; the ceilings are overshot by turns in flight only; the turn implements `TurnContract` |
| `memory_versions` | 2 processes, 1 subject, a group and a direct chat, 4 jobs, 2 times; 3 notes on a block; 2 sweepers, 5 hours or passes | one version is shown; links agree; revoked is frozen; no note lost; check-ins keep their interval |
| `front_door` | 2 processes, 2 strangers, a group, 2 cases, 2 backends, 2 profiles of 2 versions, limits of 1, 1 fault | pairing queue bounded; flagged text withheld unless the hook raises; rate limits hold; personas are newest; a run's counters agree |

**Bounds.** Two replicas and two entries give every race the code has: one entry
in two batches, a batch with a second entry, a replay or a duplicate of the first.
Two attempts separate "first delivery", "retry" and "dead letter". One crash is
enough to separate any two adjacent steps; the second fault of `stream_safety`
loses a batch twice. `MaxLen = 1` makes trimming hit a pending entry. Two segments
are the smallest reply that can be interrupted; two generations the smallest
history with a stale worker. `knowledge_ingest` has two attempts, so that a failed task
is still pending when a second claim meets it. One of three disturbances happens in a
behaviour, a worker's crash, a stall or a task published twice (`OneDisturbance`; a crash
in histories of one generation, since a reingest publishes a task of its own): each alone
already gives a second worker on a task, by a claim of the idle entry, of the expired
lease or of the second entry. One stall lets a worker outlive its ingestion lease;
`ReadyIsCurrent` is proved for any number of disturbances of all kinds, and so are the
other two, which promise less after a stall.

Two configurations are the fewest of which an older one can be queued, answered or in
use beside a newer one. `plugin_broker` saves the second while no invocation is on its way
(`LastConfigAlone`): the first meets the call at every place, and the two meet each other
in queues, answers and children at every place; calls carry no configuration. In
`front_door` the one failure is a handler's or the moderation hook's (`OneFailure`); a hook
that raises has dropped a flag there, so that any other leak shows.
The state constraints bound safety runs only; no liveness is checked under one.

In `agent_turns` ceilings of one and two tokens are reached by the first replies, so that
turns in flight overshoot them; two channels of different priority make every fail-over,
and the edited list drops one of them during a call; three turns are needed for a refused
one after two that overlap. In `memory_versions` four jobs are two overlapping revisions
of a row, the revocation of one, and what comes after; two times are a stale and a fresh
`now`. A merge that makes a relationship row of its own is one of the first three jobs of
histories without an overlap (`LooseAlone`), so that `OneVersion` is tested on what a
later job does to it. Check-ins share nothing with the items and are explored apart from them
(`WithinBound`). In `front_door` every limit is one, so the second stranger, message or
case meets it; two backends are the smallest chain in which one fails before another
flags. With `PendingLimit = 1` the limit alone keeps two requests of one subject apart in
the run; `PairingIsBounded` has both for any limit. Two processes are enough for each race
of two awaits; the theorems hold for any number.

One child identity, used again after every exit, gives all successions of children;
two at once are left to the theorems, which hold for any number. Two objects are the
registered one and one that a late poll still has; `plugin_host` has one poll at a
time and no calls, because liveness is checked on it.

Symmetry over replicas is used in safety runs only. `CHECK_DEADLOCK FALSE` stands
where the system really stops: a Telegram poller that died of a failed publish, QQ
connections and calls that ran out of their bounds, and the three runs whose jobs, turns
and messages are bounded.

**Fairness.** `WF` of every consumer's own steps: `run()` loops until it is
stopped, and a process that ended is restarted by the container's policy; time
passes (`BecomesStale`, expiry of orphaned leases). No fairness for publishing,
faults, stalls, expiry of keys, operators or platforms. The handler's outcome is
free: `EveryMessageSettles` holds although every turn may fail. A QQ call needs its own
timeout and the reader's progress; a Telegram poller its own steps. `plugin_host` has
`WF` for the children's loops, the broker's handlers and the supervisor, and `SF` for
`Spawn`: `reconcile` tries again every second, so a plugin that can be started is
started unless spawning fails for ever. `agent_turns`, `memory_versions` and `front_door`
state safety only and assume no fairness.

## 4. Where code and documents disagree

Behaviour of the code that a document or comment does not expect. Most of it is in the
modules; where a property excepts it, the entry says so.

Streams and workers:

* `current_delivery_attempt()` (agent_worker.py:342) is the attempt of *this worker's*
  delivery. A worker that waits for the lease longer than `claim_min_idle_ms` still has
  attempt 1 when another replica has stored the row and failed; it then skips the
  "duplicate" and acks it. docs/RUNBOOK.md:79-81 says retried entries "either succeed, or
  cross five delivery attempts". (`NoAnswerLost` is checked with one worker.)
* A replayed dead letter is a new entry at attempt 1 whose inbound row exists: it is
  skipped, although docs/RUNBOOK.md:111-114 clears the dedupe key so that it is not.
* The lease does not order the messages of a conversation: replicas poll for it, and
  `Acquire` takes whoever polls first (agent_worker.py:308).
* A batch lost to crashes is dead-lettered by its delivery count although its handler
  never ran (`TakeStale`). A restart between the publish of a reply and the ack answers
  twice (`RepeatsOnlyOnRetry` says when), although README.md says "without losing or
  double-answering a message".
* A failed publish ends the Telegram poller for good (`PublishRaises`); a QQ event read
  just before a restart is lost (`Restart`).

Knowledge and plugins:

* `claim_ingestion` reads BUSY or TERMINAL in a second statement (repositories/
  knowledge.py:297). When the worker that holds the document fails in between, the SELECT
  sees FAILED, the claim answers TERMINAL and the entry, which may be the one both workers
  hold, is acked: the document stays FAILED with nobody to retry it until it is uploaded
  or reingested again. `misread` records such tasks and `NothingStranded` excepts them,
  and only them, while no worker outlives its lease.
* `fail_ingestion` (repositories/knowledge.py:436) compares the generation and not the
  status, so a worker that outlived its lease turns a READY document to FAILED; README.md:122-124
  calls `document_id + generation` the idempotency boundary. (`NothingStranded` allows it
  after a stall; without one `OneWorkerPerGeneration` says that the document is PROCESSING
  under its worker, so a failure never comes late.)
* A child whose registration ends in a 500 of `persist` idles until it is stopped, although
  runner.py:174 speaks of policy refusals only, and its tools stay listed (`SaveFails`).
  A child that registers again between the supervisor's unregister and SIGTERM and is then
  killed leaves a registration without a process (`PollUnknown`, `Terminate`, `Kill`). A
  configuration saved while `reconcile()` stops the old child reaches neither the old
  registration nor the new child (`SetConfig`, `Spawn`).

Turns, routing and budget:

* The token ceiling stops the reply and not the memory extraction after it: a refused turn
  still makes and bills a model call (README.md:179-180, 237-238; docs/RUNBOOK.md:250-251).
  `BudgetOvershoot` counts those refusals. The tokens of a turn that ends in an error are
  recorded and not billed (`Forgive` of the contract).
* With two priority groups the rotation cursor moves once per group and selection, so a
  group need not rotate evenly (README.md:215). A list read before an invalidation may be
  cached after it, and lives for the TTL (model_routing.py:340).
* `expire()` of an approval answers EXPIRED also when the operator's approval landed in
  between: the row says APPROVED and the tool does not run.

Memory and check-ins:

* Two overlapping upserts of one relationship (operator and learner) each see the old
  version and leave two active ones, although README.md:331-333 says every edit appends a
  successor and invalidates the old version; an old `now` lets a memory be superseded a
  second time. `OneVersion` excepts exactly these (`overlapped`).
* The kind of a merged memory is whatever string the model returns (engine/
  memory_service.py:648, repositories/memory.py:396): an ADD or UPDATE of kind
  RELATIONSHIP makes a second relationship row of a subject with no overlap at all. The
  part of `OneVersion` about relationships excepts those subjects (`loose`). The learner's score is
  computed from a value read before the upsert.
* /forget works on its statement's snapshot and misses a successor inserted meanwhile; a
  consolidation that had read the conversation before may learn the fact again.
* That a consolidated GLOBAL memory holds nothing private rests on the prompt
  (README.md:285), not on a check.
* Quiet hours and the opt-in are tested at the start of a pass only (README.md:605).

Front door:

* A text that a backend flagged passes when the audit awaited between the flag and the
  return raises, and a text nobody judged passes when the policy store raises, in either
  fail mode and in both directions, because both callers catch the whole check
  (moderation.py:268-273, agent_worker.py:732-742 and 797-799; `HookRaises`).
  `FlaggedIsWithheld` allows one text per such error and no other.
* Two completions of evaluation cases that overlap may each miss the other in its count,
  which leaves the run RUNNING; `RunCounts` excepts exactly them. All cases of a run have
  one sender, so a run with more cases than `user_per_minute` records the refusal as an
  answer, ignores the next and never completes; so does an inbound text that moderation
  answers directly.
* An operator may rename the default profile, which makes it deletable, and a new default
  is then created for the next message.

## 5. Proofs

All proofs hold for any number of processes, entries, faults and limits; they assume
only the named `ASSUME`s of the modules.

* `StreamConsumerProofs`: `TypeCorrect`, then `StreamInvariant` for
  `StreamInv == TypeOK /\ Justified /\ StaleArePending /\ NothingLost`.
  `NothingLost` alone is not inductive: an ack is safe because its consumer reached
  "ack" with a reason (`Justified`: the payload is completed or the entry buried), and
  a trimmed entry leaves the pending list in a claim, which takes idle *pending*
  entries only (`StaleArePending`). `NothingIsLost`, `OnceIsSound` and
  `SettledIsFinal` follow.
* `AgentWorkerProofs`: `WorkerImplementsStream` (every worker step is a stream step or
  a stutter), hence `WorkerLosesNoEntry`. `LeaseInvariant` is `WorkerTypeOK` with
  "without a stall, whoever is in a protected step owns its conversation's lease";
  `TurnsExclude` follows. `LeaseIsTokenChecked` is the action property.
  `FirstDeliveryIsFirst` adds that an answered message has an inbound row and that a
  first delivery passes `Persist` only without one. `OneReplicaLosesNoAnswer` (one
  replica, no second copy of a message but a replayed dead letter) rests on `AnswerInv`:
  a message whose row is stored and that is neither concluded nor buried is the one in
  hand or below the group's cursor, so it comes back through a claim (`StoredIsResumed`),
  and a claim raises the delivery count to at least two (`AttemptsCount`); hence
  `Persist` skips settled messages only.
* `GatewayProofs`, for the two transports and the gateway. `NothingForgottenUnpublished`
  and `RepeatsNeedRestarts` (Telegram): everything below the offset, except the update in
  hand, is published; an update above the offset was added at most once per restart so far,
  because the poller never adds one below its offset (`AddedOncePerLife`). QQ:
  `ReturnedIsAccepted` and `NoCallIsOrphaned` from what a frame, a future and an awaited
  key may say about the call in hand; `EventsKeepTheirOrder` from `OrderInv`: what is
  published, the event in hand and the events on the socket are one growing sequence. The
  gateway: `GatewayIsConsumer` is the refinement of `StreamConsumer`. `DeliveryInv` gives
  `DeliveredAtLeastOnce` and `RepliesKeepGrowing`: the place of a delivery says which
  segments were accepted (`StageInv`), a completed entry has all of them (`CompletedInv`),
  and a segment was accepted more often than a later one by at least the deliveries that
  stand between the two (`GrowingInv`). `AcceptedOncePerEntry` counts entries: acceptances
  so far and those still to come are no more than the entries of a message (`AcceptedInv`),
  unless two gateways held one entry or a fault came between acceptance and ack, which
  `excused` records (`HoldersInv`).
* `KnowledgeIngestionProofs`: `ReadyIsAlwaysCurrent` from the types of the tables and
  dispatchers; `IngestImplementsStream`. `OneWorkerAtATime` and `NoDocumentIsStranded` need
  `IngestInv`: a task is never ahead of its document (`KnownInv`), a worker on the current
  generation holds the document's lease alone (`LeaseInv`), the task of a waiting document
  is in the outbox or was published (`OutboxInv`), and a published one is a dead letter or
  has an entry that is unsettled, also when the entry about to be acked is gone
  (`CoverInv`, after which an ack is safe). The proof that a begun document keeps its task
  rests on what the second statement of a claim may see (a task is `Protected` while its document
  waits and no claim of it was misread or lease outlived; `BegunInv`: what a worker has
  looked at or begun is no longer QUEUED).
* `FrontDoorProofs`: `FrontInvHolds`, then `PairingIsBounded` (who is between the count and
  the insert holds the advisory lock, so the count is what is there), `FlaggedStaysWithheld`
  (the chain has a first backend that decides; it is found as a least index; a text leaks
  only in a step that counts an error of the hook),
  `GuardsLimitRates` (the turns let through and those counted but not yet through are no
  more than the counter and than the limit), `PersonaStaysNewest` (one editor holds the
  row, and its profile is there), `RunCountsHold` (a case is in one place at a time,
  `CasesInv`; what a worker has counted is not too high, and exact unless completions
  overlapped, `CountsInv`).
* `AgentTurnProofs`: `TurnInvariant` for `TurnInv`, the types with `Stages` and
  `RunsAreApproved`. `Stages` ties a worker's place to what it holds: outside a turn no
  tool has run and nothing is owed, tools run are among the calls used, a call is handled
  only while calls are left within the limit, and only then a request is held; without it
  the run of a tool could not be shown to be one of the `MaxToolCalls`, nor a request a
  poller holds to be a row. `ToolsAreApproved` follows because a row that says APPROVED
  is never written again. `TurnKeepsContract` maps every step of a worker to a step of
  `TurnContract` or a stutter, from the same invariant. `BudgetIsKept` says by the place
  of a turn what it may still add to a counter of a day (`MayBill`): a counter that has
  reached its ceiling, plus what all turns in flight may add, stays below the ceiling plus
  one full turn per worker and one extraction per refusal (`GlobalRoom`); for a
  conversation one turn is enough, because its lease lets one in (`ConversationRoom`). The
  sum over the workers is the number of its units (`Units`), so no recursion is needed.
* `MemoryProofs`: `NoNoteIsLost` from the advisory lock (one editor per block, and what it
  has read is what the block holds). `ItemsInvariant` for `ItemsInv`: rows are created in
  order (`Fresh`), every job that is not over may insert one more row (`Room`), a decision
  names a row, and `LinksAgree`; the links stay true because a successor is always newer
  than what it invalidates and deletion clears both directions. `HistoryIsLinked` follows.
  `VersionsAreUnique` (`VersionInv`): a row that was replaced is deleted or invalid since a
  time that has come (`Replaced`, `Timely`), none is replaced twice (`OneSuccessor`), and a
  subject outside `loose` has one relationship row that stands
  (`OneRelationship`; a merge that adds another is noted by `MergeHistory`). Two rows that nothing
  replaced are not connected (`ChainsAreApart`): the connected rows are the least closed
  set, and what the links lead back to from one of them is closed and leaves the other out.
  `ForgottenStaysForgotten` is the action property: every writer tests the locked row
  again. `CheckInsKeepTheirDistance`: every check-in recorded or on its way took an
  interval of its chat's key, and the key never reaches further than an interval ahead.
* `PluginHostProofs`: `BrokerTypes`; `NoLostWakeup` is inductive over the types: only
  `Invoke` and `SetConfig` queue, and they wake every sleeper of their object.
  `AtMostOnce` needs `OnePlace`: an invocation that has not run is in at most one queue
  or batch, one that has run is in none, so taking it from its place and running it
  cannot happen twice. `ConfigMovesForward` needs `ConfOrder`: nothing is newer than the
  file, what is queued on the object a child will fetch from is not older than what the
  child works with, and an object replaced holds nothing newer than its successor.
  `OneChild` and `HostTypes` need `HostInv`: `Listening` (an answer
  can only reach a child that waits for it, so no answer revives a dead one), `CircuitOK`
  (an open circuit has no process) and that the control read is not newer than the file.
  From it `HostImplementsBroker`: what is proved of `BrokerSpec` holds under the supervisor.

Only model-checked: liveness (`EveryMessageSettles`, `LeaseIsFreed`,
`UpdatesArePublished`, `CallsEnd`, `ServedAgain`), which needs fairness and `ENABLED`; the
router's order of candidates (a sort, `ModelRouter`), and the matcher against its reference
(induction over words), because what a recursive definition computes for every input is
out of the provers' reach. Every invariant, action property and refinement that a run
checks is proved; type invariants are proved where a proof needs them.

## 6. What is not modelled

The trimming of the dead-letter streams (a trimmed dead letter is one that is never
replayed); the order `MemoryStreamBackend` gives ids as strings; the contents of
prompts, chunks and messages; the start-up of services and adapters; the rows of
`record_outbound` before their delivery; the `LIMIT`s of queries; concurrent outbound
calls over one QQ socket; plugin events, services and moderation, which use the same
queue as configurations or keep nothing between calls, and the scheduler of plugin
tasks; a plugin source that disappears, and the graceful stop of the supervisor (its
container's loss is modelled). Of the router, more than one purpose at a time; of a turn,
what a single tool does; of memory, similarity, scores and what the model extracts, which
are free choices; of the front door, the willingness score, participation records and
the text of notices; feedback records. Knowledge retrieval and annotations are queries.
Adapter translation, settings, health, telemetry, skills, contracts, migrations, snapshots
and the web console hold no state that processes share, or are file and presentation
work. Most of the operator API is forms over the repositories; its requests that change
what others read are actions here. `PROJECT.json` lists every component with its reason.

## 7. Plan

1. *Done*: streams, workers, gateway, transports, knowledge ingestion, the plugin host;
   model routing and the agent turn with its contract; memory, check-ins; the front door;
   and their first theorems.
2. *Done*: proofs of every invariant and action property that a run checks, and of the
   refinements. Next: the order of the router's candidates as a property of its own, with
   a lemma on rotations; the type invariants of the modules that state none in a theorem.
3. Modules: the scheduler of plugin tasks with its once-keys; snapshots with a restore
   that is interrupted.
