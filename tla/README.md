# TLA+ models of the agent runtime

These modules model the core of the runtime: how a message becomes a decision
and a reply, how plans of several conversations share one team of subagents, how
a Telegram update becomes an answered turn, what the assistant remembers from
turn to turn, how memory writes travel through outbox and stream, and how
reminders are delivered. TLC checks them on small instances. TLAPS proves the
main results about all of them for every value of the constants: every
invariant a passing run checks is a theorem.

Paths below are those of the repository (`src/execution/scheduler.rs` is the
Rust crate's file). `PROJECT.json` gives the source lines of every definition.

## 1. The system

| Part | State | Operations | Interacts with |
|---|---|---|---|
| Ingest (`app.rs`, `channel/telegram.rs`, `http/server.rs`) | polling offset, `inbound_events`, bounded mpsc queue, depth counter | `poll_updates`, the ingest loop, `telegram_webhook` | Telegram; the worker loop |
| Turn pipeline (`app.rs`) | semaphore, gates of conversations, operator controls | receive, dispatch, gate, restart | ingest; turn processing; dashboard |
| Turn processing (`usecase/process_inbound_event.rs`) | the turn's context, decision, budget, plan, tool results; rows of plans, tasks, attempts | `execute`, `safe_abort`, the finalizer | routing, planner, plan execution, skills, models, store |
| Routing (`usecase/analysis.rs`, `orchestrator/router.rs`) | none | fast path, complexity, current-data requirement, route hint | turn processing |
| Planner (`planner/`) | none; builds `TaskPlan` | plan of a request, plan of a contract, levels of a graph | turn processing, plan execution |
| Plan execution (`execution/`) | tasks, attempts and review loops of a plan; a semaphore | `execute_plan_parallel`, `run_one_task` | the pool; worker and reviewer (model calls) |
| Subagent pool (`team/manager.rs`) | runtime settings, vector of subagents | acquire, mark running, release, apply settings | plan execution; dashboard |
| Skills (`skills/`) and policy (`policy/`) | attempts of a call; budget of a turn | permission, retries, timeouts | turn processing |
| Conversation memory (`storage/store.rs`, `memory/`) | hot turns and summary, snapshot in Redis, `turns`, `summaries` | read-through load, publish, append, invalidate, reset | turn processing, finalizers, consumers |
| Brain memory (`memory/brain.rs`, `usecase/brain_memory.rs`) | `brain_memories` | extract, merge or supersede, retrieve | finalizers, consumers, turn processing |
| Outbox and event bus (`telemetry/redis_bus.rs`, `storage/cache.rs`) | `outbox_events`, Redis stream, group, pending list, failure counters | publisher, `MemoryConsumer`, dead letters | Postgres, Redis |
| Reminders (`scheduler/`, `usecase/send_reminder.rs`) | `jobs`, `reminders`, apalis queue | claim, push, execute, fail, complete | Postgres, Redis, Telegram |
| Dashboard, broker, identity, configuration | mostly views, calls and parsing | | |

What is hard in it, and what makes each part correct:

- **A turn.** A dozen strategies are tried in an order that matters, every call
  of a model may fail or not parse, every call of the store may end the turn, and
  effects (skills, facts, rows) come before the reply is decided. An answer about
  current data needs evidence whatever way it took; a plan marked completed must
  be written; skills must stay within permission, retries and budget; and the
  pipeline around the turn must find one of a few outcomes.
- **Plans.** They are made of what a model wrote: names may collide, depend on
  nothing or on each other, and be too many. A plan must fit the team, and a
  sound one must be able to run to its end.
- **Plan execution.** Jobs of several plans run as tokio tasks and compete for
  the slots of one team while an operator resizes it. A slot must serve one job
  and come back on every path; a task must not start before what it depends on
  is accepted; two retry limits must bound every task; every plan must end.
- **Ingest.** Telegram delivers an update until it is confirmed, the offset is
  only memory, and the process may die between any two steps. An update must
  not be confirmed before it is stored, nor be queued twice.
- **Turns of a conversation.** Jobs of one conversation are separate tasks behind
  a gate, replies go out in chunks, any call may fail, and the finalizer runs
  outside the gate. Replies must not mix, the history must alternate, and an
  event marked processed must have been answered.
- **Memory.** The same turns and summaries live in the process, in Redis and in
  Postgres, and are written by finalizers and consumers that overtake each other.
  A turn must see the exchange before it; of what was said of one thing one
  memory must be active, and it should be the last; a turn must be given it.
- **Event bus.** Three systems, no transaction over them: calls are refused,
  answers are lost, commands are repeated, consumers die with entries in hand.
  Delivery must be at least once, poisoned events must not block others, and
  healthy ones must not be buried.
- **Reminders.** Two tables and a queue of an external library, written by
  separate calls whose results are ignored in places. Duplicates must have a
  cause, and every reminder must come to an end.

`PROJECT.json` lists the hazards one by one, at their lines, with the
properties that cover them or the reason why none does.

## 2. Modules

| Module | Models |
|---|---|
| `Routing` | what is read off a message before any model sees it, as functions |
| `Planner` | plans of a request and of a contract, their names, roles, routes, caps and levels, as functions |
| `Turn` (EXTENDS `Routing`, `Planner`) | one turn from the event to its reply |
| `TurnContract` | abstract: the outcomes a turn may have |
| `TeamManager` | the pool; each critical section of its lock is one operation |
| `PlanExecution` (EXTENDS `TeamManager`) | scheduler loops, spawned jobs, joins, and settings applied meanwhile |
| `TaskBoard` | abstract: what executing plans promises |
| `Ingest` | polling and webhook, `inbound_events`, queue and counter |
| `InboundPipeline` (EXTENDS `Ingest`) | worker loop, jobs, finalizers, controls, restarts |
| `BrainMemory` | extraction, merging and superseding, retrieval, as functions |
| `Subsequences` | what is kept of a sequence when elements are dropped (`filter`, `retain`) |
| `ConversationMemory` (EXTENDS `BrainMemory`) | turns, finalizers and consumers over hot turns, snapshot and tables |
| `EventBus` | outbox, publisher, stream, group, consumers, dead letters, restarts, flush |
| `Delivery` | abstract: at-least-once delivery |
| `Reminders` | tables, dispatcher or direct loop, workers, restarts |
| `MC_*` | small instances for TLC |
| `*_proofs`, `OrderLemmas` | lemmas, theorems and proofs |

Operators named as mutants in a comment (`PollEarly`, `ContextualAnyway`, ...) are
plausible mistakes in the definition they stand before. No specification uses
them; each shows that a property notices the mistake.

**How they fit together.** A turn crosses several modules, each with the part of
it that its own hazards need. `Turn` has `execute()` from the deduplicated event
to the reply; it takes the run of a plan as one step, whose outcomes are those
of `PlanExecution`, and hands its reply over. `InboundPipeline` has what is around
it, for several turns at once, and takes the inside as three decisions (answer,
ignore, abort). That these are all the decisions there are, with the rows each
writes, is `TurnContract`, which `Turn` is shown to implement.
`ConversationMemory` takes the gate as given, where `InboundPipeline` shows that
it holds, and the bus as one that may repeat and reorder, as `EventBus` shows.

### Routing, Planner and Turn

The code looks for words of fixed lists in a message. `Word` has one word for
each group that the lists tell apart, and a text is the set of words it holds,
the one it begins with, and its size. The functions are the source's own and keep
its order: a fast path before anything else, then the market tool, an answer from
the turns before, a local plan, a plan asked of a model, the classifier.

A task of a contract is the name the model wrote, the names of its dependencies
and what its text hints at. Names go through `sanitize_*`, dependencies through
the filters of the source (unknown names, itself, the integration). Levels are
those of Kahn's algorithm in `dag.rs`; a graph with a circle has none.

The actions of `Turn` are cut at the awaits of `execute()`. `StoreError` is a call
of the store whose error ends the turn, at each stage where there is one
(`StoreCall`); calls whose error is logged and passed over are not in it. A model
answers, answers something that is repaired, something that is not, or not at
all. A decision may ask for any number of tool calls. The tool loop runs on the
steps of the budget, and the prompt that makes a reply of the results has the results and no
evidence. Costs are 0 or 1 and being late is a choice that is not taken back. In
`RunSkill` each attempt takes effect, or not, apart from whether it is reported
as done: a timeout says nothing of the effect.

### TeamManager and PlanExecution

A task is its position in `plan.tasks`; `IdOf` gives its string id. Nothing in
the code makes ids unique, and so `First` and `Last` reproduce the code's
lookups (`position`/`find` meet the first task with an id, the `HashMap` of
states keeps the last). `StartPlan` and `NextBatch` are the head of the
scheduler loop up to the spawning of the ready list, `Join` is the write-back
of one result, in completion order. The steps of a job are those of
`run_one_task`, cut where another task can run: permit, acquisition,
`mark_running`, release. Worker and reviewer are nondeterministic outcomes.

The scheduler skips a result that is a `JoinError` (`scheduler.rs:98`). `Join` has
no such branch: nothing aborts the spawned jobs, none of what they call
(`execution/`, `team/`, `llm/`) has a panic of its own, no indexing or slicing that
can fail, and the release profile aborts the process at a panic (`Cargo.toml:69`). The
results about plans assume that `run_one_task` returns.

`apply_runtime_settings` is two steps, because the code takes the lock of the
settings and then that of the pool, and several calls may be between them.
Subagents are numbers in the order of the pool's vector. The pool is sorted by
id as text, so this order is exact up to nine persistent subagents, which
`TeamAssumption` requires.

### Ingest and InboundPipeline

An event is the number of its update. `open` is what Telegram still delivers.
The steps of a handler are insert, `try_send`, count and answer; the counter is
raised after the event is queued, as in the code. A full queue is answered 503,
and then the row is already there.

A job runs through gate, deduplication, decision, chunks and hot turns. The
decision is one step, `DecideReply`, `DecideIgnore` or `DecideAbort`: `Turn` is
what happens in it. The finalizer is a task of its own that goes on after each
failure. The rows of a reply live in the job until the finalizer writes them.
Disturbances are of four kinds (storage, Telegram, operator, restart) and are
counted, so that a property can name the kind it tolerates.

Messages of `safe_abort` are chunk 0 in `chat`; the code writes no outbound row
for them. The order of the durable turns is abstracted to a set.

### BrainMemory and ConversationMemory

A message is a phrase, what it is about, and whether the text has a character
across the byte at which its summary is cut (`split`: the cut panics). The
extractors look for markers as substrings, so a phrase may be read by several
(`use` is in `because`). What is written down besides the value (a reason, what
was learned) takes part in the comparison of `same_content`. A memory is a row; its
id is its place in the table. Matching a message against memories is a choice of any
subset in any order; the limits of the two scopes, and what fills the rest, are the
source's.

A consumer reads a batch of up to 32 events (`Claim`) and handles them one after the
other. It reads the rows its candidates are about when it begins (`Take`) and writes
in a later step (`WriteBrain`), so that another consumer may write between. While
nothing has failed batches follow the order of the bus, each takes up where the
one before ended, and still the writes of two consumers need not come in the order of the
turns. If an event cannot be acknowledged or its failure not be counted, the rest of
the batch is dropped and stays pending (`LeavesTheRest`). After a failure any of
the pending events may be handed out, in any order and again.

Two history variables let properties name what they are about: `raced`, that two consumers
handled events of one table at once, and `written`, the turns whose memories were
written, in the order of the writes.

The conversation's turns live in `hot`, in `cached` (Redis) and in `turns`.
A turn loads (`LoadSnapshot`, then `FillCache` as a step of its own, since
anything may happen between the read and the store in the cache), retrieves, and
replies: the exchange becomes hot in the step that ends the gate and spawns the
finalizer, whose steps follow the code. A query that fails does not end a turn
everywhere: if that of the memory documents does, the hot turns are discarded and
cache or tables answer instead (`missed`), and if one of those for brain memories
does, the turn goes on with none (`Given(t, <<>>)`). Errors of counting or listing
turns skip the summary; an error of Redis leaves the snapshot. Restart, reset, failing
queries and the loss or repetition of an event are disturbances. A summary that is cut
inside a character panics: the finalizer ends there, as in a build that unwinds (the
repository runs by `cargo run`); in a release build the process dies with it, which is
`Restart`.

### EventBus

An event is identified by its place in the order of `created_at`. A stream entry
is its index, so ids never repeat, and `erased` is what a flush removed.
Every call takes a reply: `ok`, `lost` (done, the answer did not come) or
`refused`; commands the code repeats after a transport error (XADD, INCR) may
also take effect twice, and XREADGROUP may lose its answer and leave
entries that are pending and held by nobody. An error of a bookkeeping call ends the consumer's tick and
leaves the rest of its entries to XAUTOCLAIM, except that a failed
`clear_stream_failure` is ignored. The idle time of XAUTOCLAIM is abstracted:
any pending entry may be claimed, and claiming one that a live consumer still
works on counts as a disturbance. After a flush the group is missing until a
consumer starts again, and reads fail until then, as in the code.

`publish_attempts` is written and never read by the code, and is left out.

### Reminders

`mode` is the way `SchedulerWorker::spawn` chooses at each start: with the bus,
a dispatcher claims due jobs and pushes them to apalis, whose workers take them;
without it, or when Redis does not answer, one loop executes what it fetched. A
restart may change the mode, and leave jobs in a queue that nobody takes from.
Apalis is external: a queue that may hand a job out again. The `run()` of a
worker may return at any moment (`WorkerEnds`); its task ends with a line in the
log, and only the next start brings it back (`alive`). `reaches` are the
reminders that go out at all: those for the channel "local", those of a disabled
client and those the policy suppresses are reported as sent, done and never
delivered. `mark_reminder_sent`, `complete_job` and `fail_job` keep their
ignored results: a lost or refused call is a disturbance and the code goes on.

## 3. What TLC checks

Runs that must pass (distinct states; all explored completely, deadlock checked;
a behaviour that has come to rest stutters in the explicit `Rest`, `Over` or
`Terminated` step, whose guard says what rest is):

| Run | Instance | Shows | States |
|---|---|---|---|
| `turn` | one turn on each of 23 messages; five requests and eight contracts (a chain, a circle, colliding names, too many tasks, an integration of its own); five routes, safe or not; a skill that is denied and one that is retried; budgets of two steps, one call, one unit of cost; one failing storage call | `CurrentAnswersHaveSources`, `CompletedPlansAreWritten`, `PlansAreBounded`, `SoundPlansRun`, `EffectsAreBounded`; `MeetsContract`, the refinement of `TurnContract` with its liveness | 642,169 |
| `plan_settings` | one plan, two work packages and their integration; two applications of settings that change size, roles and ephemerals | `ParallelBound`, `RoleRespected`, `DependencySafety`, `BoundedAttempts`, `DoneMeansSettled`, `PoolCoversTeam`; refinement of `TaskBoard` with its fairness | 110,057 |
| `plans_sharing_team` | two plans, one persistent slot and one ephemeral | `SlotExclusivity`, `NoSlotLeak`, `PlansTerminate` | 135,317 |
| `inbound_pipeline` | two messages of one conversation, two permits, a queue of one, replies of two chunks, one disturbance of any kind, polling and webhook | `ConfirmedIsPersisted`, `QueuedOnce`, `RepliesAreWhole`, `HotTurnsAlternate`, `ProcessedIsAnswered`, `PermitsAreReturned`, `EventsPass` | 209,978 |
| `memory` | two turns of one conversation that say one of two things, two consumers with their batches, a summary every two rows, one memory of each scope, one disturbance | `PreviousExchangeIsSeen`, `OneMemoryIsActive`, `LastWordWins`, `HotSummaryIsStored`, `TurnsAreStoredOnce`, `RetrievalIsSound` | 1,089,509 |
| `event_bus` | two events, the second poisoned, two consumers, two disturbances, a flush | `NothingIsLost`, `OnceWhenCalm`, `DeadLettersAreEarned` | 903,075 |
| `event_bus_liveness` | the same, one disturbance, no flush | refinement of `Delivery`, `EverythingSettles` | 41,145 |
| `reminders` | two reminders that go out or not, two workers, one disturbance (a worker that ends and a restart in either mode included) | `DuplicatesAreBounded`, `TablesAgree`, `EndsAreEarned`, `NothingIsStranded`, `RemindersEnd` | 131,279 |

Type invariants are theorems (section 4) and take no run. So are the other
invariants of `InboundPipeline` (`DepthIsExact`, `PublishedIsStored`) and `Turn`
(`UnsafeIsRefused`, `MarketToolIsIdle`).

**Bounds, and why they are enough.** Two is where interference starts: two jobs
for one slot, two plans for one team, two handlers for one update, two jobs for
one gate, two finalizers of one conversation, two consumers for one entry. Three
tasks give a fork and its join. A queue of one is full after one event. Two
disturbances let a recovery be disturbed itself (a redelivery after a restart
that fails again), which matters where things are redelivered; elsewhere one is
enough for every property to meet every kind. `MaxRetries`
of 1 or 2 reaches both sides of the comparison; four attempts of a reminder are
the code's own constant and cost no disturbance, because a refusal by Telegram
is normal there. `MaxSpawns` and `MaxRuns` never cut a behaviour short in these
instances: retry limits end a task before. `MaxDeliveries` bounds only webhook
calls that find their row, each of which leaves the state as it was. Consumers
are interchangeable in `event_bus` and `memory` (symmetry; no liveness there).

The messages of `turn` hold one or two listed words each, chosen so that every
branch of `Routing` is taken and those whose lists overlap meet. Plans of `turn`
have at most four tasks and depth fields of at most two, so that both caps cut. In `memory`
the hot turns and the context have room for one exchange, so that the next one
pushes the last out. The two messages are one that changes a user preference and has a
summary that panics, and one that two extractors read. Two
permits let jobs meet at the gate; the loop then never waits for a permit, and that
none is lost is `PermitsAreReturned`.

**Fairness.** Weak fairness for each task of the tokio runtime that can take a
step: the runtime polls every runnable task, and every model, storage and
Telegram call has a timeout or comes back with an error. For a turn this is
`WF_vars(Next)`: a turn is sequential, and its calls come back. The waits in the
code are for a semaphore, a mutex per conversation and channels, and every holder
is such a task. No fairness is assumed of users, operators,
Telegram, settings being submitted, or disturbances; the second half of an
application of settings that has begun is fair. For reminders, time is fair: a
scheduled job becomes due. A worker of apalis owes steps only until its `run()`
returns, which is a disturbance and may happen at any moment: `RemindersEnd` is about
what the others then do, and does not speak of jobs left in a queue without workers
(`Stranded`). `memory` states no fairness: its properties are safety,
those about the end of all writing included (`Quiet`).

**Expected counterexamples.** Four runs check one sentence of the repository's
documentation each, and find a behaviour of the code that contradicts it:

- `released_slots` / `ReleasedSlotsAreUsable`: a persistent subagent whose
  artifact was rejected is released as `Failed`; only `Idle` ones are acquired
  and nothing that is called makes it idle again.
- `kill_switch` / `KillSwitchHolds`: `safe_abort` sends without looking at the
  kill switch.
- `redis_loss` / `RedisIsDisposable`: between publication and the consumer's
  write, the stream holds the only copy of an event that anything will read.
- `reset_data` / `ResetForgets`: a reset clears Postgres and Redis and leaves the
  hot turns of the process, from which the next turn is answered.

## 4. What is proved

Eight modules hold proofs. Each inductive invariant was checked with TLC as an
invariant before it was proved.

`PlanExecution_proofs`, from `TeamAssumption` and `PlanAssumption`:

- `TypeCorrect`, `SlotsAreExclusive`, `SlotsDoNotLeak`, `RolesAreRespected`,
  `ParallelismIsBounded`, `PoolIsComplete`, for every team, set of plans,
  settings and bound, duplicate task ids included.
- `DependenciesAreRespected`, `AttemptsAreBounded`, `EndedPlansAreSettled` and
  `BoardIsImplemented` (the safety half of the refinement) under `DistinctIds`,
  an assumption of these four theorems and not of the module. Bounded attempts
  need it: of two tasks of one id the lookups meet the first, the second stays
  ready, and the first is run again in every batch.

Slot exclusivity is not inductive: that no job takes a slot another one holds
needs to know that a held slot is never idle, that a busy one has an owner, and
that a new ephemeral id was never used. `SlotInv` is the conjunction of these,
of the roles and of the ownership of the jobs. `QuietInv` (jobs exist
only while their plan runs) and `LimitInv` (permits in flight) carry the bound on
parallelism. The results about tasks rest on `TaskInv`: a task runs exactly
while it has a job, whatever is not pending has accepted dependencies, and a
task that may run again has budget left (`BudgetInv`, which relates attempts,
review loops and the attempts a job's clone was given). It is stated for a given
function of states because the loop head works on an intermediate one, after
promotion and before spawning.

`InboundPipeline_proofs`, from `IngestAssumption` and `PipelineAssumption`:
`TypeCorrect`, `PermitsComeBack`, `ConfirmedUpdatesHaveRows`, `EventsAreQueuedOnce`,
`RepliesArriveWhole`, `HotHistoryAlternates`, `ProcessedEventsAreAnswered`,
`PublishedTurnsAreStored` and `DepthIsCounted`, for any number of conversations,
events, permits, chunks and disturbances. `PlaceInv` says where an event is: with
a handler, in the queue, with the worker or in one job, and in one of these only.
`GateInv` has one job inside a gate, `ChatInv` and `SendInv` relate what the chat
shows to the chunk at which a job stands, `AnswerInv` the mark of an event to its
reply, `HotInv` and `StoredInv` the hot turns to jobs and finalizers.
`RepliesAreWhole` and `HotTurnsAlternate` are inductive only together with these,
because a job appends to what the job before it left.

`Planner_proofs`, from `PlannerAssumption` and `NumberingAssumption` (`task-1`,
`task-2`, ... are clean names, and different ones):

- `InitialPlanIsBounded` and `ContractPlanIsBounded`, that each plan of a
  request and of a contract, of whatever length, names and dependencies, fits
  the team: two to the cap's number of tasks, known roles and routes, depths
  within the limit, dependencies inside the plan, the integration last and
  depending on all. (The depth is the label of a task; how long its chain of
  dependencies is, is not bounded by it.) The filters of sequences
  are proved to return parts of them.
- `InitialPlanComesToRun` and `ContractPlanIsSound`, about the graph. Layers of
  tasks grow (`LayersGrow`), so a task is new in one layer only
  (`OneLayerIsTheFirst`), and all its predecessors are in the layers below. The
  levels are the layers that are new to some name, in their order: each name is
  on one level, after everything it depends on (`LevelsAreInOrder`). Tasks that
  bear one name are one node of the graph, whose predecessors are those of all
  of them; so this holds without distinct names. With them, what a layer holds
  has run after so many rounds (`AllComeToRun`). Plans of a request alone have
  the names and the levels, since their work waits for nothing
  (`NumberedWorkHasLevels`).

`Turn_proofs`, from `TurnAssumption` and the theorems on plans:
`CurrentDataIsCited`, `PlansAreClosedLast`, `PlansStayWithinBounds`,
`SoundPlansComeToRun`, `SkillsAreBounded`, `UnsafeDecisionsAreRefused`, `MarketToolIsNeverUsed`, and
`TurnKeepsItsContract`: initial states map to initial states of `TurnContract`
and each step to a step of it or a stutter. The invariant `IInv` says what each
stage may rely on: a plan that is run fits (`PlanInv`); the row of a plan is closed
behind those of its tasks (`WrittenInv`), of which `saved` are done; attempts are
written only of tasks that ran (`AttemptInv`); once a strategy is chosen a message
that calls for current data has its evidence, in every prompt too (`GroundInv`);
the skill under way was allowed and every call let through counts in the budget
(`EffectInv`); the user's turn is stored by the turn itself only on the way to be
ignored (`RefusalInv`). Each property is one conjunct of it at the stage where
the property speaks. `SoundPlansComeToRun` has an invariant of its own,
`SoundInv`: the plan at hand is always one of those the planner makes.

`EventBus_proofs`, from `BusAssumption`:

- `TypeCorrect` and `NoEventIsLost` for every number of events and consumers,
  every set of poisoned events, any number of disturbances, with flushes.
- `DeliveryIsImplemented` without flushes: `Spec => DeliversAtLeastOnce`, the
  whole of `Delivery!Spec`, which states no fairness.
- `OnlyFailuresBury` and `CalmBusWritesOnce`, with flushes.

`NothingIsLost` alone does not survive an acknowledgement or a
marked row. `IInv` adds that rows in the publisher's batch are still pending,
that the row it is about to mark has an entry in the stream, that a published row
always had one, that an acknowledged entry was written or buried (or erased),
and that a consumer about to acknowledge has handled what it acknowledges. For the
refinement, `Enqueue` is `Queue`, a write that takes effect is `Write`, a
dead letter is `Bury`, and whichever of marking the row and acknowledging the
last entry comes second is `Settle`; everything else is a stutter. A settled
event never becomes outstanding again because only pending rows are published.

`DeadLettersAreEarned` needs `EarnedInv`: the count of an event together with the
consumers about to raise it is never ahead of the disturbances, and a consumer
about to bury has seen the limit reached; the count alone says nothing of two
consumers who count the same failure. `OnceWhenCalm` needs `CalmInv`, which holds as
long as nothing is disturbed: an event has one entry, rows of entries are marked
or about to be, what a consumer holds was delivered to it alone, and what is not
written is still to be done by one of them.

`Reminders_proofs`, from `ReminderAssumption`, for any number of reminders,
workers and disturbances:

- `JobsEndAsTheyShould`, `JobsAreNotStranded`, `TablesStayTogether`. `ModeInv`
  is what the direct loop never touches, and while nothing is disturbed neither
  queued jobs nor ended workers; `PlaceInv` where a job may be in either mode;
  `EndInv` adds to `EndsAreEarned` that a worker past its sending has delivered
  a reminder that goes out; `CalmInv` is for behaviours without a disturbance: a
  job is in one place (`Placed`), its rows fit that place (`Rows`) and the stage
  of the worker that has it (`Stages`).
- `DuplicatesStayBounded`: delivered at most two to the number of disturbances
  times. That bound is not inductive; `Bounded` is, which counts with what was
  delivered what is still owed: every copy of the job in the queue, in the batch or
  with a worker who may send, and the row if it is to be taken up again. A step
  that disturbs nothing moves what is owed and adds nothing; the worst a
  disturbance does is a restart that hands out again all that was in the workers'
  hands, what was sent already included, and this is at most as much again.

`ConversationMemory_proofs`, from `MemoryAssumption` and `BrainAssumption`, for
any messages and limits, any number of turns, consumers and disturbances. The
inductive invariant has layers, each of which uses those below it:

- `StateInv`: types; the table of memories is sound (what is superseded leads to a
  later row about the same, of which one is active); what a consumer has read is
  about its candidates; what matched a message is active and within the limits. From
  it `GivenMemoriesAreSound`, which is about a step, a failed query included.
- `SightInv` adds the gate (turns are answered in their order, one at a time, and each
  leaves a finalizer), and that the hot turns end with the last exchange this process
  has answered, and so does what a turn under way has loaded unless it has missed
  them: `TheExchangeBeforeIsSeen`. Without the second half a turn that fills the
  cache from what it loaded before would spoil the first.
- `TableInv` adds which rows of `turns` may be there with the finalizers where they
  are, each once, the message before its answer, and that all of them are there while
  nothing has failed: `ExchangesAreStoredOnce`. `BrainTableInv` adds that the hot
  summary is the last one of the table unless a consumer has one in hand, and that
  what a consumer has read is what the table has unless another has written since:
  `TheHotSummaryIsStored`, `MemoriesAreSuperseded`.
- `MemoryInv` adds three facts. `KnownInv`: the memories on the bus, in batches and
  in hand are those captured of a turn whose finalizer has ended, and stay so.
  `WordInv`: without a race each word of each write is remembered, or was said again
  by a later write. `PendingInv`: while nothing has failed what was captured is
  written or on the bus. Together they are `TheLastWordIsRemembered`, through
  redeliveries, restarts, dropped batches and resets. A row may be merged into, so
  `WordInv` follows what was said and not the row.

What a message proposes to remember, what a merge makes of the table and what a
retrieval gives are proved step by step of the functions that compute them.

`OrderLemmas` has what these proofs share: finite nonempty sets of integers have a
least and a greatest element, on which `CHOOSE`s rest; the positions of a sequence
and what is kept of it, in order and complete; induction over an interval, from
the least counterexample (`IntervalInduction`); and that a table can be filled row
by row (`TableIsMade`), by which a function defined recursively on `0..n` is
known to exist.

**Model-checked only.** All liveness: `PlansTerminate`, `EventsPass`,
`EverythingSettles`, `RemindersEnd` and the fair halves of `ImplementsBoard` and
`MeetsContract`, whose step-by-step halves are `BoardIsImplemented` and
`TurnKeepsItsContract`. Liveness under fairness and `ENABLED` are out of the prover's
reach. The induction schemes of the library cannot be used, as they take an operator;
where a recursion runs over an interval `IntervalInduction` stands in for them.
`NumberingAssumption` is an assumption because the prover does not compute
`ToString`; TLC evaluates it for the sizes of its instance.

## 5. What is not modelled, and why

- *Contents.* Prompts, answers, artifacts, values of memories and tool results
  are data the properties above do not tell apart.
- *Views and parsing.* Dashboard pages, presenters, authentication, logging,
  identity and skill manifests, configuration, the tracks of an analysis.
- *Runtime events.* Broadcast to the dashboard and stored after up to three
  attempts; nothing in the runtime reads them back.
- *The broker.* A call of a model is one outcome of `Turn`; fallbacks over routes
  and models are below it.
- *Of the event bus.* The dashboard's own consumer, the approximate trim of the
  stream by MAXLEN, and `reset` under running consumers (`ConversationMemory`
  has it; in `EventBus` a poisoned event stands for one whose conversation is gone).
- *Of ingest and pipeline.* The replay command, the typing notifier, the
  normalisation of updates.
- *Of memory.* Facts and documents and their search, the cached reads other than
  the context, what each builtin skill does.
- *Of the pool.* Heartbeats, `force_idle` (no caller) and snapshots, which
  nothing reads back into the pool. `execution/leases.rs` has no caller.
- *Joins that fail.* A spawned job that panics or is aborted (section 2,
  PlanExecution).
- *The process at a panic.* In release builds a panic is a restart; the models let
  a task die of it (section 2, ConversationMemory).
- *Lock internals.* `effective_parallel_limit` takes the config read lock again
  while it holds it; the model takes a lock's critical section as one step and
  does not show the wait this may cause.

Two behaviours the models have are at odds with a document, and the properties that
hold say less for it:

- a plan has as many levels as its dependencies make: `plan_max_depth` clamps a field
  of the tasks only, whereas `docs/THREAT_MODEL.md:35` lists "Bounded plan size/depth".
  `PlansAreBounded` bounds the size;
- a reply made of tool results is written without the evidence in its prompt, also
  when no tool succeeded, whereas `README.md:172` to `176` ask for evidence before an answer.
  `CurrentAnswersHaveSources` says that the decision to call the tools had it.

Behaviours the models have and no property forbids, because no document of the
repository promises otherwise:

- a draft of some quality goes out marked as provisional when nothing was
  accepted (`Integrate`);
- skills and facts of a decision take effect before `safe_to_send` is looked at;
- a contract whose tasks depend on each other in a circle is materialised, runs
  nothing and ends (`has_cycle` has no caller);
- the rows of a reply are lost with the job if a later chunk fails;
- a memory of an earlier turn may be written after that of a later one, without
  any failure (batches of two consumers), and is then the one remembered: the order of the
  turns is compared but does not decide (`candidate_should_supersede`);
- a turn whose query of the memory documents fails does not see the exchange
  before it, if that is not stored yet;
- two messages of one conversation may be answered in either order, and after a
  restart the hot turns hide the older ones of Postgres;
- an update whose row exists but whose event was dropped (full queue, restart) is
  taken for a duplicate from then on; only the replay command brings it back;
- markers are found inside other words (`use` in `because`), and a message that is
  only a path is not remembered, being its own duplicate.

## 6. Plan

Written: plan execution with its pool, the inbound pipeline, the event bus,
reminders, a turn with its routing and planner, memory; each with proofs of all
the invariants its runs check. Next, most important first:

1. What `Routing` promises of every message: which of the strategies exclude each
   other, and that a message which requires evidence takes none that has no use
   for it.
2. The retry and permission operators of `Turn` against what plans need of them,
   and `Outcomes` against the runs of `PlanExecution`.
3. A lock of many readers and one writer that does not let a reader enter twice
   past a waiting writer, for the settings of the pool.
4. The broker: routes, fallbacks and their time limits.
