# JobScheduler: a TLA+ verification project

JobScheduler (`src/`, Go, module `jobsched`) accepts jobs over HTTP, keeps them
in a waiting queue, and on every tick hands those that are due in the current
window to an executor that holds a lease. Each executor is a goroutine with a
bounded channel, `exec.Runner`. This directory has the TLA+ modules of that
system, the TLC configurations that check them and the proofs that TLAPS checks.

- Check a model: `tlc -config runner_safety.cfg MCRunner`
- Check proofs: `tlapm RunnerProofs.tla` (one module at a time; `SlotProofs`
  extends `RunnerProofs`, and `ReadersProofs` extends `SchedulerProofs`)

## 1. The system

### Processes

| Process | Started by | What it does |
|---|---|---|
| HTTP handlers, any number | `net/http` | publish a job, register an executor, read status |
| tick goroutine | `main.go:57` | `Dispatcher.Tick` with the time its ticker sent |
| heartbeat goroutine | `main.go:56` | `Heartbeat.sweep`: evict lapsed leases, renew the others |
| run goroutine, one per Runner | `runner.go:51` | receive from the channel, run the handler |
| replayers and dispatchers | callers of the packages | `Dispatcher.CatchUp`, `Dispatcher.Dispatch` (no route of the server calls them) |

Every table has a mutex of its own, and no lock spans two of them. A call into
a table is atomic and a handler is not: most of what is hard here lies between
two such calls.

### Components, their state, operations and what makes them correct

| Component (source) | State | Operations | Correct when |
|---|---|---|---|
| Runner (`exec/runner.go`) | channel, dedupe table, replay flag and buffer, closed flag, WaitGroup, two closed-once channels | Enqueue, ReplayWrite, BeginReplay, EndReplay, Shutdown, run | answers agree with what happens; one instance per key in flight; order kept; replays first; released only when idle |
| Runner table (`exec/manager.go`) | runner per executor | Add, Get, Remove, Dispatch | holds the runner that belongs to the lease |
| Lease table (`lease/`) | lease and slot number per executor | Acquire, Renew, Evict, Executors, ExpiredLeases | the maps agree; slot numbers are unique and never revived |
| Heartbeat, evictor (`heartbeat/`) | none but the ticker's time | sweep, Evict | only lapsed leases go; a runner goes when it is idle |
| Publish pipeline (`publish/`, `cmd/jobsched/server.go`) | progress cursor | Publish | what was accepted is stored, registered and, when ready, queued |
| Waiting queue (`queue/`) | bounded heap by due time and id | Enqueue, Drain, Next, Snapshot | no task is lost or copied |
| Store and cursor (`store/`) | ring, sequence, dispatch cursor, marks | Append, Commit, MarkDispatched, Since | the cursor is backed by a hand-off |
| Tick (`dispatch.Tick`, `clock/`) | none | drain, dispatch what is in the window, put back the rest | each task handed off once, in its interval |
| Group dispatch (`dispatch.Dispatch`) | cache of ordered groups | Dispatch | a cached snapshot with the current version is the current group; no deleted task is dispatched |
| Registry (`registry/`) | task, state and incarnation per id; list and version per group | Register, Delete, SetState, GroupTasks, Alive | what is shown happened |
| Dependencies (`deps/`) | edges, counters, reference counts | Add, Satisfy, Delete, Ready, Refs | counters equal what they count |
| Flow control (`flow/`) | token bucket per executor | Allow | exactly the configured budget |
| Catch-up (`dispatch.CatchUpFrom`, `dispatch/catchup.go`) | the window of the runner | open, Since, ReplayWrite, close | a replay misses nothing that was handed off before its window |
| Retry planner (`retry/`) | attempts per task | Requeueable, Plan, Reset | no task gets more attempts than the budget, nor one attempt twice (not wired in the server) |
| Execution records (`store/`, the handler in `main.go`) | latest record per task | RecordTaskExecution, ClearTaskRecord | the record of an execution stays |
| Backlog, status page (`store/backlog.go`) | none | reads under one lock after another | the numbers shown do not contradict each other |
| Metrics, console, probe | counters | read for display | |

Interactions. *Publish*: handler -> `deps.Add` per dependency -> `store.Append`
-> `registry.Register` -> `deps.Ready` -> `queue.Enqueue` -> progress. *Tick*:
`queue.Drain` -> `leases.Executors` -> for each task limiter, `execs.Dispatch`
(runner table, then the runner's Enqueue), `store.MarkDispatched`,
`store.Commit`, `registry.SetState`; or `queue.Enqueue` again. *Sweep*:
`leases.ExpiredLeases` -> for each `leases.Evict`, `execs.Get`,
`Runner.Shutdown`, `Runner.Wait`, `execs.Remove`; then `leases.Executors` ->
for each `Expired`, `Renew`. *Registration*: `execs.Add`, `leases.Acquire`.

Nothing is persisted and no message crosses a network that could lose it, so
there is no recovery to model. Failures are full queues, timers, refusals,
shutdown and executors that go away and come back.

## 2. The modules

| Module | Models | Steps |
|---|---|---|
| `ExecutorSlot` | abstract: what a slot promises its clients | a call, its answer, start, finish, close, release |
| `Runner` | `exec/runner.go` and the replay window of `dispatch/catchup.go` | each critical section of `r.mu`, each channel or WaitGroup operation |
| `Membership` | lease table, runner table, heartbeat, evictor, registration, and a tick that hands over jobs | each call into a table; runners as abstract slots |
| `Scheduler` | publish pipeline, store, queue, tick, task states, clearing of records | each call into a table; executors as an environment |
| `Readers` | `Scheduler` with a catch-up, the handler that records executions, and the status page's backlog | each call into the store or the runner |
| `Groups` | registry with its groups, ids that move between them and incarnations; `Dispatcher.Dispatch` and its cache | each call into the registry |
| `Deps` | dependency graph and its use by publish | each call into the graph |
| `Limiter` | token bucket | each call of Allow |
| `Retry` | retry planner with concurrent clients | each call of Requeueable, Plan, Reset |
| `RunnerProofs`, `SlotProofs` | theorems about `Runner`: idle release, windows, answers and keys; the refinement of `ExecutorSlot` and the order of delivery | |
| `MembershipProofs`, `SchedulerProofs`, `ReadersProofs`, `DepsProofs`, `GroupsProofs` | theorems about the module of that name | |
| `LimiterProofs` | theorems about `Limiter` and `Retry` | |
| `MC*` | constants and symmetry for TLC; `MCTables` runs `Groups`, `Deps`, `Limiter` and `Retry`, one of them in each behaviour | |

How state and actions correspond to the code:

- **Runner.** `in`, `inflight`, `replay`, `buffer`, `closed`, `stop`, `done`,
  `wg` are the fields of the struct. `cpc`, `rpc`, `spc`, `wpc` are where a
  caller of Enqueue, a replayer, a caller of Shutdown and the run goroutine
  stand. `r.mu` has no variable: only `sendLocked` blocks while holding it, so
  it is taken exactly when a replayer is in `replaySend` or `flushSend`
  (`MuFree`). A timer may end the send it guards at any moment, also when there
  is room by then (Go's select takes either); that is a timer of any length.
  `result`, `calls`, `path` and `ran` are history.
- **Membership.** Time is a number. A sweep uses the time its ticker sent
  (`asOf`), any time later than the sweep before and not in the future, since
  `time.Ticker` keeps one value. The n-th runner of an executor is `<<e, n>>`,
  so a runner that was replaced in the table is still there. An Enqueue that
  found its runner open and full waits in a step of its own, and may be
  accepted when the runner is closing (`DispatchSend`). `late` remembers
  whether two sweeps started more than `LeaseTimeout` apart, `listed` the next
  slot number at the time the sweep made its list, and `crossed` which
  executors' last eviction overlapped a registration.
- **Scheduler.** The handler computes the due time of a task (`server.go:129`)
  and appends the task later, after it has declared the dependencies, and a
  request may ask for a time in the past. `AppendTask` therefore takes any due
  time, relative to the append, that the environment's delays have, down to
  `Past` units ago. A full ring refuses after the sequence number was drawn, as
  in the code. `Environments` holds what is outside: which faults there are,
  the delays that requests carry, the limits, and the bound on the clock; one
  is chosen initially. `lost` records the two places where the code drops a
  queued task.
- **Readers.** Extends `Scheduler`: its steps go on while a replay reads and
  writes, a runner's handler runs tasks, or the status page reads. The retained
  tasks are a set with their sequences, because nothing ever leaves the ring;
  `Since` returns those the cursor has passed in the order of their sequences.
  A replay ends after any number of writes, since `Runner` may refuse one. An
  environment names which of the readers are there.
- **Retry.** `asked` is what a client was told by Requeueable and has not acted
  on yet; `planned` is history. The key that Plan copies into the instance is
  the key of an `Inst` in `Runner`.
- **Groups.** The table is keyed by id alone and an entry has the group of its
  last registration. An id registered again under another group is appended to
  that group's list and stays in the list of the former one; `Delete` and
  `SetState` change only the group the entry has. `Strays(g)` are the ids that
  `g` lists and that are registered elsewhere or deleted. `mu` is the set of
  dispatchers holding `d.mu`. A batch that is being sent is a local variable,
  as in the code.
- **Deps.** Its definitions carry the module's name where another module of the
  run has one of the same name (`DepsInit`; likewise in `Groups`, `Limiter`,
  `Retry`); `DeleteNode` is `Graph.Delete`. A request may repeat a name, leave
  it empty, or name a task published before. Satisfy and Delete come from a
  client at any time.
- **Limiter.** A token is `Unit` grains in place of a float64, so that
  fractions of tokens exist; float rounding is not modelled.

A definition whose comment begins with "Variant" is not part of the model. It
is a mutation of the definition after it, the way a bug might look, and each
checked property is known to fail when one of them takes its place.

## 3. What the runs check

Passing runs:

| Run | Instance and bounds | Shows |
|---|---|---|
| `runner_safety` (1.0 million states) | 3 instances, two with one key; 2 callers, 2 replayers, 2 closers; channel of 1 | the types; a released slot is idle; who was refused never runs; accepted instances are not dropped; deduplication and order hold with the exceptions of section 4; replay windows exclude each other; `Runner` implements `ExecutorSlot` |
| `runner_live` | the same instances; 1 caller, 1 replayer, 1 closer; channel of 1 | a shutdown ends, every call returns, a queued instance runs unless the slot closes |
| `member_safety` (5.7 million) | 2 executors, 2 handlers, 2 registrations of each, 2 jobs, time to 4, timeout 1 | the lease table is consistent, a slot number is never revived; timely sweeps evict nobody; the lease an eviction takes has lapsed or was acquired since the listing; lease and open runner go together, with the exception of section 4 |
| `member_live` | 2 executors, 1 handler, time to 3 | an eviction ends |
| `sched_safety` (6.6 million) | 3 tasks, 2 publishers, six environments: every fault; the smallest limits with every fault; no fault and early requests; the same with a queue smaller than the store; a status page; a catch-up and the handler | handed off at most once; the cursor is backed; what the console shows is true; every accepted task is accounted for; with early requests and no faults, each is handed off in its interval, or there was no room to put it back, which a queue as large as the store always has; a replay misses nothing and holds nothing the hand-offs have not reached; a record of a live execution stays; the backlog makes sense |
| `tables` (1.3 million) | one of four instances in each behaviour | |
| - groups | 2 ids, 2 groups, 2 dispatchers, 3 writes (registrations and state changes of clients), any deletions, 2 calls of Dispatch, due times zero and later | a snapshot cached under the current version is the group, and a batch holds tasks alive during the call, but for strays |
| - dependencies | 3 tasks, 4 names, 7 lists with repeated and empty names, any deletions | the counters are exact and the reference counts are off by what leaked; no task is queued before its dependencies were resolved |
| - limiter | 2 executors, rates of 3/4 and 5/4 tokens per unit, one invalid policy, time to 5 | no stretch of time exceeds its budget, and no call is refused that every stretch could afford |
| - retries | 2 failed tasks, one without a key, 2 clients, a budget of 2, one reset | retries stay in their budget, each attempt planned once |

Why the bounds are enough for what they are to show. Two of each process and
two instances of one key are the smallest with every race between two of a
kind; a third instance fills the channel behind the one being executed, and is
needed for a sender that holds the lock while the receiver waits for it. In
`Membership` two registrations let an executor come back during and after its
eviction; four units of time allow a lease to lapse, to be evicted, and a
second sweep. In `Scheduler` a capacity of two with three tasks fills ring and
queue, and four units of time are two intervals; on-time delivery has seven.
The status page reads once while two tasks go all the way from publish to
commit, so each of its eight reads can fall between any two of their steps; the
catch-up has tasks before, during and after its window, and tasks that a later
one overtakes. In `Retry` two clients asking for one task with one attempt left
is the race; a reset between the two calls is the other. The four modules of
`tables` share no variable and no client, so nothing is lost by running each
alone; they are in one run because each is small. In `Groups` three writes are
two registrations under different groups and the end of the task, or a third
registration, while one dispatcher reads a group and another reads the other
group or uses what the first has cached. The zero due time both ends a batch
and makes a group unordered when it is listed second. Deadlock is not checked
where every client may stop (all calls made, the clock at its bound).

Runs that TLC finds violated, each against what the repository says of itself:

| Run | The code | The statement |
|---|---|---|
| `runner_leak` | a slow Enqueue reserves its key after the send; the instance may have run and released it by then, and the key is never free again (`runner.go:85-89`) | "ErrDuplicate is returned when an instance with the same dedupe key is already in flight" (`runner.go:16-17`) |
| `runner_overtake` | an Enqueue that waits for room does not look at the replay flag again and sends into a window opened meanwhile (`runner.go:84`) | "so replayed tasks always precede them" (`catchup.go:10`) |
| `member_orphan` | `execs.Remove` drops whatever runner the table holds after the wait, perhaps a new one that is running a job (`evictor.go:42`) | "waits for the runner's in-flight task to finish before releasing the slot" (`evictor.go:29-30`) |
| `sched_late` | an overdue task is out of the window too and comes first: the tasks of the window behind it are put back with it (`dispatch.go:139`) | "once a task is out of the window everything after it is too" (`dispatch.go:140-141`) |
| `deps_parked` | Satisfy lowers counters only; a published task that has become ready is never enqueued (`deps.go:55`) | "marks a dependency as satisfied and notifies dependents" (`deps.go:51`) |
| `groups_moved` | an id registered again under another group stays listed in the former one, whose version does not change when the task is deleted; the next Dispatch of that group takes it from the cache (`registry.go:51-53`) | "a deleted task never keeps dispatching from a stale view" (`dispatch.go:162-163`) |

## 4. Exceptions the properties name

Some properties hold in the code only up to a stated exception. The exception
is in the formula, as narrow as the code allows, and each one is a behaviour of
the code that TLC finds as soon as the exception is taken out:

- `OnePerKey`: an instance on the slow path gives its key back while it waits
  for room (`runner.go:80`), and the flush and ReplayWrite do not look at the
  table. Keys that were only ever sent at once are exclusive.
- `NoSilentDrop`: EndReplay ignores that the channel stayed full and drops a
  parked instance whose Enqueue returned nil (`runner.go:130`).
- `LiveInOrder`: EndReplay closes the window before it has sent what was
  parked, and unlocks in between; a later call overtakes (`runner.go:125`).
- `LeaseHasRunner` (`crossed`): an eviction takes the lease first and removes
  the runner by name last (`evictor.go:32,42`), a registration adds the runner
  first; when they overlap, the executor can keep its new lease and lose its
  runner, until it registers again. However often an executor is evicted and
  comes back without such an overlap, the two go together.
- `OnlyStaleEvicted` (`listed`): an executor that was listed as expired and
  comes back before the sweep gets to it loses its new lease
  (`heartbeat.go:52`). Leases that were there when the list was made are taken
  only if they have lapsed.
- `LeaseKept`: sweeps more than `LeaseTimeout` apart, as when an eviction waits
  for a slow handler, let healthy leases lapse.
- `Accounted` (`lost`): a task that limiter or runner refuses is not put back
  (`dispatch.go:146`), and putting back ignores a full queue
  (`dispatch.go:157`).
- `OnTime`: tasks published less than an interval ahead, which may be overdue
  when a tick first sees them, and then are in no later window; and tasks that
  the tick drained and could not put back because publishers had filled the
  queue (`dispatch.go:157`), of which there are none while the queue is as
  large as the store.
- `RefsExact` (`leaked`): this is what the code does and not what its comment
  says. `clearRefs` is there "so reference counts never leak"
  (`refcount.go:17-19`), but deleting a node leaves the counts of the names the
  node waited for: after `Add(b, [a])` and `Delete(b)`, `Refs(a)` is one and no
  dependent references `a`. The property says exactly how far a count is off:
  by the nodes deleted while they waited, until the name itself is resolved.
- `CacheFresh`, `BatchAlive` (`Strays`): a group that lists ids registered
  elsewhere is not told of their changes, see `groups_moved`. A cached snapshot
  is then still right for every id of the group, and only strays can be
  dispatched dead.
- `ReplayBacked`: a replay holds tasks up to the last hand-off, and among them
  those that were overtaken, or whose publish failed after the append; the
  replay runs them although the tick has not handed them off (`store.go:76`).
- `RecordKept` (live executions): a replay can run a task that was stored but
  whose publisher has not come to ClearTaskRecord, which then clears the record
  of that execution (`publish.go:47`).
- `BacklogCoherent`: the first pending sequence may be above the next one that
  was read before it, if the cursor got there in between (`backlog.go:16-22`).

Four more facts are visible in the actions, and no property is about them. The
dispatch cursor passes tasks with smaller sequences that were refused or still
wait (`Commit`). Nothing ever leaves the ring (`RingFull`). "A task id that
already finished or was removed starts a fresh incarnation"
(`registry.go:39-40`) is not so for an id that was deleted: it has incarnation
one again (`Register`). And the state a dispatch sets by id after its hand-off
may overwrite that the task had ended, so that the next registration keeps its
incarnation (`MarkState`). Nothing calls `Registry.Incarnation`.

## 5. Liveness and fairness

Weak fairness is assumed for each goroutine's own next step, and for nothing
else: goroutines are scheduled, the handler returns, and a goroutine waiting
for a `sync.Mutex` gets it, whose starvation mode guarantees that. Weak
fairness of a step guarded by `MuFree` is enough in `runner_live` only if the
lock is not taken again and again for ever; with finitely many instances it is
not. No client has to call, no replay to begin, no shutdown or registration to
happen, and time need not pass. A channel send or a timer is one step of the
goroutine that waits for either, so a full channel cannot hold it up for ever.

- `ShutdownReleases`, `CallsReturn`, `QueuedRuns` fail when the WaitGroup is
  not decremented or when a send under the lock has no timeout.
- `EvictionCompletes` fails when the eviction waits for the queue to drain.
- `WaitersReleased` is violated under the fairness of the publish steps.

## 6. What is proved

For every value of the constants that satisfies the named assumptions, which
are those that the modules declare. Any number of goroutines, instances,
executors, tasks and registrations is covered; the bounds of the runs are
constants too (`MaxRegs`, `MaxTime`), so the theorems hold for every bound.

| Module | Theorems | State |
|---|---|---|
| `RunnerProofs` | `TypeCorrect`, `ReleasedSlotIsIdle`, `ReplayWindowsExclusive`, `RefusedInstancesNeverRun`, `AcceptedInstancesKept`, `OneInstancePerKey` | `TypeOK`, `ReleasedIdle`, `OneWindow`, `RefusedNeverRuns`, `NoSilentDrop`, `OnePerKey` |
| `SlotProofs` | `RunnerIsSlot`, `DeliveredInOrder` | `Spec => RefinesSlot`: `Runner` implements `ExecutorSlot`; `LiveInOrder` |
| `MembershipProofs` | `TypesKept`, `LeaseTableAgrees`, `TimelySweepsKeepLeases`, `LeaseMeansRunner`, `ReclaimedNotRevived`, `EvictionsJustified` | `TypeOK`, `LeaseTable`, `LeaseKept`, `LeaseHasRunner`, `NoRevival`, `OnlyStaleEvicted` |
| `SchedulerProofs` | `TypeCorrect`, `NeverHandedTwice`, `CursorNeverAhead`, `StatesTruthful`, `TasksAccounted`, `HandedOnTime` | `TypeOK`, `HandedOnce`, `CursorBacked`, `StateTruthful`, `Accounted`, `OnTime` |
| `ReadersProofs` | `ReadersHarmless`, `ReplayComplete`, `ReplayBehindHandOffs`, `RecordsStay`, `BacklogMakesSense` | what is proved of `Scheduler` holds with the readers too; `ReplayCovers`, `ReplayBacked`, `RecordKept`, `BacklogCoherent` |
| `LimiterProofs` | `BucketTyped`, `BudgetKept`, `RefusalsJustified`, `RetriesBounded` | `LimiterTypeOK`, `WindowBound`, `Exact`, `RetryBudget` |
| `DepsProofs` | `GraphTyped`, `PendingCounted`, `RefsCounted` (finitely many ids), `QueuedWereReady` | `DepsTypeOK`, `PendingExact`, `RefsExact`, `QueuedReady` |
| `GroupsProofs` | `GroupTyped`, `CacheStaysFresh`, `BatchesAlive` | `GroupsTypeOK`, `CacheFresh`, `BatchAlive` |

Every inductive invariant below was checked by TLC, on the instance of its run,
before it was proved. The arguments:

- *A released slot is idle.* `ReleasedIdle` is not inductive: it does not say
  why no handler starts once `done` is set. `IInv` adds that the WaitGroup is
  one exactly while an instance is being executed (`WgCounts`) and that
  `closed`, "WaitGroup at zero", `stop` and `done` come in this order
  (`ShutdownOrder`). CheckClosed is the only step that raises the WaitGroup,
  and it does so under the lock with `closed` false, so zero stays zero.
- *Windows.* `OneWindow` is inductive beside the types.
- *Answers.* `Delivery` relates, for each instance, what its call has returned
  to whether the slot has taken it: a call that waits has not put it anywhere,
  a refused one never did, and one whose send succeeded is taken even before
  the late reservation. Only the flush and a closed slot take it away again.
- *Keys.* `Keyed` speaks of keys whose instances were all sent at once: what is
  queued or executing holds its reservation, and nothing else with that key is
  there. `Ways` adds that an instance sent at once is in the channel once at
  most and never with the worker at the same time; without it the worker could
  release a key that a copy still needs.
- *Refinement.* `Located` says that an instance is in one place only: the
  buffer, one flush list, a send under the lock, the channel, the worker's
  hands, or among those that ran. Each step then moves one instance from one
  stage to the next, which is a step of `ExecutorSlot`, or moves none, which is
  a stutter; the worker's drop at shutdown and the flush's are the slot's
  "lost".
- *Order.* `Lined` says of every two instances of one caller, neither parked,
  that the later has not overtaken the earlier anywhere on the way: not in the
  channel, not between channel and worker, not in what ran. Only two kinds of
  steps could break it. A new call appends to the channel, behind all there is;
  a slow send appends late, but `Listed` says that it is its caller's last
  call, so nothing of that caller can be ahead of it. That nothing runs twice
  (`RanOnce`) is `Located` again. The statement compares positions in `ran`,
  not the lists of what each caller had run, so no induction is needed.
- *Leases.* `LeaseTable` is inductive beside the types, and `NoRevival` follows
  from its last conjunct, that all slot numbers are below the next. `Timely` is
  why a sweep that starts in time finds nothing lapsed: every lease was renewed
  by the sweep before, or was acquired since, or has still to be renewed by the
  sweep that is under way. `Paired` follows runners through any number of
  registrations: a runner in the table is open unless its eviction is under
  way; a registration that no eviction overlaps keeps the runner it found or
  made until it has acquired the lease; and an eviction that no registration
  overlaps finds the lease gone and nobody about to acquire it when it removes
  the runner. That is where the order of the calls matters, runner before lease
  in one and lease before runner in the other. `Stale` carries, from the
  listing to the eviction, that a listed lease has lapsed or has a number not
  given before the listing.
- *Hand-offs.* `Places` says that queue, batch, hand-offs and drops are disjoint
  and hold only tasks that were appended and registered; `Publishing` keeps a
  task that a publisher is working on out of all of them until it is enqueued;
  `Marking` says how far the tick is with the task in its hands.
- *In time.* `Horizon` is the earliest due time a waiting task can have: the
  start of the current window, or of the next once this window had its tick.
  `Ahead` keeps the queue beyond it, the batch beyond the begin of the tick's
  window, and what publishers hold an interval ahead; time cannot leave a
  window without its tick, so the horizon moves only when the tick has drained
  all before it. `NoLoss` counts: queue, batch and the tasks that publishers
  hold are different retained tasks (`Held`), and a queue with room for all
  retained ones is not full for any of them.
- *Readers.* `Stored` says that the sequences given to tasks have no gap, a full
  ring refusing for ever after. `Replaying`, `Recorded` and `Viewed` relate what
  was read to what only grows: hand-offs, marks, cursor, ring. `Viewed` has one
  conjunct for each pair of reads that `BacklogCoherent` compares, which is
  where their order matters.
- *Budget.* `WindowBound` needs that the grains left in a bucket plus what was
  allowed since any moment stay within the budget of that stretch at the time
  of the last use (`Spent`); the proof is by cases on whether a stretch began
  before or after it, and all arithmetic on products is in lemmas. `Exact`
  needs the other direction, that the bucket has no fewer grains than that:
  `Tight` says that for some stretch up to the last use the bound is met with
  equality. A refill keeps that stretch, and one that is capped at the capacity
  starts a new one, which is empty. A refusal then has a stretch that could not
  have afforded the call.
- *Retries.* `Numbered`: the counter is the number of instances planned.
- *Counters.* `PendingExact` carries that each node's edges are finite; adding
  or removing one element changes the cardinality by one exactly if it was new
  or there. For `RefsExact` the waiters of a name are a set of tasks, and a
  deletion that takes waiters away adds their number to `leaked`. `Settled`
  says that a declared dependency is open or resolved, and that the request
  which is about to enqueue its task found none open.
- *The cache.* A group is read id by id while others register, delete, move ids
  and change states. `Scanning` says of a dispatcher for whom the version is
  still the one it started with: what it has read tells of every id of the
  group what the table has of it, and if the group has no strays, it has read
  exactly the prefix of the group that one read under the lock would give. So
  what it stores when it reaches the end is right (`Cached`); once the version
  has moved on, its snapshot carries a version nobody asks for again. What
  makes this inductive is a case distinction over the calls of the registry
  (`Moves`): of each group, a call either leaves list, version and the entries
  of its ids alone, or raises the version; and what was a stray remains one or
  is alive again. `Listed` says that a task is in the list of the group that
  its entry names, without which a dispatcher could miss one. `Seen` relates
  table, cache and half-read groups to what was alive since a call began, or is
  a stray. What is kept of a list is a recursive function of the turns of
  Delete's loop; that it is defined, that what it keeps are elements of the
  list that are to be kept, and that they stay where they are in later turns,
  are lemmas proved by induction over the turns, with the well- foundedness of
  the natural numbers for the *set* of turns that satisfy the claim.

Every invariant and every action property of the passing runs is a theorem.
Checked by TLC only is liveness (`ShutdownReleases`, `CallsReturn`,
`QueuedRuns`, `EvictionCompletes`), which the prover does not treat, and the
six violations, each of which is one behaviour.

## 7. Not modelled

- Metrics, configuration, probe, the console page, the rest of the status page:
  atomic counters, constants and single reads without protocol state.
- The data types of `model/`: the fields and states they define appear where
  they are used.
- The array of `container/heap`: the queue is a set with the order of `Less`.
  `Queue.Next`, `Peek` and `Snapshot` have no caller. (`Snapshot` promises an
  ordered copy, `queue.go:68`, and returns the heap array as it lies, which is
  ordered in its first element only.)
- Positions in the ring, since nothing leaves it.
- `Store.MarkDispatchedBatch`, called after a group dispatch, marks again the
  sequences that each hand-off has marked already (`dispatch.go:197-199`).
- `Planner.NextDue` takes a window and returns its task with the same due time.
- Of an execution record, all but its presence; of an instance in `Readers`,
  all but its task and whether it was a replay.
- float64 rounding in the limiter; cancellation of the context a caller passes.
- In `Scheduler`, publishing one id twice: ids are fresh uuids.

## 8. How the project grew, and what could follow

The order was: the runner, where most of the concurrency is; membership, which
composes abstract slots with leases and sweeps; publish and tick; groups,
dependencies and flow control; then the readers of the store with catch-up and
records, incarnations, the retry planner, and the proofs of most safety
properties and of the refinement; then the order of delivery, hand-offs in
time, exact refusals, ready tasks and all of `Groups`, whose arguments are
about sequences, time, equality and recursion; last the groups that ids move
between, and any number of registrations of one executor. What could follow:

1. The key of a retried instance in `Runner`: a retry is refused exactly while
   the first attempt is in flight, which is `DuplicateMeansInFlight` and fails
   for the reason of `runner_leak`. A bound on the keys that leak (those of
   instances on the slow path) would be its largest true part.
2. A theorem that `Scheduler`'s tick over `Runner`s, rather than over an
   environment that refuses, keeps what is proved: `ExecutorSlot` is the
   interface for it.
