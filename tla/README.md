# A verification development for shell-operator

shell-operator runs hooks (executables) when objects in a Kubernetes cluster
change or a schedule fires. Its promise is about delivery: every change of a
watched object reaches the hook, first as a snapshot (the Synchronization), then
as a stream of events, in order, each until the hook has succeeded. The code that
keeps this promise is concurrent: informers of client-go call back, a channel
leads to one goroutine that fills task queues, and one worker for each queue runs
hooks and reaches back into its own queue. Around that path are the parts that load
hooks, run them as child processes, apply what they ask for, answer admission and
conversion webhooks, and start and stop everything. These modules model them, check
them with TLC and prove part of them with TLAPS.

## The system

| Component | State | Operations | Interacts through | Module |
|---|---|---|---|---|
| Task queue (`pkg/task/queue`) | tasks, processing flags, a counter by hook, pooled slices, status | `AddLast`, `compaction`, `waitForTask`, `processOne`, `ProcessResult`, `DeleteFunc` | events goroutine adds, worker takes, handler deletes | `TaskQueue` |
| Task storage, linked list | ring of pointers, index by id | insert, remove, iterate, delete by a predicate | one lock; elements are held outside it | `TaskStorage`, `TaskSequence` |
| Task queue set | queues by name, a context | `NewNamedQueue`, `AddTailTasks`, `Stop`, `Shutdown` | polls the status of the queues | `Operator` |
| Task handlers (`pkg/shell-operator/operator.go`) | metadata of tasks | `taskHandleHookRun`, `combineBindingContextForHook`, `taskHandleEnable*` | run in the worker, unlock monitors | `TaskQueue`, `Operator`, `HookRun` |
| Manager events handler | none | receive from two channels, queue tasks | channels of one element | `Operator` |
| Resource informer (`pkg/kube_events_manager`) | cache of objects, event buffer, flag | `loadExistedObjects`, `handleWatchEvent`, `getCachedObjects`, `enableKubeEventCb` | called by client-go, by the worker and by readers of snapshots | `ResourceInformer` |
| Factory store | shared informers by index, handler registrations | `Start`, `Stop`, `WaitStopped`, `Reset` | one lock, released for waits | `FactoryStore` |
| Monitor, kube events manager | informers by namespace, monitors by id | create, start, stop, snapshot, enable | namespace callbacks | `KubeMonitors` |
| Binding controllers | links from monitors, crontabs, webhooks to bindings | enable, disable, update, handle event, snapshots | called by handlers | `KubeMonitors`, `Operator`, `Admission`, `Conversion` |
| Schedule manager | cron entries with the ids that use them | `Add`, `Remove`, `Start`, `Stop` | channel of one element | `Operator` |
| Bootstrap and life cycle | context, servers, wait group | `NewShellOperator`, `Start`, `doShutdown` | starts and stops all others | `Operator` |
| Hook configuration | none | version, conversion, checks, groups | document printed by a hook | `HookConfig` |
| Hook manager | hooks by name and by binding | load, find | files | `Admission` |
| Hook run, executor | temporary files, child processes, registry of pids | `Run`, `startAndRegister`, `Wait` | files, processes, a reaper | `HookRun` |
| Object patch | none | parse, operations on objects in sequence | API server | `HookRun` |
| Admission webhooks | two resources with their webhooks | register with retries, route a review | HTTP, API server | `Admission` |
| Conversion webhooks | chains of rules and their cache | register, find a chain, convert | HTTP, API server | `Conversion` |
| Runtime configuration, jq, metrics, settings | | | | not modelled |

Hard behaviours, and what correctness means for them:

* *Task queue.* `AddLast` does not take the lock of the queue, so a compaction in
  the events goroutine interleaves with everything the worker does. Correct means:
  no binding context is lost, none gets to another hook, contexts stay in order,
  the worker stops only when told, a panic or a failed run loses nothing, and a
  Synchronization unlocks its monitors.
* *Task storage.* Elements are handed out by an iteration and removed later, when
  others may have removed them. Correct means: ring and index agree, a removed
  element stays removed, the whole is a sequence.
* *Resource informer.* The cache, the buffer and the flag have two locks and three
  goroutines. Correct means: snapshot and events together tell every change, in
  order; the cache catches up with the cluster; nobody blocks for ever on the
  channel.
* *Factory store.* `Stop` releases the lock to wait. Correct means: a consumer that
  is not stopped keeps being served, `Stop` returns, a shutdown ends every informer.
* *Monitors.* Namespaces come and go while events are being enabled, and bindings are
  enabled, updated and disabled by different goroutines. Correct means: enabling
  repairs what it finds, informers follow namespaces and are not silent, one run sees
  one snapshot.
* *Start and shutdown.* One-element channels whose receiver may be gone, bounded waits,
  a signal at any moment. Correct means: onStartup hooks are first, no task arrives
  before its queue, stopping terminates and leaves nothing that runs hooks.
* *Conversion.* A search with a cache that concurrent requests fill and whose paths are
  slices. Correct means: a chain leads from the source to the target version by rules,
  a chain that exists is found, reviews are answered.
* *Admission.* What is registered in the API server outlives the process. Correct
  means: a review gets to the hook that asked for it, an object passes only by a hook's
  answer, registration converges after failures and restarts.
* *Hook run.* Files, pids and objects are shared with the kernel, other workers and other
  writers. Correct means: files go, children are not taken from the worker that waits,
  results are published only if everything was applied, others' writes survive.

`PROJECT.json` lists the hazards line by line.

## Modules

| Module | Models |
|---|---|
| `TaskQueue` | one queue, its counter and pools, the events goroutine, the worker and the two handlers that touch the queue |
| `TaskSequence` | the promise of the task storage: a sequence of tasks |
| `TaskStorage` | the ring of elements and the index that implement it |
| `ResourceInformer` | one resource informer from creation to the replay of buffered events |
| `FactoryStore` | shared informers and their consumers |
| `KubeMonitors` | the kubernetes bindings of one hook: controller, index of monitors, informers by namespace |
| `Operator` | the process: build, start, queues, events handler, schedules, servers, shutdown |
| `HookConfig` | from the document a hook prints to its bindings, as operators |
| `Admission` | extends `HookConfig`: loading of hooks, registration and reviews of admission webhooks |
| `Conversion` | conversion chains, their registration and reviews |
| `HookRun` | one run of a hook, from its files to the publication of its results |
| `MC*` | constants for TLC |
| `ResourceInformer_proofs`, `FactoryStore_proofs`, `HookRun_proofs`, `Operator_proofs`, `KubeMonitors_proofs`, `TaskQueue_proofs`, `TaskStorage_proofs`, `Admission_proofs` | theorems and proofs |

`Operator` is the composition. It has queues of whole tasks, with the details of one
queue in `TaskQueue` and of its list in `TaskStorage`; informers that send, with the
details in `ResourceInformer`, `FactoryStore` and `KubeMonitors`; and runs that succeed
or fail, with the details in `HookRun`. In every module a step is what the code does
under one lock, or between two accesses to state that others share.

### TaskQueue

A task is a number, its position in `info`; the binding context a task is created
with has the number of that task, so a context can be followed through every merge.
`meta` holds the slices of contexts and monitor ids. A slice is either owned or a
window of a backing array in `ctxHeap` or `monHeap`: `compaction` stores a slice of
a `sync.Pool` in the metadata *and* hands it back, and only with the arrays in the
state this can be seen. `MergeStart` takes any pooled array or a new one, as a pool
may do. `done` is the history of what runs have taken care of; a context of a failed run that
is allowed to fail, or of a skipped one, counts as taken care of if its own binding says so.

| Code | Actions |
|---|---|
| `AddLast` (add, count, length) | `AddLast`, `AddLastCount`, `AddLastCheck` |
| `IsAnyCapReached`, `GetReachedCap` of the counter | `IsAnyCapReached`, `GetReachedCap`, for either goroutine |
| `compaction` (length; scan; for each group start, elements, end; reset) | `CompactionLength`, `CompactionScan`, `MergeStart`, `MergeElement`, `MergeFinish`, `MergeEnd`, for either goroutine |
| `waitForTask` (`Length`, `GetFirst`) | `WaitForTask`, `GetFirst` |
| `processOne` | the two above, `MarkProcessing`, `ApplyResult`, `HandlerPanic` |
| `taskHandleHookRun` | `HandleHookRun`, `RunHook`, `SkipHook` |
| `combineBindingContextForHook` | `CombineCollect`, `CombineDelete` |
| `taskHandleEnableKubernetesBindings` | `HandleEnableKubernetesBindings`, `HeadTasks` |
| `TaskQueueSet.Stop`, `Shutdown` | `Stop` |

A step is what runs under one lock of the code, or between two accesses to shared
state. The scan of a compaction runs under the lock of the storage, hence is one
step; the merge of each element is another. `GetReachedCap` returns the map of the counter
itself, so the scan reads the caps there are by then (`CompactionIDs`): another compaction
may have reset them, after which the old map stays as it was, or tasks that left the queue
may have emptied it, and with an empty map `compaction` takes the tasks of every hook. That
the map is read without the counter's lock is a data race in Go; the model has its outcomes
between steps, not a crash in the middle of one. `CounterAdd` and `CounterRemove` keep the
code's comparison with the threshold (equality on the way up, less-than on the way
down), and `ProcessResult` does not touch the counter, as in the code. Delays are
left out: a retry may happen at any time. Tasks for unknown hooks, which the
handlers answer with Fail, are left out, and so are v0 hooks.

### ResourceInformer

The state of an object is the checksum of its filter result. `cluster`, `store`
(the indexer) and `notif` (the queue of the handler) are external and follow
client-go: a handler that is added gets an Added notification for each object of the
indexer, deltas are distributed in order, deletions carry the last known state,
resyncs repeat a Modified. `handler` is the control point of `handleWatchEvent`
(filter and cache, read the flag, send or save); `worker` that of the queue worker
(list, start, read the cache, reset the buffer, run the hook, unlock, replay). The
replay holds `eventBufLock` while it sends to the channel of one element, so
`ReadFlag` and `BufferEvent` wait for it. `told` is what the hook knows. `SideRead`
is a snapshot taken for somebody else (the debug server, another binding with
`includeSnapshotsFrom`), which also resets the buffer. The flag `stopped`, which
nothing sets, and the operation counters are left out.

### FactoryStore

`factory` holds every factory with its handlers and goroutine (unused, running,
stopped, exited), `ended` those whose context is cancelled, `data` the entry of each
index. A consumer is one resource informer: `Launch` starts the goroutine that calls
`Stop`, `StartShared`, `StartFresh` and `StartRefused` are the ways through
`FactoryStore.Start` up to its unlock, `StartReturns` its end. `StopHandler` is `Stop`
up to the wait, `StopDelete` the rest, which deletes the entry whatever it is.
`Pinned` consumers are those of static bindings, which run from the start of the
program to its end. `WaitStopped` is left out: nothing fills `stoppedCh`, so it
returns at once; so is `Reset`, which has no caller.

### TaskStorage and TaskSequence

`TaskSequence` is what callers may rely on: a sequence of tasks with insertions at both
ends and beside a task, removals, and the answers of reads. `TaskStorage` is the code:
`items` is the ring of elements with a sentinel (`pkg/utils/list`), `idIndex` maps ids to
elements, `held` is what an iteration gave to a caller, who removes it later
(`RemoveElement`), when somebody else may have removed it. `NewTasks`
gives every task its own id, as `NewTask` does with a UUID, and an element is an address
that no other task gets. A call works on a record `w` of the list and the index; loops over
its tasks (`PutBehind`, `PutLast`, `DropOthers`) are recursive functions of the number of
rounds. An insertion beside an element that has left the list inserts nothing and gives the
index nil (`InsertNothing`), as in the code; the invariant shows that no call gets there.
`Abstract` is the refinement mapping: the values met on a walk from the sentinel. `Move*` and `Push*List` of the list
have no caller and are left out.

### KubeMonitors

`links` is the table of the controller, `index` the one of the kube events manager, and
`mons` are all monitors ever created, each with static and `varying` informers, the
notifications that wait for its namespace callbacks and the flag `eventsEnabled`.
`worker` is the control point of `EnableKubernetesBindings`, `UpdateMonitor`, the
snapshots of a run and `UnlockEventsFor`; `other` is the one of
`DisableKubernetesBindings`. `EnableKubeEventCb` is two steps, as the code goes through the
informers first and sets the flag afterwards, and a namespace callback is several, as
it stores its informers first and reads the flag later. `monitor.Start` starts one informer
after the other (`StartStatic`, `StartVarying`, `StartNamespaceInformer`), and at each the
worker waits in a poll until a list has come (`ObjectsListed`) or the monitor is stopped
(`PollCancelled`); so does a callback that starts informers (`OnAddReturns`). A namespace
whose informers could not be created has an empty entry (`Failed`), as in the code. Objects are left out: an
informer exists, runs and may emit. What a step does to one monitor is an operator on its
record (`StartedMonitor`, `Listed`, `Appeared`, `Taken`, `Stored`, ...), so that most of
the proof is about one monitor at a time.

### Operator

The main goroutine is at one place of `Program`, the concatenation of what
`NewShellOperator`, `Start` and `doShutdown` do in order. Beside it are the workers of the
queues, the events handler with its two channels of one element, cron jobs and informers
that send to them, requests of servers, the goroutine that stops cron, and a handler
that disables schedules. All watch one context. Failures may occur at each part of the
build, in hooks, in callbacks (panics) and as timeouts of bounded waits (`late`).
`AddTailTasks` adds one task for each step, so that a worker may take the first of several
before the last is there. The tasks that enable bindings follow the order of the hooks'
paths (`HookPaths`), and loops over Go maps go in any order.
Lengths of timeouts are left out: a bounded wait may end at any time, with `late` set.

### HookConfig and Admission

A document is a record of bindings with names, groups and included snapshots. Checks of
one field (selectors, jq programs, crontabs, the OpenAPI schema) are Booleans of the
document; checks between fields and the snapshots that come from groups are
operators, for both versions of the configuration. `MergeArrays`, which adds the snapshots
of a group to those a binding asks for, is a recursive function of the position. `Admission` loads one document after
the other (`LoadHook`), enables their webhooks, starts the server, submits one resource
of each type (`SubmitList`, `SubmitWrite`, which may be applied and fail for the client all the
same, `SubmitFails`, `Backoff`) and serves reviews by the
id in their path (`RouteReview`, `FinishReview`). `registered` survives `Crash`, `Restart` and
`Redeploy`, which may bring other documents.

### Conversion

A round of `FindConversionChain` is `FindPath`, when `SearchPathForRule` has one, or
`Explore`, which collects the paths to extend, and an `Extend` for each of them: every rule
that may follow is tried (`TryExtension`), in any order, as Go iterates maps. `Fill` is the
write to the cache, and `ConcurrentMapWrite` ends the process as the Go runtime may do.
Paths are slices: `append` writes to the array of the path while that has room and makes one
of twice the size otherwise (`Extended`), also for a path that then turns out to be known.
`arrays` holds those of three rules and more, of which several paths can be windows. A review
goes over its source versions, searches a chain for each and runs one hook for each
rule; an answer of a hook replaces the objects of the review.

### HookRun

`Prepare` creates the files one by one and may fail after each. `Start` forks and
registers the pid under one lock, `Wait` collects the child, `Unregister` is the deferred
removal from the registry with the parsing that follows it; `Reap` collects a child
that is not registered. The reaper is not part of this repository: it is modelled from
the purpose the registry documents. The operations follow, in the order of the file:
`ExecuteCreate`, `ExecuteFilter` with `Get` and `Update` under optimistic locking,
`ExecutePatch`, `ExecuteDelete` with `Poll`; each of their calls may fail (`CallFails`). An object has a version and the marks of its
writers, so that a lost update can be seen. `Finish` publishes metrics and responses.

## Runs

| Run | Result | Shows |
|---|---|---|
| `queue_hooks` | pass | two hooks, compaction in the worker only: `NoContextLost`, `HandedOverInOrder`, `EventuallyHandedOver` |
| `queue_startup` | pass | from Enable to events: `SynchronizedIsUnlocked` |
| `queue_long` | pass | with both goroutines compacting, and contexts lost in each of the four ways of *Exceptions*: `LossNeedsDisturbance`, `ProcessingFlagReleased`, `StopReachesStatus` |
| `queue_race_loses_context` | violation of `NoContextLost` | the events goroutine merges into a task that the worker's combine is just collecting and deleting |
| `informer_sync` | pass | `TypeOK`, `CacheFollowsStore`, `LostOnlyInWindows`, `AtMostOneStranded`, `EventuallyTold` |
| `factory_shared` | pass | `SharedConsumersServed`, `StopCompletes`, `ShutdownEndsInformers` |
| `monitors` | pass | `EnableRepairs`, `ConsistentSnapshots`, `NamespacesFollow`, `SilentOnlyInWindow`, `WorkerReturns` |
| `storage` | pass | `IndexAgrees`, `ImplementsSequence` (the refinement) |
| `lifecycle` | pass | `StartupFirst`, `TasksHaveQueues`, `CronServesLinks`, `OnlySendersRemain`, `FiredIsTaken`, `ShutdownReturns` |
| `conversion` | pass | `SearchIsComplete`, `FaithfulHooksConvert`, `ReviewsAnswered` |
| `admission` | pass | `SnapshotsExist`, `RegistrantAnswers`, `FailClosed`, `RegistrationConverges` |
| `hook_run` | pass | `FilesRemoved`, `ChildrenAreSpared`, `PublishedWhenApplied`, `OthersWritesSurvive` |

The violation is a disagreement between the code and what its comments or the documentation
promise; `findings` in `PROJECT.json` quotes both sides.

**Bounds.**

* *Queue.* The compaction threshold is 100 in the code; 2 in most runs makes merges
  happen with two tasks. In `queue_hooks` the queue never exceeds the threshold
  (`MaxQueue = Threshold`), which in the code also means that only the worker compacts.
  Four events give a merge, a second merge into an array that comes back from the pool, and
  an event during a run. With two tasks there is never more than one merged task, so the run
  says nothing about merged tasks of several hooks: with room for three,
  `queue_pool_mixes_hooks.cfg` shows how they disturb each other. A larger configuration,
  `queue_groups.cfg`, has no error either: three tasks of one hook with a plain and a grouped
  binding and five events (1064615 states), so that the target of a merge is itself a merged
  task and both compactions of groups meet. `queue_long` lets the queue exceed the threshold, with a hook whose bindings disagree on failures and
  on the Synchronization, an Enable task and two events: enough for either goroutine to compact
  while the other one does and for each of the four disturbances to take place and to lose a
  context, so that `LossNeedsDisturbance` is about behaviours that lose contexts, and
  the run checks what holds all the same. In `queue_startup` the threshold (6) is above the length of the queue, and one
  hook has a plain, a not-executed and two grouped Synchronizations, which is every
  branch of the handler, with three events.
* *Informer.* One object, as objects only meet in the channel and the buffer, three
  changes (one in each of two windows, one more after them) and a state on which the
  filter fails; the shared informer runs already, so the indexer may lag behind the
  list, and every state in which a new one would list is among those reached.
* *Factories.* An index with a lasting and a passing consumer, and an index with a
  passing one; a consumer lives once and needs one factory at most.
* *Monitors.* One static and one selecting binding, of which one includes the other; one
  namespace, as namespaces do not interact within a monitor, that changes once; three
  monitors, so that one binding is created again; three calls, so that one enables after
  another was disturbed.
* *Storage.* Three elements beside the sentinel (a first, a middle and a last one), three
  tasks, batches of two, and two callers that hold elements of their iterations.
* *Life cycle.* Two hooks that share a crontab and a queue, so that a removal must keep
  the other's entry; two stimuli, so that a channel of one element is full when the
  second comes.
* *Conversion.* Six sets of rules over short and full versions, with cycles, with
  versions that cannot be reached, with a chain of four rules, whose longer paths share an
  array that two requests write to, and with two CRDs; two requests, two reviews, one
  retry.
* *Admission.* Two hooks and seven documents that share names, ids and groups; two
  faults (a failure of the repair too), one redeployment, one review, one retry.
* *Hook run.* Two workers and two pids, which are used again; eight outputs that have
  every operation and every failure of parsing; one object, two runs, one fault, two
  writes of others and two attempts on conflicts, so that both attempts may be
  disturbed.

Deadlock is not checked, as all runs end once the bounds are used up or the process is
stopped.

**Fairness.** Goroutines are scheduled (weak fairness of the worker, the events
goroutine, the handler, the receiver, the goroutines that call `Stop`, the namespace
callbacks, the main goroutine, senders to channels). In `ResourceInformer` the watch delivers
in the end.
Strong fairness is assumed of outcomes the code cannot force but retries for: a hook run
again and again succeeds, the monitors can be created, the rate limiter admits. In
`FactoryStore` no list is assumed to complete, and an informer ends once its context is
cancelled. In `KubeMonitors` nothing is assumed of the API server or of the callbacks either: lists of
objects and of namespaces may fail for ever, so `WorkerReturns` excepts a worker that waits
for one of a monitor nobody stops. In `Operator` nothing is assumed of hooks, so `ShutdownReturns` holds with a
hook that never ends. In `Conversion` hooks end, as a review waits for them. In
`Admission` the cluster starts a process again that has ended.

## Exceptions

Binding contexts are lost in four ways, each shown by a configuration of its own, of which
the first is a run. `Undisturbed` (`TaskQueue`) says that none of them takes place; each
configuration still ends in its violation when the other three are excluded, and `ContextsAreKept` proves that there is no fifth way.

| Part of `Undisturbed` | Configuration that violates it | What happens |
|---|---|---|
| `WorkerCompactsAlone` | `queue_race_loses_context.cfg` | `AddLast` compacts beside the worker (`task_queue.go:373`) |
| `ArraysHaveOneOwner` | `queue_pool_mixes_hooks.cfg` | a slice is stored and handed back to the pool (`task_queue.go:564`) |
| `FailuresAgree` | `queue_allow_failure.cfg` | the head task's `allowFailure` decides for all contexts (`operator.go:726`) |
| `SkipsAgree` | `queue_skipped_events.cfg` | the first context decides whether all are skipped (`operator.go:679`) |

The last two are about the contexts that a run is the last to have (`LeftToRun`): a grouped
context is taken care of by another queued context of its group as well. That no context is lost otherwise is
`LossNeedsDisturbance`.

Some properties name the cases in which the code does something else; each exception
is a part of the definition, so that everything outside it is checked.

* `LostOnlyInWindows`: changes between the copy of the cache and the reset of the buffer.
* `NamespacesFollow`: a namespace that goes between the list of `CreateInformers` and the
  start of the namespace informer keeps its informers; one whose informers could not be
  created has none, as the empty entry that `OnAdd` stores (`monitor.go:212-218`) is taken
  for informers and nobody tries again.
* `WorkerReturns`: a worker that polls for a list of objects (`factory.go:257`) or of
  namespaces (`namespace_informer.go:154`) that never completes, of a monitor nobody stops.
* `SearchIsComplete`: a search of which another request fills the cache in the middle of a round.
* `SilentOnlyInWindow`: informers that a namespace callback stores behind
  `EnableKubeEventCb` while it has read the flag before it was set.
* `OnlySendersRemain`: cron jobs and informers that wait for room in a channel nobody
  receives from any more.
* `RegistrantAnswers`: an id that webhooks of both types use, and a mutating name that is
  given twice in one hook, which nothing checks.
* `ChildrenAreSpared`: a child with the pid of one that was collected and not yet
  unregistered.
* `FilesRemoved`: files of a `Prepare` that failed in the middle.

Stronger statements that one would expect, and that the code does not keep, are defined in
the modules. The configurations named here reproduce a counterexample with TLC; they are
not among the runs.

| Definition | Configuration | What happens |
|---|---|---|
| `TaskQueue!StopsOnlyOnCancel` | `queue_race_stops_worker.cfg` | `Length` and `GetFirst` with a merge in between (`task_queue.go:951`) |
| `TaskQueue!SynchronizedIsUnlocked`, with compaction | `queue_sync_not_unlocked.cfg` | a compaction puts an event before the grouped Synchronization it is merged with (`task_queue.go:611`) |
| `ResourceInformer!NoEventLost` | `informer_event_lost.cfg` | an event between the copy of the cache and the reset of the buffer |
| `ResourceInformer!NoneStranded` | `informer_event_stranded.cfg` | an event saved after the replay |
| `FactoryStore!ConsumersServed` | `factory_frozen_consumer.cfg` | a start during the wait of `Stop` |
| `KubeMonitors!EveryNamespaceServed` | `monitors_failed_namespace.cfg` | informers of a namespace that could not be created leave an empty entry (`monitor.go:212-218`) |
| `Conversion!SearchIsCompleteAlways` | `conversion_search_overtaken.cfg` | a round takes the paths that another request has just cached for discovered, finds nothing new and gives up, though they lead to the target (`chain.go:93-105`); no two accesses need to overlap |
| `Conversion!CachedPathsConnect`, four rules that fork | `conversion_shared_array.cfg` | two extensions of a path share an array (`chain.go:90`) |
| `Conversion!CachedPathsConnect`, a name within another | `conversion_version_prefix.cfg` | `NextRules` compares with `strings.Index` |
| `Conversion!ObjectsAreCounted` | `conversion_objects_dropped.cfg` | a hook's objects are not counted before they replace those of the review |
| `HookRun!StatusPatchedOnError` | `hook_run_status_patch.cfg` | `Hook.Run` returns before the operations are read when the hook fails |
| `Operator!NoGoroutineRemains` | `lifecycle.cfg` with this invariant | see `OnlySendersRemain` |

## Proofs

Every theorem is for all values of the constants, under the named assumptions. Most
invariants of the runs are not inductive; what each proof adds, and why, is below. Every
inductive invariant (`IInv`) was an invariant of a TLC run before it was proved.

**`ResourceInformer_proofs`.**

* `ResourceInformerTypeOK`: types, and that the channel never exceeds its capacity.
* `StrandedBound`: `AtMostOneStranded`. Inductive with the types and two facts: what is
  in the buffer once the flag is set was saved by a handler that read the flag before,
  and there is one handler.
* `CacheFollows`: `CacheFollowsStore`. A step of the
  handler makes the cache what the last notification carries, so one needs that the
  last notification of an object carries what the indexer holds (`LastIsCurrent`), and
  that there are none before the informer listens.
* `EventsLostOnlyInWindows`: `LostOnlyInWindows`, for bindings with all event types (a
  binding with fewer is not told of the others, so the hypothesis is part of the claim). The
  invariant follows events from place to place: what is saved ends in the cached
  state, so a copy of the cache covers it (`SavedAreFresh`); between the halves of
  `getCachedObjects` the copy is the cache, but for the event under way (`CopyIsFresh`); what
  the hook knows, then the channel, the rest of the replay and the event under way end in
  the cached state (`EventsArrive`); live events are sent only after the replay (`Phases`).
  The lemmas `Say*` say what a sequence of events tells somebody who knew something before.

**`FactoryStore_proofs`.**

* `FactoryStoreTypeOK`: types, and that a factory with handlers has a goroutine; being
  proved, it is not repeated in the run.
* `SharedConsumersAreServed`: `SharedConsumersServed`. The inductive invariant says
  that the factory stored under an index was made for it, that before the shutdown no
  pinned consumer is cancelled, and that until then the entry at an index with a pinned
  consumer is a running factory, not cancelled, with the handlers of the pinned
  consumers and of everybody who wants events, which no `Stop` waits to delete: so no
  `Stop` there is ever the last one.

**`HookRun_proofs`.** `HookRunInvariant` is the invariant, the others follow from it.

* `FilesAreRemoved`: `FilesRemoved`, with `RunsDiffer`: two workers never have the same
  run, so removing the files of one leaves those of the others.
* `ReaperSparesChildren`: `ChildrenAreSpared`, from `ChildrenKnown`: a child that is not
  overtaken is in the kernel's table and in the registry, and no other worker has its pid
  in hand, so that neither the reaper nor a late `Unregister` can touch it.
* `ResultsFollowOperations`: `PublishedWhenApplied`, from `LogFollows`: as long as no
  operation has failed, the log of a run is exactly the operations before the current one.
* `FiltersKeepOthersWrites`: `OthersWritesSurvive`, from `SeenIsPast`: versions only grow
  and a version has one state, so an update that passes the comparison of versions writes
  over what it has read.

The proof corrected the model: the exception of `ChildrenAreSpared` used to name only
children whose predecessor was being unregistered. With three runs or more there is another
case, beyond the bound of the run: a worker whose child was reaped is still in `Wait` when the
pid is used again. `Forked` counts it as overtaken too.

**`Operator_proofs`.** `OperatorInvariant` is the invariant.

* `StartupComesFirst`: `StartupFirst`. Needs the order of the main queue: while hooks with
  onStartup are missing, the tasks at its head are exactly theirs, in order (`StartupLeft`),
  and nothing that could bring another task exists: other queues and channels are empty, no
  informer and no cron entry is there (`StartupInOrder`).
* `QueuesComeFirst`: `TasksHaveQueues`, with the order in which `Start` creates queues and
  starts the handler (`StartInOrder`).
* `CronFollowsLinks`: `CronServesLinks`. Inductive with the types alone; the lemmas are about
  `Add` and `Remove` of the schedule manager.
* `ShutdownLeavesSenders`: `OnlySendersRemain`, from `StoppedInOrder`: each part of
  `doShutdown` that ends in time leaves its goroutines ended, and none comes back.

**`KubeMonitors_proofs`.** `KubeMonitorsInvariant` is the invariant.

* `EnableRepairsBindings`: `EnableRepairs`. `Enabling` says that the bindings the worker is
  past are good (linked, with a started, live monitor and their Synchronization) and how far
  the current one has got; `Indexed` and `Held` say that whoever has a monitor in hand has the
  one of its binding, also while a Disable is at work.
* `SnapshotsAgree`: `ConsistentSnapshots`. What was given is what the cache holds (`Cached`),
  and the worker reads a binding only if it is not in the cache.
* `InformersFollowNamespaces`: `NamespacesFollow`. As in the resource informer, the last
  notification of a namespace tells whether it is in the store (`Tells`); the informers of a
  namespace for which none is waiting are those the store asks for; the
  cancel functions are those of the informers, except the one being stored (`Follows`); and
  informers with a cancel function run, unless they could not be created (`Lives`), so the
  theorem is about informers that run and not about entries.
* `SilenceIsBounded`: `SilentOnlyInWindow`. `Loud` holds of a monitor whose flag is set, and
  already between the walk through the informers and the setting of the flag.

**`TaskQueue_proofs`.**

* `FlagsAreReleased`: `ProcessingFlagReleased`, also where the events goroutine compacts. The
  invariant (`FlagFollowsWorker`) has what the property leaves open: while the handler works,
  the only flag is that of the task in hand.
* `ContextsAreKept`: `LossNeedsDisturbance`, that is `NoContextLost` in every behaviour that is
  `Undisturbed`, for any hooks, bindings, thresholds and lengths. `NoContextLost` does not say
  which task carries a context, nor what the worker is about to do with it, so no step keeps it alone. `QueueInv` adds: the
  queue has no task twice and each carries readable contexts of its own hook (`Tables`); the
  worker holds the head of the queue, what it has read for a run is what the task carries, the
  tasks it will delete in a combination are covered by what it has collected, and after a
  successful run every context is done or carried by another task (`Holding`); the groups of a
  scan are queued tasks of different hooks, of which only the target can be the head, and a
  merge in hand has the contexts of its target and of everything it has removed, in an array
  of which the target uses at most the part already written (`Merging`). Then every context is
  done or is stood for by a queued one or by the merge in hand (`CoveredIn`). The lemmas below
  it: `OnlyKeeps` and `OnlyAtSelects` (what filtering keeps), `FlattenElements`, `WrittenSlice`
  and `WrittenElsewhere` (what a write to a backing array does to the slice that grows and to
  all others), `AdjacentCovers` and `CompactCovers` (both ways of compacting contexts leave one
  of each group and all without a group), `CareGrows` (standing for is transitive).
* `ContextsStayWithHook`: `OwnContexts` under the same condition, from the same invariant.

**`TaskStorage_proofs`.** The theorems are about any number of tasks, addresses and callers
and rings of any length.

* `IndexAgreesWithList`: `IndexAgrees`. It says nothing of links, so no step keeps it alone. The
  inductive invariant says that there *is* a sequence of elements (`WorkOK`) of which the ring
  is the two-way linking (`Ring`); that a value belongs to one element for ever, which makes
  stale elements harmless (`Values`); that index and ring agree (`Agrees`); that no value is
  above `minted`, so the next id is new; and that elements in the hands of a compaction have a
  task, as removing one takes a task's id from the index.
* `StorageImplementsSequence`: `ImplementsSequence`, the refinement. The values along the
  sequence of the invariant are the queue (`TasksOfRing`, `WalkRing`). `RingInsert` and
  `RingUnlink` say what linking and unlinking one element do to that sequence; `PutBehindOK`,
  `PutLastOK` and `DropOthersStands` carry this through the loops; the lemmas `*Stands` say of
  each internal function that it turns a storage that stands for `q` into one that stands for
  what `TaskSequence` makes of `q`; and the lemmas `*Step` say so of each call and its answer.
* `StorageTypes`: types, and that the length is that of the ring.

**`Admission_proofs`.** `AdmissionInvariant` is the invariant: what `Loads` accepts has sound
bindings (`Loaded`), links and resources are empty or those of the hooks in the index
(`Linked`), nobody is served before that (`Quiet`), and each request carries the hook and the
binding its id leads to (`Served`).

* `AcceptedSnapshotsExist`: `SnapshotsExist`. `MergeArrays` and the snapshots of a group give
  names of the hook's bindings on objects when the binding's own are such names, for both
  versions of the configuration.
* `ReviewsGoToRegistrants`: `RegistrantAnswers`. Resources and links are filled hook after
  hook, and the last one that declares an id wins in both: `AskedHooks[Max(HandlersOf(id))]`
  is the hook of the entry (`Routing`).
* `AdmissionFailsClosed`: `FailClosed`, from what a request carries, across restarts and
  deployments, which change the documents and leave no request behind.

**Induction.** The induction theorems of the library cannot be used for the properties of data
here, as the provers do not instantiate operators. The proofs use a set in the place of
a predicate: `Least` (a set of natural numbers has a least element) follows from
`NatLessThanWellFounded` and `WFMin`, and `UpTo` (what holds of 0 and goes from `i` to `i + 1`
holds up to `n`) from `Least`. For each recursive function there is a lemma `*Unfolds` that
one exists and satisfies its equations, by the same induction over how far it is defined.

**Assumptions.** Each is evaluated by TLC in the runs.
`ObjectsAssumption` (finitely many objects), `StatesAssumption` (absence
is not a state), `EventTypesAssumption`, `FlagsAssumption`, `InformerBoundsAssumption`;
`IndexOfAssumption`, `PinnedAssumption`, `NoFactoryAssumption`;
`OutputsAssumption` (a hook's output is a record of operations),
`HookRunBoundsAssumption`; `BindingsAssumption` (finite lists of bindings of known hooks),
`WebhooksAssumption`, `StimuliAssumption`; `BindingSeqAssumption` (no binding twice),
`SelectingAssumption`, `IncludesAssumption`, `NamespacesAssumption` (finitely many
namespaces); `StorageAssumption` (the sentinel and nil are not addresses of elements, and there
is one for every task: memory does not run out); `AdmissionAssumption` (the lists of a document
are finite sequences). Bounds are only assumed to be numbers.

**Only model-checked.**

* All liveness properties: the prover has no rule for fairness and `ENABLED`.
* `TaskQueue`: `HandedOverInOrder`. `QueueInv` has sets of contexts; the order needs positions
  in every slice, relative to the queue and to the runs before. `SynchronizedIsUnlocked` is false
  when the threshold is reached (see `queue_sync_not_unlocked.cfg`), so it is a statement
  about the configuration of its run.
* `Conversion`: `FaithfulHooksConvert` is false for some rules (a cached path may not connect,
  see `conversion_shared_array.cfg` and `conversion_version_prefix.cfg`), so it is a
  statement about the sets of rules of the run. `SearchIsComplete` would need the names that
  the cache has reached as a set closed under the rules.

## Not modelled

* Runtime configuration: a table of parameters changed from the debug endpoint, with
  values that expire with the clock.
* The jq library, crontab parsing, selectors, schemas: functions of one value, which the
  models have as Booleans or as results.
* Metrics (and their generated mocks), logging and the proxy of log lines, dumps, the
  commands of the debug client, command line flags and settings: they observe or are
  read once.
* `PatchCollector`, which hooks written in Go use; subresources and name prefixes of
  objects.
* `CancelTaskDelay` and the lengths of delays: a retry may happen at any time.
* `Unregister` of admission resources, `TaskQueueSet.Remove`, `FactoryStore.Reset`,
  `Move*` and `Push*List` of the list: no caller.
* TLS and certificates, beyond the failure to read them.

`PROJECT.json` has the list of components with reasons.

## Plan

Modelled and checked: all modules above. Proved: what *Proofs* lists. What is left, most
important first.

1. `HandedOverInOrder` of `TaskQueue`, from `QueueInv` with positions in the place of sets.
2. `SearchIsComplete` of `Conversion`.
3. `TaskQueue` on top of `TaskSequence` instead of a list of its own, so that the refinement
   carries over.
4. `TaskQueue` with `CancelTaskDelay`; the runtime configuration with its clock.
