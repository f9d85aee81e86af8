------------------------------ MODULE Operator -----------------------------
(***************************************************************************)
(* The life of a shell-operator process: NewShellOperator, Start, events,  *)
(* the signal and Shutdown (pkg/shell-operator/operator.go, bootstrap.go), *)
(* with the goroutines these start: queue workers, the loop of the         *)
(* ManagerEventsHandler, cron jobs, informers, metric loops and servers.   *)
(*                                                                         *)
(* One context stands for op.ctx and all that derive from it.  Both event  *)
(* channels hold one element and their senders have no way out, so a       *)
(* sender may be left behind when the handler loop has ended.              *)
(***************************************************************************)
EXTENDS Integers, Sequences, FiniteSets, SequencesExt

CONSTANTS
    HookPaths,         \* all hooks, in the order of their paths
    StartupHooks,      \* hooks with onStartup, in their order
    KubeBindings,      \* sequence of [hook, queue]
    ScheduleBindings,  \* sequence of [hook, crontab, queue]
    Webhooks,          \* webhook servers that hooks need: "admission", "conversion"
    MaxStimuli         \* firings of cron, kubernetes events, requests and disable calls

IsList(s) == Len(s) \in Nat /\ DOMAIN s = 1..Len(s)

HookNames == {HookPaths[i] : i \in DOMAIN HookPaths}

ASSUME BindingsAssumption ==
    /\ IsList(HookPaths) /\ IsList(StartupHooks) /\ IsList(KubeBindings) /\ IsList(ScheduleBindings)
    /\ \A i \in DOMAIN StartupHooks : StartupHooks[i] \in HookNames
    /\ \A b \in DOMAIN KubeBindings : KubeBindings[b].hook \in HookNames
    /\ \A b \in DOMAIN ScheduleBindings : ScheduleBindings[b].hook \in HookNames
ASSUME WebhooksAssumption == Webhooks \subseteq {"admission", "conversion"}
ASSUME StimuliAssumption == MaxStimuli \in Nat

VARIABLES
    step,        \* the main goroutine's place in Program, or 0 when the build has failed
    cancelled,   \* op.ctx is done
    late,        \* some part of the shutdown ran out of time
    servers,     \* servers that listen
    requests,    \* servers that handle a request
    wg,          \* goroutines counted by op.wg
    queues,      \* tasks by queue name, for the queues of the set
    worker,      \* where the worker of a queue is
    handler,     \* the loop of ManagerEventsHandler: [at, tasks]
    kubeCh,      \* KubeEventCh: binding indexes
    scheduleCh,  \* ScheduleCh: crontabs
    monitor,     \* the monitor of each kubernetes binding: [at, buf]
    informer,    \* handlers of informers that are about to send
    links,       \* indexes of enabled schedule bindings
    entries,     \* Entries: from crontabs to the ids of their users
    cron,        \* the scheduler: "new", "run" or "stopped"
    stopped,     \* channel of Stop is closed by the helper goroutine
    jobs,        \* cron jobs that want to send
    budget,      \* stimuli that are left
    done,        \* hooks whose onStartup run has succeeded
    strayed      \* a task for a queue that does not exist was dropped

mainVars == <<step, late, servers, wg>>
queueVars == <<queues, worker, done>>
eventVars == <<handler, kubeCh, scheduleCh, strayed>>
kubeVars == <<monitor, informer>>
cronVars == <<links, entries, cron, stopped, jobs>>
vars == <<mainVars, cancelled, requests, queueVars, eventVars, kubeVars, cronVars, budget>>

Crontabs == {ScheduleBindings[b].crontab : b \in DOMAIN ScheduleBindings}
Main == "main"
HookQueues == {KubeBindings[b].queue : b \in DOMAIN KubeBindings}
              \cup {ScheduleBindings[b].queue : b \in DOMAIN ScheduleBindings}

-----------------------------------------------------------------------------
(* The main goroutine: a program of steps.                                 *)

\* NewShellOperator and assembleShellOperator.
BuildOrder == <<"build_debug", "assemble", "build_admission", "build_conversion">>

\* Mutant: the events handler starts before the queues of hooks exist.
StartOrderHandlerFirst == <<"api", "main_queue", "handler", "hook_queues", "metrics", "schedule">>

\* ShellOperator.Start.
StartOrder == <<"api", "main_queue", "hook_queues", "metrics", "handler", "schedule">>

\* doShutdown.
ShutdownOrder ==
    <<"cancel", "stop_schedule", "stop_handler", "stop_kube", "stop_queues",
      "stop_admission", "stop_conversion", "stop_debug", "stop_api", "stop_metrics">>

Program == BuildOrder \o StartOrder \o <<"serve">> \o ShutdownOrder \o <<"returned">>

at == IF step = 0 THEN "failed" ELSE Program[step]
Advance == step' = step + 1

\* Tasks in queues.
OnStartup(h) == [kind |-> "OnStartup", hook |-> h, b |-> 0]
EnableKube(h) == [kind |-> "EnableKubernetesBindings", hook |-> h, b |-> 0]
EnableSchedule(h) == [kind |-> "EnableScheduleBindings", hook |-> h, b |-> 0]
SyncRun(b) == [kind |-> "Synchronization", hook |-> KubeBindings[b].hook, b |-> b]
KubeRun(b) == [kind |-> "Event", hook |-> KubeBindings[b].hook, b |-> b]
ScheduleRun(b) == [kind |-> "Schedule", hook |-> ScheduleBindings[b].hook, b |-> b]

\* The debug server listens before anything else; its Init may fail.
BuildDebug ==
    /\ at = "build_debug"
    /\ \/ Advance /\ servers' = servers \cup {"debug"}
       \/ step' = 0 /\ UNCHANGED servers
    /\ UNCHANGED <<late, wg>>

\* Clients, metric storages, managers and hooks; a failure shuts the debug server down.
Assemble ==
    /\ at = "assemble"
    /\ \/ Advance /\ UNCHANGED servers
       \/ step' = 0 /\ servers' = servers \ {"debug"}
    /\ UNCHANGED <<late, wg>>

\* Webhook servers of hooks that need them.  Registration may fail after the server has
\* started, and only the debug server is shut down then.
BuildWebhooks(s, from) ==
    /\ at = from
    /\ \/ s \notin Webhooks /\ Advance /\ UNCHANGED servers
       \/ s \in Webhooks /\ Advance /\ servers' = servers \cup {s}
       \/ /\ s \in Webhooks
          /\ step' = 0
          /\ servers' \in {servers \ {"debug"}, (servers \cup {s}) \ {"debug"}}
    /\ UNCHANGED <<late, wg>>

Build ==
    /\ BuildDebug \/ Assemble \/ BuildWebhooks("admission", "build_admission")
                  \/ BuildWebhooks("conversion", "build_conversion")
    /\ UNCHANGED <<cancelled, requests, queueVars, eventVars, kubeVars, cronVars, budget>>

StartAPI ==
    /\ at = "api"
    /\ servers' = servers \cup {"api"}
    /\ Advance
    /\ UNCHANGED <<cancelled, late, wg, requests, queueVars, eventVars, kubeVars,
                   cronVars, budget>>

\* The tasks of bootstrapMainQueue that enable the bindings of each hook, hook after hook.
EnableTasks ==
    LET before(t, u) == \E i, j \in DOMAIN HookPaths :
            /\ HookPaths[i] = t.hook /\ HookPaths[j] = u.hook
            /\ i < j \/ (i = j /\ t.kind = "EnableKubernetesBindings")
    IN {ts \in SetToSeqs({EnableKube(KubeBindings[b].hook) : b \in DOMAIN KubeBindings}
                         \cup {EnableSchedule(ScheduleBindings[b].hook) : b \in DOMAIN ScheduleBindings}) :
           \A i, j \in DOMAIN ts : i < j => before(ts[i], ts[j])}

StartupTasks == [i \in DOMAIN StartupHooks |-> OnStartup(StartupHooks[i])]

\* Mutant: bindings are enabled before the hooks with onStartup run.
BootstrapEnableFirst == {ts \o StartupTasks : ts \in EnableTasks}

\* bootstrapMainQueue: onStartup runs, then for each hook the tasks that enable its bindings.
BootstrapMainQueue == {StartupTasks \o ts : ts \in EnableTasks}

\* bootstrapMainQueue and StartMain.
StartMain ==
    /\ at = "main_queue"
    /\ queues' \in [{Main} -> BootstrapMainQueue]
    /\ worker' = [q \in {Main} |-> "wait"]
    /\ Advance
    /\ UNCHANGED <<cancelled, late, servers, wg, requests, done, eventVars, kubeVars,
                   cronVars, budget>>

\* initAndStartHookQueues: queues that do not exist yet, main among those that do.
InitAndStartHookQueues ==
    /\ at = "hook_queues"
    /\ queues' = [q \in DOMAIN queues \cup HookQueues |->
                     IF q \in DOMAIN queues THEN queues[q] ELSE <<>>]
    /\ worker' = [q \in DOMAIN queues \cup HookQueues |->
                     IF q \in DOMAIN queues THEN worker[q] ELSE "wait"]
    /\ Advance
    /\ UNCHANGED <<cancelled, late, servers, wg, requests, done, eventVars, kubeVars,
                   cronVars, budget>>

RunMetrics ==
    /\ at = "metrics"
    /\ wg' = 2
    /\ Advance
    /\ UNCHANGED <<cancelled, late, servers, requests, queueVars, eventVars, kubeVars,
                   cronVars, budget>>

StartHandler ==
    /\ at = "handler"
    /\ handler' = [handler EXCEPT !.at = "select"]
    /\ Advance
    /\ UNCHANGED <<cancelled, late, servers, wg, requests, queueVars, kubeCh,
                   scheduleCh, strayed, kubeVars, cronVars, budget>>

StartSchedule ==
    /\ at = "schedule"
    /\ cron' = "run"
    /\ Advance
    /\ UNCHANGED <<cancelled, late, servers, wg, requests, queueVars, eventVars,
                   kubeVars, links, entries, stopped, jobs, budget>>

\* SIGTERM or SIGINT cancels the context the operator was built with, at any time.
Signal ==
    /\ ~cancelled
    /\ step # 0
    /\ cancelled' = TRUE
    /\ UNCHANGED <<mainVars, requests, queueVars, eventVars, kubeVars, cronVars, budget>>

\* Run: wait for the signal, then begin the shutdown, which cancels once more.
BeginShutdown ==
    /\ at \in {"serve", "cancel"}
    /\ cancelled
    /\ Advance
    /\ UNCHANGED <<cancelled, late, servers, wg, requests, queueVars, eventVars,
                   kubeVars, cronVars, budget>>

\* ScheduleManager.Stop: until the helper has stopped cron, or for five seconds.
StopSchedule ==
    /\ at = "stop_schedule"
    /\ late' = (late \/ ~stopped)
    /\ Advance
    /\ UNCHANGED <<servers, wg>>

\* A wait that the deadline may end: Wait of the handler, Shutdown of the queues, waitWG.
BoundedWait(from, over) ==
    /\ at = from
    /\ late' = (late \/ ~over)
    /\ Advance
    /\ UNCHANGED <<servers, wg>>

\* Mutant: Wait waits for the handlers of resource informers as its comment says.
KubeWaitForHandlers == informer = {}

\* KubeEventsManager.Wait: resource informers are not waited for, as WaitStopped finds its
\* channel closed; namespace informers end with the context.
KubeWait == cancelled

StopKube ==
    /\ at = "stop_kube"
    /\ KubeWait
    /\ Advance
    /\ UNCHANGED <<late, servers, wg>>

\* Mutant: only the main queue is looked at.
MainQueueStopped == worker[Main] = "stopped"

QueuesStopped == \A q \in DOMAIN worker : worker[q] = "stopped"

\* http.Server.Shutdown: no new requests, wait for those being handled.
StopServer(s, from) ==
    /\ at = from
    /\ servers' = servers \ {s}
    /\ late' = (late \/ s \in requests)
    /\ Advance
    /\ UNCHANGED wg

StopWebhooks == StopServer("admission", "stop_admission") \/ StopServer("conversion", "stop_conversion")

\* The debug server has a listener on a socket and one on a port; both end.
StopDebug == StopServer("debug", "stop_debug")

\* waitWG: the metric loops, or the deadline.
StopMetrics == BoundedWait("stop_metrics", wg = 0)

\* doShutdown, part after part.
Shutdown ==
    /\ \/ StopSchedule
       \/ BoundedWait("stop_handler", handler.at = "done")
       \/ StopKube
       \/ BoundedWait("stop_queues", QueuesStopped)
       \/ StopWebhooks
       \/ StopDebug
       \/ StopServer("api", "stop_api")
       \/ StopMetrics
    /\ UNCHANGED <<cancelled, requests, queueVars, eventVars, kubeVars, cronVars, budget>>

-----------------------------------------------------------------------------
(* Goroutines that answer to nobody else.                                  *)

Stimulus == budget > 0 /\ budget' = budget - 1

\* runLiveTicks and runQueueLengthMetric.
EndLoop ==
    /\ cancelled
    /\ wg > 0
    /\ wg' = wg - 1
    /\ UNCHANGED <<step, late, servers, cancelled, requests, queueVars, eventVars,
                   kubeVars, cronVars, budget>>

\* A request is taken by a webhook server that listens; its handler runs a hook.
Request(s) ==
    /\ s \in (servers \cap Webhooks) \ requests
    /\ requests' = requests \cup {s}
    /\ Stimulus
    /\ UNCHANGED <<mainVars, cancelled, queueVars, eventVars, kubeVars, cronVars>>

Respond(s) ==
    /\ s \in requests
    /\ requests' = requests \ {s}
    /\ UNCHANGED <<mainVars, cancelled, queueVars, eventVars, kubeVars, cronVars, budget>>

\* The helper goroutine of ScheduleManager.Start.
StopCron ==
    /\ cancelled
    /\ cron = "run"
    /\ cron' = "stopped"
    /\ stopped' = TRUE
    /\ UNCHANGED <<mainVars, cancelled, requests, queueVars, eventVars, kubeVars, links, entries,
                   jobs, budget>>

\* The scheduler starts the job of an entry in a goroutine of its own.
Fire(c) ==
    /\ cron = "run"
    /\ c \in DOMAIN entries
    /\ Stimulus
    /\ jobs' = [jobs EXCEPT ![c] = @ + 1]
    /\ UNCHANGED <<mainVars, cancelled, requests, queueVars, eventVars, kubeVars, links, entries,
                   cron, stopped>>

ScheduleRoom == scheduleCh = <<>>

\* The job sends its crontab; there is no other way out of it.
JobSends(c) ==
    /\ jobs[c] > 0
    /\ ScheduleRoom
    /\ scheduleCh' = Append(scheduleCh, c)
    /\ jobs' = [jobs EXCEPT ![c] = @ - 1]
    /\ UNCHANGED <<mainVars, cancelled, requests, queueVars, handler, kubeCh, strayed, kubeVars,
                   links, entries, cron, stopped, budget>>

\* An event of a kubernetes binding: buffered until the binding is unlocked.
KubeEvent(b) ==
    /\ ~cancelled
    /\ Stimulus
    /\ \/ /\ monitor[b].at = "buffers"
          /\ monitor' = [monitor EXCEPT ![b].buf = @ + 1]
          /\ UNCHANGED informer
       \/ /\ monitor[b].at = "enabled"
          /\ b \notin informer
          /\ informer' = informer \cup {b}
          /\ UNCHANGED monitor
    /\ UNCHANGED <<mainVars, cancelled, requests, queueVars, eventVars, cronVars>>

\* putEvent by the handler of an informer.
InformerSends(b) ==
    /\ b \in informer
    /\ kubeCh = <<>>
    /\ kubeCh' = <<b>>
    /\ informer' = informer \ {b}
    /\ UNCHANGED <<mainVars, cancelled, requests, queueVars, handler, scheduleCh, strayed, monitor,
                   cronVars, budget>>

-----------------------------------------------------------------------------
(* ManagerEventsHandler.                                                   *)

\* Hooks whose links have the crontab, in their order (HandleCreateTasksFromScheduleEvent);
\* the links of one hook are in a map.
ScheduleTasks(c) ==
    {[i \in DOMAIN bs |-> [queue |-> ScheduleBindings[bs[i]].queue, task |-> ScheduleRun(bs[i])]] :
        bs \in {s \in SetToSeqs({b \in links : ScheduleBindings[b].crontab = c}) :
                  \A i, j \in DOMAIN s :
                      i < j /\ ScheduleBindings[s[i]].hook # ScheduleBindings[s[j]].hook => s[i] < s[j]}}

HandlerTakes(tasks) ==
    /\ handler.at = "select"
    /\ handler' = [at |-> "tail", tasks |-> tasks]

\* Mutant: a panic of a callback ends the loop.
HandlerPanicEnds ==
    /\ handler.at = "select"
    /\ handler' = [at |-> "done", tasks |-> <<>>]

\* runEventCb: the tasks of an event whose callback panics are dropped.
HandlerPanic == HandlerTakes(<<>>)

TakeSchedule ==
    /\ scheduleCh # <<>>
    /\ (\E tasks \in ScheduleTasks(Head(scheduleCh)) : HandlerTakes(tasks)) \/ HandlerPanic
    /\ scheduleCh' = Tail(scheduleCh)
    /\ UNCHANGED <<mainVars, cancelled, requests, queueVars, kubeCh, strayed, kubeVars, cronVars,
                   budget>>

TakeKube ==
    /\ kubeCh # <<>>
    /\ \/ HandlerTakes(<<[queue |-> KubeBindings[Head(kubeCh)].queue,
                          task |-> KubeRun(Head(kubeCh))]>>)
       \/ HandlerPanic
    /\ kubeCh' = Tail(kubeCh)
    /\ UNCHANGED <<mainVars, cancelled, requests, queueVars, scheduleCh, strayed, kubeVars,
                   cronVars, budget>>

\* select may see the end of the context as well as an event.
HandlerEnds ==
    /\ handler.at = "select"
    /\ cancelled
    /\ handler' = [at |-> "done", tasks |-> <<>>]
    /\ UNCHANGED <<mainVars, cancelled, requests, queueVars, kubeCh, scheduleCh, strayed, kubeVars,
                   cronVars, budget>>

\* AddTailTasks: AddLast for one task after the other; a task without a queue is logged and
\* dropped.
AddTailTasks ==
    /\ handler.at = "tail"
    /\ \/ /\ handler.tasks = <<>>
          /\ handler' = [handler EXCEPT !.at = "select"]
          /\ UNCHANGED <<queues, strayed>>
       \/ /\ handler.tasks # <<>>
          /\ handler' = [handler EXCEPT !.tasks = Tail(@)]
          /\ LET t == Head(handler.tasks) IN
             IF t.queue \in DOMAIN queues
             THEN queues' = [queues EXCEPT ![t.queue] = Append(@, t.task)] /\ UNCHANGED strayed
             ELSE strayed' = TRUE /\ UNCHANGED queues
    /\ UNCHANGED <<mainVars, cancelled, requests, worker, done, kubeCh, scheduleCh, kubeVars,
                   cronVars, budget>>

-----------------------------------------------------------------------------
(* Queue workers and task handlers.                                        *)

\* waitForTask: the end of the context comes first.
WaitForTask(q) ==
    /\ worker[q] = "wait"
    /\ \/ cancelled /\ worker' = [worker EXCEPT ![q] = "stopped"]
       \/ ~cancelled /\ queues[q] # <<>> /\ worker' = [worker EXCEPT ![q] = "run"]

Wait(q) ==
    /\ WaitForTask(q)
    /\ UNCHANGED <<mainVars, cancelled, requests, queues, done, eventVars, kubeVars, cronVars,
                   budget>>

\* The handler of a HookRun fails and is retried, or a repeat is asked for.
TaskFails(q) ==
    /\ worker[q] = "run"
    /\ Head(queues[q]).kind # "EnableScheduleBindings"
    /\ worker' = [worker EXCEPT ![q] = IF cancelled THEN "stopped" ELSE "wait"]
    /\ UNCHANGED <<mainVars, cancelled, requests, queues, done, eventVars, kubeVars, cronVars,
                   budget>>

\* Head tasks of the result of EnableKubernetesBindings, in the order of the bindings.
HeadTasks(t) ==
    IF t.kind = "EnableKubernetesBindings"
    THEN {[i \in DOMAIN bs |-> SyncRun(bs[i])] :
             bs \in {s \in SetToSeqs({b \in DOMAIN KubeBindings : KubeBindings[b].hook = t.hook}) :
                       \A i, j \in DOMAIN s : i < j => s[i] < s[j]}}
    ELSE {<<>>}

\* processOne after the handler: the context is checked before the result is applied.
ApplyResult(q) ==
    \/ /\ cancelled
       /\ worker' = [worker EXCEPT ![q] = "stopped"]
       /\ UNCHANGED queues
    \/ /\ ~cancelled
       /\ worker' = [worker EXCEPT ![q] = "wait"]
       /\ \E ts \in HeadTasks(Head(queues[q])) : queues' = [queues EXCEPT ![q] = ts \o Tail(@)]

\* taskHandleEnableKubernetesBindings: monitors of the hook's bindings start.
EnableKubernetesBindings(q) ==
    /\ worker[q] = "run"
    /\ Head(queues[q]).kind = "EnableKubernetesBindings"
    /\ monitor' = [b \in DOMAIN monitor |->
                     IF KubeBindings[b].hook = Head(queues[q]).hook
                     THEN [at |-> "buffers", buf |-> 0] ELSE monitor[b]]
    /\ ApplyResult(q)
    /\ UNCHANGED <<mainVars, cancelled, requests, done, eventVars, informer, cronVars, budget>>

\* Entries with one more user.
EntriesWith(es, bs) ==
    [c \in DOMAIN es \cup {ScheduleBindings[b].crontab : b \in bs} |->
        (IF c \in DOMAIN es THEN es[c] ELSE {})
        \cup {b \in bs : ScheduleBindings[b].crontab = c}]

\* taskHandleEnableScheduleBindings: links of the hook, and scheduleManager.Add for each.
EnableScheduleBindings(q) ==
    LET bs == {b \in DOMAIN ScheduleBindings : ScheduleBindings[b].hook = Head(queues[q]).hook} IN
    /\ worker[q] = "run"
    /\ Head(queues[q]).kind = "EnableScheduleBindings"
    /\ links' = links \cup bs
    /\ entries' = EntriesWith(entries, bs)
    /\ ApplyResult(q)
    /\ UNCHANGED <<mainVars, cancelled, requests, done, eventVars, kubeVars, cron, stopped, jobs,
                   budget>>

\* A hook has run: onStartup, Schedule or Event.
RunHook(q) ==
    /\ worker[q] = "run"
    /\ Head(queues[q]).kind \in {"OnStartup", "Schedule", "Event"}
    /\ done' = IF Head(queues[q]).kind = "OnStartup"
               THEN done \cup {Head(queues[q]).hook} ELSE done
    /\ ApplyResult(q)
    /\ UNCHANGED <<mainVars, cancelled, requests, eventVars, kubeVars, cronVars, budget>>

\* A Synchronization has run: its monitor is unlocked and buffered events are replayed.
RunSynchronization(q) ==
    /\ worker[q] = "run"
    /\ Head(queues[q]).kind = "Synchronization"
    /\ monitor' = [monitor EXCEPT ![Head(queues[q]).b].at = "enabled"]
    /\ worker' = [worker EXCEPT ![q] = "replay"]
    /\ UNCHANGED <<mainVars, cancelled, requests, queues, done, eventVars, informer, cronVars,
                   budget>>

\* putEvent by the worker in enableKubeEventCb.
Replay(q) ==
    LET b == Head(queues[q]).b IN
    /\ worker[q] = "replay"
    /\ \/ /\ monitor[b].buf > 0
          /\ kubeCh = <<>>
          /\ kubeCh' = <<b>>
          /\ monitor' = [monitor EXCEPT ![b].buf = @ - 1]
          /\ UNCHANGED <<worker, queues>>
       \/ /\ monitor[b].buf = 0
          /\ ApplyResult(q)
          /\ UNCHANGED <<kubeCh, monitor>>
    /\ UNCHANGED <<mainVars, cancelled, requests, done, handler, scheduleCh, strayed,
                   informer, cronVars, budget>>

\* Mutant: the crontab goes with any of its users.
EntriesWithout(es, bs) ==
    [c \in DOMAIN es \ {ScheduleBindings[b].crontab : b \in bs} |-> es[c]]

\* scheduleManager.Remove for each binding: a crontab goes with its last user.
EntriesAfterRemove(es, bs) ==
    [c \in {d \in DOMAIN es : es[d] \ bs # {}} |-> es[c] \ bs]

\* DisableScheduleBindings, which operators built on this library call.
DisableScheduleBindings(h) ==
    LET bs == {b \in DOMAIN ScheduleBindings : ScheduleBindings[b].hook = h} IN
    /\ bs \cap links # {}
    /\ Stimulus
    /\ links' = links \ bs
    /\ entries' = EntriesAfterRemove(entries, bs)
    /\ UNCHANGED <<mainVars, cancelled, requests, queueVars, eventVars, kubeVars, cron, stopped,
                   jobs>>

-----------------------------------------------------------------------------

Init ==
    /\ step = 1
    /\ cancelled = FALSE
    /\ late = FALSE
    /\ servers = {}
    /\ requests = {}
    /\ wg = 0
    /\ queues = [q \in {} |-> <<>>]
    /\ worker = [q \in {} |-> "none"]
    /\ handler = [at |-> "off", tasks |-> <<>>]
    /\ kubeCh = <<>>
    /\ scheduleCh = <<>>
    /\ monitor = [b \in DOMAIN KubeBindings |-> [at |-> "none", buf |-> 0]]
    /\ informer = {}
    /\ links = {}
    /\ entries = [c \in {} |-> {}]
    /\ cron = "new"
    /\ stopped = FALSE
    /\ jobs = [c \in Crontabs |-> 0]
    /\ budget = MaxStimuli
    /\ done = {}
    /\ strayed = FALSE

MainStep ==
    \/ Build
    \/ StartAPI \/ StartMain \/ InitAndStartHookQueues \/ RunMetrics \/ StartHandler
    \/ StartSchedule
    \/ BeginShutdown \/ Shutdown

HandlerStep == TakeSchedule \/ TakeKube \/ HandlerEnds \/ AddTailTasks

WorkerSucceeds(q) ==
    \/ Wait(q) \/ EnableKubernetesBindings(q) \/ EnableScheduleBindings(q)
    \/ RunHook(q) \/ RunSynchronization(q) \/ Replay(q)

Next ==
    \/ MainStep \/ Signal \/ EndLoop \/ StopCron
    \/ \E s \in servers : Request(s)
    \/ \E s \in requests : Respond(s)
    \/ \E c \in Crontabs : Fire(c) \/ JobSends(c)
    \/ \E b \in DOMAIN KubeBindings : KubeEvent(b) \/ InformerSends(b)
    \/ HandlerStep
    \/ \E q \in DOMAIN worker : WorkerSucceeds(q) \/ TaskFails(q)
    \/ \E h \in HookNames : DisableScheduleBindings(h)

Spec == Init /\ [][Next]_vars

\* Goroutines that can go on do so and timers fire.  Nothing is assumed of hooks: a run may
\* last for ever.
Fairness ==
    /\ WF_vars(MainStep)
    /\ WF_vars(HandlerStep)
    /\ \A c \in Crontabs : WF_vars(JobSends(c))

FairSpec == Spec /\ Fairness

-----------------------------------------------------------------------------
(* Properties.                                                             *)

Task == [kind : {"OnStartup", "EnableKubernetesBindings", "EnableScheduleBindings", "Schedule", "Event"},
         hook : HookNames, b : Nat]
        \cup [kind : {"Synchronization"}, hook : HookNames, b : DOMAIN KubeBindings]

\* Queues hold tasks of hooks that exist, channels events of bindings that do; goroutines are
\* at a place of their code.
MainType ==
    /\ step \in 0..Len(Program) /\ cancelled \in BOOLEAN /\ late \in BOOLEAN
    /\ servers \subseteq {"debug", "admission", "conversion", "api"}
    /\ requests \subseteq Webhooks /\ wg \in 0..2
QueuesType ==
    /\ queues \in [DOMAIN queues -> Seq(Task)]
    /\ worker \in [DOMAIN queues -> {"wait", "run", "replay", "stopped"}]
EventsType ==
    /\ handler \in [at : {"off", "select", "tail", "done"}, tasks : Seq([queue : HookQueues, task : Task])]
    /\ kubeCh \in Seq(DOMAIN KubeBindings) /\ scheduleCh \in Seq(Crontabs)
KubeType ==
    /\ monitor \in [DOMAIN KubeBindings -> [at : {"none", "buffers", "enabled"}, buf : Nat]]
    /\ informer \subseteq DOMAIN KubeBindings
CronType == links \subseteq DOMAIN ScheduleBindings /\ jobs \in [Crontabs -> Nat]
TypeOK == MainType /\ QueuesType /\ EventsType /\ KubeType /\ CronType

\* No hook runs for a binding before every hook with onStartup has succeeded, in whatever queue
\* the run is: the tasks that enable bindings are behind the onStartup runs.
StartupFirst ==
    \A q \in DOMAIN worker :
        worker[q] = "run" /\ Head(queues[q]).kind # "OnStartup"
            => \A i \in DOMAIN StartupHooks : StartupHooks[i] \in done

\* No task is dropped for want of its queue: queues exist before the events do.
TasksHaveQueues == ~strayed

\* A crontab is scheduled exactly while a link of some hook uses it, and by these users.
CronServesLinks ==
    /\ DOMAIN entries = {ScheduleBindings[b].crontab : b \in links}
    /\ \A c \in DOMAIN entries : entries[c] = {b \in links : ScheduleBindings[b].crontab = c}

\* A Shutdown without error leaves nothing that runs hooks or serves requests: what may remain
\* are senders blocked on the channels.
OnlySendersRemain ==
    at = "returned" /\ ~late =>
        /\ \A q \in DOMAIN worker : worker[q] = "stopped"
        /\ handler.at = "done"
        /\ wg = 0
        /\ servers = {} /\ requests = {}
        /\ cron = "stopped"

\* When Shutdown returns, no goroutine of the operator is still running, as its comment says.
\* The code does not keep it: a cron job or an informer that waits for room in its channel
\* is left behind when the events handler has ended.
NoGoroutineRemains ==
    at = "returned" /\ ~late =>
        informer = {} /\ \A c \in Crontabs : jobs[c] = 0

\* While the operator is running, what a cron job sends is taken, also after a panic of the
\* callback: the job does not stay blocked and the channel does not stay full.
FiredIsTaken ==
    \A c \in Crontabs :
        jobs[c] > 0 \/ scheduleCh = <<c>>
            ~> \/ cancelled
               \/ jobs[c] = 0 /\ scheduleCh = <<>>

\* Shutdown returns after a signal, whatever the hooks and blocked senders do.
ShutdownReturns == cancelled ~> (at = "returned" \/ step = 0)
=============================================================================
