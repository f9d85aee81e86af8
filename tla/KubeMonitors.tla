----------------------------- MODULE KubeMonitors -----------------------------
(***************************************************************************)
(* The kubernetes bindings of one hook: the controller with its links, the *)
(* index of monitors in the kube events manager, and the monitors with     *)
(* their informers by namespace.                                           *)
(*                                                                         *)
(* Three kinds of goroutines meet here.  The worker enables the bindings,  *)
(* takes snapshots for the Synchronization and unlocks the monitors.       *)
(* Somebody else disables the bindings.  And each monitor with a label     *)
(* selector for namespaces is called back when a namespace comes or goes.  *)
(* Objects are left out: what matters of an informer is that it exists,    *)
(* that it runs and that it may emit events; see ResourceInformer.         *)
(***************************************************************************)
EXTENDS Naturals, Sequences, SequencesExt, FiniteSets

CONSTANTS Namespaces,     \* namespaces that may match the selector
          BindingSeq,     \* the monitor ids of the hook's bindings, in order
          Selecting,      \* the bindings that have a namespace label selector
          Includes,       \* the bindings whose snapshots a binding includes
          MaxMonitors,    \* bound on monitors ever created
          MaxChanges,     \* bound on changes of the namespaces
          MaxCalls        \* bound on calls that enable, update or disable

Bindings == Range(BindingSeq)

ASSUME BindingSeqAssumption ==
    /\ BindingSeq \in Seq(Bindings)
    /\ IsInjective(BindingSeq)
    /\ Len(BindingSeq) > 0
ASSUME SelectingAssumption == Selecting \subseteq Bindings
ASSUME IncludesAssumption == Includes \in [Bindings -> Seq(Bindings)]
ASSUME NamespacesAssumption == IsFiniteSet(Namespaces)

VARIABLES cluster,   \* the namespaces that match the selector now
          changes,   \* how often they changed
          links,     \* BindingMonitorLinks of the controller
          index,     \* Monitors of the manager: the current monitor of an id, or 0
          mons,      \* all monitors ever created
          hasKind,   \* the bindings whose monitor has a kind
          ch,        \* KubeEventCh, as far as UpdateMonitor writes to it
          worker,    \* control state of the queue worker
          other,     \* control state of the goroutine that disables
          infos,     \* the bindings for which Enable made a Synchronization
          given,     \* the snapshots the hook got: <<for, from, namespaces>>
          cache,     \* cache of UpdateSnapshots
          overlap,   \* a Disable was under way during the current Enable
          calls      \* number of calls so far

vars == <<cluster, changes, links, index, mons, hasKind, ch, worker, other,
          infos, given, cache, overlap, calls>>

kube == <<cluster, changes>>
hook == <<infos, given, cache>>

None == 0

(***************************************************************************)
(* An informer of a namespace: Failed stands for the nil slice that is     *)
(* stored when the informers could not be created.                         *)
(***************************************************************************)
Informer == [state : {"failed", "created", "started"}, enabled : BOOLEAN]
Created == [state |-> "created", enabled |-> FALSE]
Failed == [state |-> "failed", enabled |-> FALSE]

Started(i) == IF i.state = "failed" THEN i ELSE [i EXCEPT !.state = "started"]
Enabled(i) == IF i.state = "failed" THEN i ELSE [i EXCEPT !.enabled = TRUE]

NoCallback == [pc |-> "idle", ns |-> None]

(***************************************************************************)
(* A monitor as NewMonitor and CreateInformers make it: fixed is the       *)
(* static informer, varying the informers by namespace, selects tells      *)
(* whether there is a namespace informer, which has not listed yet; gone   *)
(* and missed remember which namespaces fell into one of the two windows   *)
(* described below.                                                        *)
(***************************************************************************)
NewMonitor(b, selects, fixed, varying) ==
    [id |-> b, selects |-> selects, fixed |-> fixed, varying |-> varying, cancelNs |-> {},
     eventsEnabled |-> FALSE, started |-> FALSE, cancelled |-> FALSE,
     stopped |-> FALSE, listed |-> FALSE, store |-> {}, notif |-> <<>>,
     cb |-> NoCallback, gone |-> {}, missed |-> {}]

\* MonitorConfig.namespaces: a label selector excludes the static list.
SelectsNamespaces(b) == b \in Selecting

CreateInformers(b) ==
    IF b \notin hasKind THEN {NewMonitor(b, FALSE, <<>>, <<>>)}
    ELSE IF SelectsNamespaces(b)
    THEN {NewMonitor(b, TRUE, <<>>, v) : v \in [cluster -> {Created, Failed}]}
    ELSE {NewMonitor(b, FALSE, <<Created>>, <<>>)}

\* The types of a monitor; the static informer is never a failed one.
Static == [state : {"created", "started"}, enabled : BOOLEAN]
Varying == UNION {[ns -> Informer] : ns \in SUBSET Namespaces}
Notice == {"add", "delete"} \X Namespaces
Monitor ==
    [id : Bindings, selects : BOOLEAN, fixed : Seq(Static), varying : Varying,
     cancelNs : SUBSET Namespaces, eventsEnabled : BOOLEAN, started : BOOLEAN,
     cancelled : BOOLEAN, stopped : BOOLEAN, listed : BOOLEAN,
     store : SUBSET Namespaces, notif : Seq(Notice),
     cb : [pc : {"idle", "stored", "poll"}, ns : Namespaces \union {None}],
     gone : SUBSET Namespaces, missed : SUBSET Namespaces]

WorkerPlaces == {"idle", "check", "link", "start", "run", "begin", "poll", "synced", "sync",
                 "snapshot", "get", "unlock", "flag", "stop", "add", "send"}

\* The control state of a goroutine, which goes through a list of bindings.
IsControl(g, places) ==
    /\ g = [pc |-> g.pc, op |-> g.op, todo |-> g.todo, mon |-> g.mon]
    /\ g.pc \in places
    /\ g.mon \in 0..Len(mons)
    /\ g.pc \notin {"idle", "snapshot", "get"} => g.todo \in Seq(Bindings) /\ g.todo # <<>>

TypeOK ==
    /\ cluster \subseteq Namespaces
    /\ links \subseteq Bindings
    /\ mons \in Seq(Monitor)
    /\ index \in [Bindings -> 0..Len(mons)]
    /\ hasKind \subseteq Bindings
    /\ infos \subseteq Bindings
    /\ IsControl(worker, WorkerPlaces)
    /\ IsControl(other, {"idle", "read", "cancel", "delete"})
    /\ worker.op \in {"none", "enable", "update"}
    /\ overlap \in BOOLEAN

NothingUnderWay == [pc |-> "idle", op |-> "none", todo |-> <<>>, mon |-> None]

Init ==
    /\ cluster \in SUBSET Namespaces
    /\ changes = 0
    /\ links = {}
    /\ index = [b \in Bindings |-> None]
    /\ mons = <<>>
    /\ hasKind = Bindings
    /\ ch = <<>>
    /\ worker = NothingUnderWay
    /\ other = NothingUnderWay
    /\ infos = {}
    /\ given = {}
    /\ cache = <<>>
    /\ overlap = FALSE
    /\ calls = 0

-----------------------------------------------------------------------------
(***************************************************************************)
(* The manager: AddMonitor creates the informers and then stores the       *)
(* monitor, whatever the index held before.                                *)
(***************************************************************************)
AddMonitor(b) ==
    /\ Len(mons) < MaxMonitors
    /\ \E new \in CreateInformers(b) :
          /\ mons' = Append(mons, new)
          /\ index' = [index EXCEPT ![b] = Len(mons) + 1]

(***************************************************************************)
(* monitor.Start replaces the context of the monitor, so a Stop that came  *)
(* before is forgotten.  Then it starts the informers one after the other, *)
(* the static ones, those of the namespaces and the namespace informer.    *)
(***************************************************************************)
Restarted(mon) == [mon EXCEPT !.cancelled = FALSE]
StartedFixed(mon, i) == [mon EXCEPT !.fixed[i] = Started(@)]
StartedVarying(mon, n) == [mon EXCEPT !.cancelNs = @ \union {n}, !.varying[n] = Started(@)]
StartedMonitor(mon) == [mon EXCEPT !.started = TRUE]

FixedStarted(mon) == \A i \in DOMAIN mon.fixed : mon.fixed[i].state = "started"

(***************************************************************************)
(* EnableKubeEventCb in two steps: first all informers there are, then     *)
(* the flag for the ones to come.                                          *)
(***************************************************************************)
EnabledInformers(mon) ==
    [mon EXCEPT !.fixed = [i \in DOMAIN mon.fixed |-> Enabled(mon.fixed[i])],
                !.varying = [n \in DOMAIN mon.varying |-> Enabled(mon.varying[n])]]

EnabledFuture(mon) == [mon EXCEPT !.eventsEnabled = TRUE]

\* monitor.Stop cancels the context.
Cancelled(mon) == [mon EXCEPT !.cancelled = TRUE]

\* The worker at control point from goes on at to.
Goes(from, to) == worker.pc = from /\ worker' = [worker EXCEPT !.pc = to]
Head1 == Head(worker.todo)

(***************************************************************************)
(* EnableKubernetesBindings, for one binding after the other: add and      *)
(* link the monitor unless it is there, start it, make the info for the    *)
(* Synchronization.  An error or a panic ends it; the task is repeated.    *)
(***************************************************************************)
EnableKubernetesBindings ==
    /\ worker.pc = "idle"
    /\ calls < MaxCalls
    /\ calls' = calls + 1
    /\ worker' = [NothingUnderWay EXCEPT !.pc = "check", !.op = "enable",
                                          !.todo = BindingSeq]
    /\ overlap' = (other.pc # "idle")
    /\ infos' = {}
    /\ given' = {}
    /\ cache' = <<>>
    /\ UNCHANGED <<kube, links, index, mons, hasKind, ch, other>>

\* Mutant: a link is taken for a monitor.
EnableCheckLinkOnly ==
    /\ worker.pc = "check"
    /\ IF Head1 \in links
       THEN Goes("check", "sync") /\ UNCHANGED <<index, mons>>
       ELSE \/ Goes("check", "link") /\ AddMonitor(Head1)
            \/ worker' = NothingUnderWay /\ UNCHANGED <<index, mons>>
    /\ UNCHANGED <<kube, links, hasKind, ch, other, hook, overlap, calls>>

EnableCheck ==
    /\ worker.pc = "check"
    /\ IF Head1 \in links /\ index[Head1] # None
       THEN Goes("check", "sync") /\ UNCHANGED <<index, mons>>
       ELSE \/ Goes("check", "link") /\ AddMonitor(Head1)
            \/ worker' = NothingUnderWay /\ UNCHANGED <<index, mons>>
    /\ UNCHANGED <<kube, links, hasKind, ch, other, hook, overlap, calls>>

SetLink ==
    /\ Goes("link", "start")
    /\ links' = links \union {Head1}
    /\ UNCHANGED <<kube, index, mons, hasKind, ch, other, hook, overlap, calls>>

(***************************************************************************)
(* StartMonitor reads the index under its lock and calls Start without it; *)
(* when the monitor is gone by then, the nil interface makes it panic.     *)
(***************************************************************************)
StartMonitor ==
    /\ worker.pc = "start"
    /\ worker' = IF index[Head1] = None THEN NothingUnderWay
                 ELSE [worker EXCEPT !.pc = "run", !.mon = index[Head1]]
    /\ UNCHANGED <<kube, links, index, mons, hasKind, ch, other, hook, overlap, calls>>

MonitorStart ==
    /\ Goes("run", "begin")
    /\ mons' = [mons EXCEPT ![worker.mon] = Restarted(@)]
    /\ UNCHANGED <<kube, links, index, hasKind, ch, other, hook, overlap, calls>>

(***************************************************************************)
(* resourceInformer.start: FactoryStore.Start registers the handler and    *)
(* then polls until the objects are listed or the context has ended, which *)
(* holds up the worker at each informer.                                   *)
(***************************************************************************)
StartStatic ==
    /\ Goes("begin", "poll")
    /\ \E i \in DOMAIN mons[worker.mon].fixed :
          /\ mons[worker.mon].fixed[i].state = "created"
          /\ \A j \in 1..(i - 1) : mons[worker.mon].fixed[j].state = "started"
          /\ mons' = [mons EXCEPT ![worker.mon] = StartedFixed(@, i)]
    /\ UNCHANGED <<kube, links, index, hasKind, ch, other, hook, overlap, calls>>

\* A namespace, in the order of a map, for which there may be no informers.
StartVarying ==
    /\ worker.pc = "begin"
    /\ FixedStarted(mons[worker.mon])
    /\ \E n \in DOMAIN mons[worker.mon].varying \ mons[worker.mon].cancelNs :
          /\ Goes("begin", IF mons[worker.mon].varying[n].state = "failed" THEN "begin" ELSE "poll")
          /\ mons' = [mons EXCEPT ![worker.mon] = StartedVarying(@, n)]
    /\ UNCHANGED <<kube, links, index, hasKind, ch, other, hook, overlap, calls>>

\* The API server answers the first list of the objects; it may also never do so.
ObjectsListed ==
    /\ Goes("poll", "begin")
    /\ UNCHANGED <<kube, links, index, mons, hasKind, ch, other, hook, overlap, calls>>

PollCancelled ==
    /\ Goes("poll", "begin")
    /\ mons[worker.mon].cancelled
    /\ UNCHANGED <<kube, links, index, mons, hasKind, ch, other, hook, overlap, calls>>

StartNamespaceInformer ==
    /\ Goes("begin", "synced")
    /\ FixedStarted(mons[worker.mon])
    /\ DOMAIN mons[worker.mon].varying \subseteq mons[worker.mon].cancelNs
    /\ mons' = [mons EXCEPT ![worker.mon] = StartedMonitor(@)]
    /\ UNCHANGED <<kube, links, index, hasKind, ch, other, hook, overlap, calls>>

\* Mutant: the poll does not look at the context.
StartReturnsWhenListed ==
    /\ worker.pc = "synced"
    /\ ~mons[worker.mon].selects \/ mons[worker.mon].listed
    /\ worker' = [worker EXCEPT !.pc = IF worker.op = "enable" THEN "sync" ELSE "unlock"]
    /\ UNCHANGED <<kube, links, index, mons, hasKind, ch, other, hook, overlap, calls>>

\* namespaceInformer.start polls until the first list or the end of the context.
StartReturns ==
    /\ worker.pc = "synced"
    /\ \/ ~mons[worker.mon].selects
       \/ mons[worker.mon].listed
       \/ mons[worker.mon].cancelled
    /\ worker' = [worker EXCEPT !.pc = IF worker.op = "enable" THEN "sync" ELSE "unlock"]
    /\ UNCHANGED <<kube, links, index, mons, hasKind, ch, other, hook, overlap, calls>>

(***************************************************************************)
(* After the bindings the combined run of the Synchronization tasks comes, *)
(* which updates its snapshots: for each context the ones it includes,     *)
(* then its own objects, each read from the monitor at most once.          *)
(***************************************************************************)
SnapshotNames == FlattenSeq([i \in DOMAIN BindingSeq |->
    [j \in DOMAIN Includes[BindingSeq[i]] |->
        <<BindingSeq[i], Includes[BindingSeq[i]][j]>>]
    \o <<<<BindingSeq[i], BindingSeq[i]>>>>])

\* HandleEvent for the Synchronization: empty when the link is gone.  After the
\* last binding Enable returns and the hook is run.
EnableHandleEvent ==
    /\ worker.pc = "sync"
    /\ infos' = infos \union (links \intersect {Head1})
    /\ worker' = IF Len(worker.todo) > 1
                 THEN [worker EXCEPT !.pc = "check", !.todo = Tail(@), !.mon = None]
                 ELSE [worker EXCEPT !.pc = "snapshot", !.todo = SnapshotNames, !.mon = None]
    /\ UNCHANGED <<kube, links, index, mons, hasKind, ch, other, given, cache, overlap, calls>>

\* After the last snapshot the hook runs; its success unlocks the monitors.
From == Head1[2]
GiveSnapshot(value) ==
    /\ given' = given \union {<<Head1[1], From, value>>}
    /\ worker' = IF Len(worker.todo) > 1
                 THEN [worker EXCEPT !.pc = "snapshot", !.todo = Tail(@)]
                 ELSE [worker EXCEPT !.pc = "unlock", !.todo = BindingSeq]

\* monitor.Snapshot: the objects of every informer there is.
Snapshot(m) == {n \in DOMAIN mons[m].varying : mons[m].varying[n].state # "failed"}

UseCache ==
    /\ worker.pc = "snapshot"
    /\ From \in DOMAIN cache
    /\ GiveSnapshot(cache[From])
    /\ UNCHANGED <<kube, links, index, mons, hasKind, ch, other, infos, cache, overlap, calls>>

SnapshotHas ==
    /\ worker.pc = "snapshot"
    /\ From \notin DOMAIN cache
    /\ IF index[From] # None
       THEN Goes("snapshot", "get") /\ UNCHANGED <<given, cache>>
       ELSE /\ cache' = [f \in DOMAIN cache \union {From} |->
                            IF f = From THEN {} ELSE cache[f]]
            /\ GiveSnapshot({})
    /\ UNCHANGED <<kube, links, index, mons, hasKind, ch, other, infos, overlap, calls>>

\* Mutant: the snapshot is not kept for the other contexts.
SnapshotGetUncached ==
    /\ worker.pc = "get"
    /\ IF index[From] = None
       THEN worker' = NothingUnderWay /\ UNCHANGED given
       ELSE GiveSnapshot(Snapshot(index[From]))
    /\ UNCHANGED <<kube, links, index, mons, hasKind, ch, other, infos, cache, overlap, calls>>

\* GetMonitor after HasMonitor: a nil monitor makes Snapshot panic.
SnapshotGet ==
    /\ worker.pc = "get"
    /\ IF index[From] = None
       THEN worker' = NothingUnderWay /\ UNCHANGED <<given, cache>>
       ELSE /\ cache' = [f \in DOMAIN cache \union {From} |->
                            IF f = From THEN Snapshot(index[From]) ELSE cache[f]]
            /\ GiveSnapshot(Snapshot(index[From]))
    /\ UNCHANGED <<kube, links, index, mons, hasKind, ch, other, infos, overlap, calls>>

NextUnlock ==
    IF Len(worker.todo) > 1
    THEN /\ worker' = [worker EXCEPT !.pc = "unlock", !.todo = Tail(@), !.mon = None]
         /\ UNCHANGED hook
    ELSE /\ worker' = NothingUnderWay
         /\ infos' = {} /\ given' = {} /\ cache' = <<>>

UnlockEventsFor ==
    /\ worker.pc = "unlock"
    /\ IF index[Head1] = None
       THEN NextUnlock /\ UNCHANGED mons
       ELSE /\ worker' = [worker EXCEPT !.pc = "flag", !.mon = index[Head1]]
            /\ mons' = [mons EXCEPT ![index[Head1]] = EnabledInformers(@)]
            /\ UNCHANGED hook
    /\ UNCHANGED <<kube, links, index, hasKind, ch, other, overlap, calls>>

EnableKubeEventCb ==
    /\ worker.pc = "flag"
    /\ mons' = [mons EXCEPT ![worker.mon] = EnabledFuture(@)]
    /\ NextUnlock
    /\ UNCHANGED <<kube, links, index, hasKind, ch, other, overlap, calls>>

-----------------------------------------------------------------------------
(***************************************************************************)
(* UpdateMonitor stops the monitor, creates one with another kind, queues  *)
(* an Added event, starts the monitor and unlocks it.  When the creation   *)
(* fails the link stays and the monitor is gone.                           *)
(***************************************************************************)
UpdateMonitor(b) ==
    /\ worker.pc = "idle"
    /\ calls < MaxCalls
    /\ b \in links
    /\ calls' = calls + 1
    /\ worker' = [pc |-> "stop", op |-> "update", todo |-> <<b>>, mon |-> index[b]]
    /\ UNCHANGED <<kube, links, index, mons, hasKind, ch, other, hook, overlap>>

\* Stop and delete of StopMonitor; then the kind is changed or not.
UpdateStop ==
    /\ Goes("stop", "add")
    /\ IF worker.mon = None THEN UNCHANGED <<mons, index>>
       ELSE /\ mons' = [mons EXCEPT ![worker.mon] = Cancelled(@)]
            /\ index' = [index EXCEPT ![Head1] = None]
    /\ hasKind' \in {hasKind \ {Head1}, hasKind \union {Head1}}
    /\ UNCHANGED <<kube, links, ch, other, hook, overlap, calls>>

UpdateAdd ==
    /\ \/ Goes("add", "send") /\ AddMonitor(Head1)
       \/ worker.pc = "add" /\ worker' = NothingUnderWay /\ UNCHANGED <<index, mons>>
    /\ UNCHANGED <<kube, links, hasKind, ch, other, hook, overlap, calls>>

UpdateSend ==
    /\ Goes("send", "start")
    /\ Len(ch) < 1
    /\ ch' = Append(ch, Head1)
    /\ UNCHANGED <<kube, links, index, mons, hasKind, other, hook, overlap, calls>>

\* The events goroutine receives the event of UpdateMonitor.
ReceiveEvent ==
    /\ ch # <<>>
    /\ ch' = Tail(ch)
    /\ UNCHANGED <<kube, links, index, mons, hasKind, worker, other, hook, overlap, calls>>

-----------------------------------------------------------------------------
(***************************************************************************)
(* DisableKubernetesBindings takes all links at once, then stops the       *)
(* monitors one by one: StopMonitor reads the index, cancels, and deletes  *)
(* whatever the index holds for the id by then.                            *)
(***************************************************************************)
StopNext(ids) == IF ids = <<>> THEN NothingUnderWay
                 ELSE [NothingUnderWay EXCEPT !.pc = "read", !.todo = ids]

DisableKubernetesBindings ==
    /\ other.pc = "idle"
    /\ calls < MaxCalls
    /\ calls' = calls + 1
    /\ \E order \in SetToSeqs(links) : other' = StopNext(order)
    /\ links' = {}
    /\ overlap' = TRUE
    /\ UNCHANGED <<kube, index, mons, hasKind, ch, worker, hook>>

StopMonitor ==
    /\ other.pc = "read"
    /\ other' = IF index[Head(other.todo)] = None
                THEN StopNext(Tail(other.todo))
                ELSE [other EXCEPT !.pc = "cancel", !.mon = index[Head(other.todo)]]
    /\ UNCHANGED <<kube, links, index, mons, hasKind, ch, worker, hook, overlap, calls>>

MonitorStop ==
    /\ other.pc = "cancel"
    /\ mons' = [mons EXCEPT ![other.mon] = Cancelled(@)]
    /\ other' = [other EXCEPT !.pc = "delete"]
    /\ UNCHANGED <<kube, links, index, hasKind, ch, worker, hook, overlap, calls>>

StopMonitorDelete ==
    /\ other.pc = "delete"
    /\ index' = [index EXCEPT ![Head(other.todo)] = None]
    /\ other' = StopNext(Tail(other.todo))
    /\ UNCHANGED <<kube, links, mons, hasKind, ch, worker, hook, overlap, calls>>

-----------------------------------------------------------------------------
(***************************************************************************)
(* Namespaces come and go (also by a change of their labels).  The         *)
(* namespace informer of client-go lists once it is started and then       *)
(* watches; its handler is called in order.                                *)
(***************************************************************************)
ClusterChanges ==
    /\ changes < MaxChanges
    /\ changes' = changes + 1
    /\ \E n \in Namespaces :
          cluster' = IF n \in cluster THEN cluster \ {n} ELSE cluster \union {n}
    /\ UNCHANGED <<links, index, mons, hasKind, ch, worker, other, hook, overlap, calls>>

OnlyMonitors ==
    UNCHANGED <<kube, links, index, hasKind, ch, worker, other, hook, overlap, calls>>

Watches(m) == mons[m].started /\ mons[m].selects /\ ~mons[m].cancelled

Listed(mon, order) ==
    [mon EXCEPT !.listed = TRUE, !.store = cluster,
                !.notif = [i \in DOMAIN order |-> <<"add", order[i]>>],
                !.gone = DOMAIN mon.varying \ cluster]

NamespaceList(m) ==
    /\ Watches(m) /\ ~mons[m].listed
    /\ \E order \in SetToSeqs(cluster) : mons' = [mons EXCEPT ![m] = Listed(@, order)]
    /\ OnlyMonitors

Appeared(mon, n) ==
    [mon EXCEPT !.store = @ \union {n}, !.notif = Append(@, <<"add", n>>)]
Disappeared(mon, n) ==
    [mon EXCEPT !.store = @ \ {n}, !.notif = Append(@, <<"delete", n>>)]

NamespaceWatch(m) ==
    /\ Watches(m) /\ mons[m].listed
    /\ \/ \E n \in cluster \ mons[m].store : mons' = [mons EXCEPT ![m] = Appeared(@, n)]
       \/ \E n \in mons[m].store \ cluster : mons' = [mons EXCEPT ![m] = Disappeared(@, n)]
    /\ OnlyMonitors

\* The goroutine of namespaceInformer.start that waits for the context: what is
\* still to be notified is ignored from now on.
Stopped(mon) == [mon EXCEPT !.stopped = TRUE, !.notif = <<>>]

NamespaceInformerStop(m) ==
    /\ mons[m].started /\ mons[m].cancelled /\ ~mons[m].stopped
    /\ mons[m].selects
    /\ mons' = [mons EXCEPT ![m] = Stopped(@)]
    /\ OnlyMonitors

Notified(m, type) ==
    /\ mons[m].cb.pc = "idle"
    /\ mons[m].notif # <<>>
    /\ Head(mons[m].notif)[1] = type

\* A notification that changes nothing.
Taken(mon) == [mon EXCEPT !.notif = Tail(@)]

\* OnAdd up to the store of the new informers, which others can see.
Stored(mon, n, new) ==
    [mon EXCEPT !.notif = Tail(@),
                !.varying = [x \in DOMAIN mon.varying \union {n} |->
                                IF x = n THEN new ELSE mon.varying[x]],
                !.cb = [pc |-> "stored", ns |-> n]]

OnAdd(m) ==
    LET n == Head(mons[m].notif)[2] IN
    /\ Notified(m, "add")
    /\ \/ /\ n \in DOMAIN mons[m].varying
          /\ mons' = [mons EXCEPT ![m] = Taken(@)]
       \/ /\ n \notin DOMAIN mons[m].varying
          /\ \E new \in {Created, Failed} : mons' = [mons EXCEPT ![m] = Stored(@, n, new)]
    /\ OnlyMonitors

\* Mutant: the informers of a new namespace wait for an unlock of their own.
OnAddStartLocked(m) ==
    LET n == mons[m].cb.ns IN
    /\ mons[m].cb.pc = "stored"
    /\ mons' = [mons EXCEPT ![m].cb = [pc |-> "poll", ns |-> n], ![m].cancelNs = @ \union {n},
                            ![m].varying[n] = Started(@)]
    /\ OnlyMonitors

\* OnAdd goes on: the flag of the monitor is read, and informers are started.
Begun(mon, n, unlocking) ==
    LET i == mon.varying[n] IN
    [mon EXCEPT !.cb = IF i.state = "failed" THEN NoCallback ELSE [pc |-> "poll", ns |-> n],
                !.cancelNs = @ \union {n},
                !.varying = [x \in DOMAIN mon.varying |->
                                IF x = n THEN Started(IF mon.eventsEnabled THEN Enabled(i) ELSE i)
                                ELSE mon.varying[x]],
                !.missed = IF unlocking /\ ~i.enabled THEN @ \union {n} ELSE @ \ {n}]

OnAddStart(m) ==
    /\ mons[m].cb.pc = "stored"
    /\ mons' = [mons EXCEPT ![m] = Begun(@, @.cb.ns, worker.pc = "flag" /\ worker.mon = m)]
    /\ OnlyMonitors

\* OnAdd ends with the poll of FactoryStore.Start, by a list or by the context.
OnAddReturns(m) ==
    /\ mons[m].cb.pc = "poll"
    /\ mons' = [mons EXCEPT ![m] = [@ EXCEPT !.cb = NoCallback]]
    /\ OnlyMonitors

\* Mutant: the informers are cancelled, but stay in the map.
OnDeleteKeepsInformers(m) ==
    /\ Notified(m, "delete")
    /\ mons' = [mons EXCEPT ![m].notif = Tail(@),
                            ![m].cancelNs = @ \ {Head(mons[m].notif)[2]}]
    /\ OnlyMonitors

Removed(mon, n) ==
    [mon EXCEPT !.notif = Tail(@),
                !.cancelNs = @ \ {n},
                !.varying = [x \in DOMAIN mon.varying \ {n} |-> mon.varying[x]],
                !.missed = @ \ {n},
                !.gone = @ \ {n}]

OnDelete(m) ==
    LET n == Head(mons[m].notif)[2] IN
    /\ Notified(m, "delete")
    /\ mons' = [mons EXCEPT ![m] = IF n \in @.cancelNs THEN Removed(@, n) ELSE Taken(@)]
    /\ OnlyMonitors

Callback(m) == OnAdd(m) \/ OnAddStart(m) \/ OnAddReturns(m) \/ OnDelete(m)
Namespace(m) == NamespaceList(m) \/ NamespaceWatch(m) \/ NamespaceInformerStop(m)

WorkerSteps ==
    \/ EnableCheck \/ SetLink \/ StartMonitor \/ MonitorStart
    \/ StartStatic \/ StartVarying \/ PollCancelled \/ StartNamespaceInformer \/ StartReturns
    \/ EnableHandleEvent \/ UseCache \/ SnapshotHas \/ SnapshotGet
    \/ UnlockEventsFor \/ EnableKubeEventCb
    \/ UpdateStop \/ UpdateAdd \/ UpdateSend

OtherSteps == StopMonitor \/ MonitorStop \/ StopMonitorDelete

Next ==
    \/ EnableKubernetesBindings
    \/ WorkerSteps
    \/ ObjectsListed
    \/ \E b \in Bindings : UpdateMonitor(b)
    \/ ReceiveEvent
    \/ DisableKubernetesBindings
    \/ OtherSteps
    \/ ClusterChanges
    \/ \E m \in DOMAIN mons : Namespace(m) \/ Callback(m)

(***************************************************************************)
(* Goroutines are scheduled, and the events goroutine receives.  Nothing   *)
(* is assumed of the API server: lists may fail for ever, and nothing is   *)
(* needed of the callbacks.                                                *)
(***************************************************************************)
Fairness ==
    /\ WF_vars(WorkerSteps)
    /\ WF_vars(OtherSteps)
    /\ WF_vars(ReceiveEvent)

Spec == Init /\ [][Next]_vars /\ Fairness

-----------------------------------------------------------------------------
(***************************************************************************)
(* "The method is idempotent and self-healing": whatever earlier calls,    *)
(* failed updates and disabling left behind, when EnableKubernetesBindings *)
(* ends without a Disable in between, every binding has its link, a        *)
(* monitor in the index that runs, and a Synchronization for the hook.     *)
(***************************************************************************)
EnableRepairs ==
    (worker.pc = "snapshot" /\ worker.todo = SnapshotNames /\ ~overlap) =>
        \A b \in Bindings :
            /\ b \in links /\ b \in infos
            /\ index[b] # None
            /\ mons[index[b]].started /\ ~mons[index[b]].cancelled

(***************************************************************************)
(* Contexts of one run that include the same binding get the same          *)
(* snapshot of it, though namespaces come and go while they are collected. *)
(***************************************************************************)
ConsistentSnapshots ==
    \A x, y \in given : x[2] = y[2] => x[3] = y[3]

(***************************************************************************)
(* When a monitor has handled all notifications, informers run for exactly *)
(* the namespaces the namespace informer knows and those that were listed  *)
(* by CreateInformers but had gone when the namespace informer listed:     *)
(* nobody tells the monitor about these.  Namespaces whose informers could *)
(* not be created are without: their empty entry is taken for informers,   *)
(* so they are not tried again before they are deleted.                    *)
(***************************************************************************)
CaughtUp(mon) == mon.listed /\ ~mon.cancelled /\ mon.notif = <<>> /\ mon.cb.pc = "idle"
Served(mon) == {n \in DOMAIN mon.varying : mon.varying[n].state = "started"}
NotCreated(mon) == {n \in DOMAIN mon.varying : mon.varying[n].state = "failed"}

NamespacesFollow ==
    \A m \in DOMAIN mons : CaughtUp(mons[m]) =>
        Served(mons[m]) = (mons[m].store \union mons[m].gone) \ NotCreated(mons[m])

(***************************************************************************)
(* Informers run for every namespace the namespace informer knows.  The    *)
(* code does not keep it: see the empty entries above.                     *)
(***************************************************************************)
EveryNamespaceServed ==
    \A m \in DOMAIN mons : CaughtUp(mons[m]) => mons[m].store \subseteq Served(mons[m])

(***************************************************************************)
(* Once a monitor is unlocked, every informer it created emits events,     *)
(* except one that was stored after EnableKubeEventCb had gone through the *)
(* informers and that read eventsEnabled before it was set.                *)
(***************************************************************************)
SilentOnlyInWindow ==
    \A m \in DOMAIN mons : mons[m].eventsEnabled =>
        /\ \A i \in DOMAIN mons[m].fixed : mons[m].fixed[i].enabled
        /\ \A n \in DOMAIN mons[m].varying :
              \/ mons[m].varying[n].enabled
              \/ mons[m].varying[n].state = "failed"
              \/ mons[m].cb.pc = "stored" /\ mons[m].cb.ns = n
              \/ n \in mons[m].missed

(***************************************************************************)
(* Enabling, updating and unlocking end, unless the worker waits for ever  *)
(* for a list of objects or namespaces that never comes: the wait ends     *)
(* when the monitor is stopped meanwhile, and the event of UpdateMonitor   *)
(* is received.                                                            *)
(***************************************************************************)
AwaitsList ==
    /\ worker.pc \in {"poll", "synced"}
    /\ ~mons[worker.mon].cancelled
    /\ worker.pc = "synced" => mons[worker.mon].selects /\ ~mons[worker.mon].listed

WorkerReturns == (worker.pc # "idle") ~> (worker.pc = "idle" \/ []AwaitsList)
=============================================================================
