----------------------------- MODULE TaskQueue -----------------------------
(***************************************************************************)
(* One task queue of shell-operator (pkg/task/queue) together with the two *)
(* task handlers that reach back into it (taskHandleHookRun and            *)
(* taskHandleEnableKubernetesBindings of pkg/shell-operator).              *)
(*                                                                         *)
(* Two goroutines share the queue.  The "events" goroutine is              *)
(* ManagerEventsHandler: it calls AddLast, which counts the task and may   *)
(* run the compaction itself.  The "worker" goroutine is TaskQueue.Start:  *)
(* it waits for the head task, may run the compaction, marks the task as   *)
(* being processed, calls the handler and applies the result.  q.m is only *)
(* taken by the worker, so a compaction of the events goroutine interleaves*)
(* with everything the worker does, and the compaction is modelled as the  *)
(* code runs it: one scan, then the merges, element by element.            *)
(*                                                                         *)
(* A task is a number, its position in info.  The binding context (and for *)
(* a Synchronization task the monitor id) that a task is created with is   *)
(* named by the number of that task, so contexts can be followed through   *)
(* every merge.                                                            *)
(***************************************************************************)
EXTENDS Integers, Sequences, FiniteSets, SequencesExt

CONSTANTS
    Hooks,      \* names of the hooks served by this queue
    NoGroup,    \* the empty group name
    Bindings,   \* the configured bindings, in the order of the hook configs
    Startup,    \* hooks for which bootstrapMainQueue adds an Enable task
    Threshold,  \* compactionThreshold, 100 in the code
    MaxEvents,  \* bound: number of AddLast calls
    MaxQueue    \* bound: AddLast is called only on a shorter queue

Binding == [hook : Hooks, group : {b.group : b \in ToSet(Bindings)} \cup {NoGroup},
            allow : BOOLEAN, exec : BOOLEAN]

ASSUME BindingsAssumption == Bindings \in Seq(Binding)
ASSUME StartupAssumption == Startup \in Seq(Hooks)
ASSUME ThresholdAssumption == Threshold \in Nat \ {0}
ASSUME BoundsAssumption == MaxEvents \in Nat /\ MaxQueue \in Nat

VARIABLES
    info,       \* every task ever created: type, hook, binding settings
    meta,       \* metadata of each task: its binding contexts and monitor ids
    ctxHeap,    \* backing arrays made for contextSlicePool
    monHeap,    \* backing arrays made for monitorIDSlicePool
    ctxPool,    \* arrays that contextSlicePool can hand out
    monPool,    \* arrays that monitorIDSlicePool can hand out
    queue,      \* TaskStorage.items, from head to tail
    processing, \* tasks with the processing flag set
    counter,    \* TaskCounter.counter, by compaction id (the hook name)
    reachedCap, \* TaskCounter.reachedCap
    events,     \* number of AddLast calls made
    added,      \* the task the latest AddLast call added
    cancelled,  \* the queue context is cancelled
    status,     \* TaskQueueStatus
    pc,         \* control point of each goroutine
    cur,        \* the task the worker works on, 0 if none
    run,        \* locals of the running handler
    comp,       \* locals of compaction, by goroutine
    done,       \* history: contexts that a run has taken care of: a successful one, or a
                \* failed one if their own binding allows it to fail
    unlocked    \* history: monitors whose events are unlocked

heapVars == <<ctxHeap, monHeap, ctxPool, monPool>>
taskVars == <<info, meta, heapVars>>
queueVars == <<queue, processing>>
countVars == <<counter, reachedCap>>
histVars == <<done, unlocked>>
eventVars == <<events, added>>
vars == <<taskVars, queueVars, countVars, histVars, eventVars, cancelled, status,
          pc, cur, run, comp>>

Actors == {"worker", "events"}
Tasks == DOMAIN info

-----------------------------------------------------------------------------
(* Slices.  A slice either owns its elements (arr = 0) or is a window of a *)
(* pooled backing array, whose later writes it sees.                       *)

Owned(xs) == [arr |-> 0, len |-> Len(xs), val |-> xs]
Window(a, n) == [arr |-> a, len |-> n, val |-> <<>>]
Contents(heap, s) == IF s.arr = 0 THEN s.val ELSE SubSeq(heap[s.arr], 1, s.len)

\* append(first n elements of array a, xs...) within the capacity of the array;
\* an array that is not there yet is made.
WriteAt(heap, a, n, xs) ==
    IF a > Len(heap) THEN Append(heap, xs)
    ELSE [heap EXCEPT ![a] = SubSeq(@, 1, n) \o xs \o SubSeq(@, n + Len(xs) + 1, Len(@))]

Contexts(t) == Contents(ctxHeap, meta[t].ctx)
Monitors(t) == Contents(monHeap, meta[t].mon)

(* Settings of the binding a task, or a context, was created for.          *)
GroupOf(i) == IF info[i].bind = 0 THEN NoGroup ELSE Bindings[info[i].bind].group
AllowFailure(i) == info[i].bind # 0 /\ Bindings[info[i].bind].allow

\* Only NewSyncHookRunTask copies the setting; tasks of events carry false.
ExecuteOnSynchronization(i) == info[i].sync /\ Bindings[info[i].bind].exec

\* The elements of s at the positions K, and those that are in S, in their order.
OnlyAt(s, K) ==
    LET only[i \in 0..Len(s)] ==
            IF i = 0 THEN <<>> ELSE IF i \in K THEN Append(only[i - 1], s[i]) ELSE only[i - 1]
    IN only[Len(s)]
Only(s, S) == OnlyAt(s, {i \in DOMAIN s : s[i] \in S})

Same(i, j) == info[i].hook = info[j].hook /\ info[i].kind = info[j].kind

-----------------------------------------------------------------------------
(* Task creation: HookTaskFactory and bootstrapMainQueue.                  *)

HookRunTask(k, sync) ==
    [kind |-> "HookRun", hook |-> Bindings[k].hook, bind |-> k, sync |-> sync]

EnableTask(h) == [kind |-> "Enable", hook |-> h, bind |-> 0, sync |-> FALSE]

\* Metadata of task number t at its creation.
NewMeta(t, rec) ==
    [ctx |-> Owned(IF rec.kind = "HookRun" THEN <<t>> ELSE <<>>),
     mon |-> Owned(IF rec.sync THEN <<t>> ELSE <<>>)]

Create(recs) ==
    /\ info' = info \o recs
    /\ meta' = meta \o [k \in 1..Len(recs) |-> NewMeta(Len(info) + k, recs[k])]

NewIds(recs) == [k \in 1..Len(recs) |-> Len(info) + k]

-----------------------------------------------------------------------------
(* TaskCounter.  NewNamedQueue sets the compactable types after the        *)
(* counter is built, so the counter counts tasks of every type.            *)

CounterAdd(t) ==
    LET h == info[t].hook IN
    /\ counter' = [counter EXCEPT ![h] = @ + 1]
    /\ reachedCap' = IF counter[h] + 1 = Threshold THEN reachedCap \cup {h} ELSE reachedCap

\* Remove for each element of ts; counting down stops at zero.
CounterRemove(ts) ==
    LET left(h) == counter[h] - Cardinality({t \in ts : info[t].hook = h})
        touched == {info[t].hook : t \in ts}
    IN
    /\ counter' = [h \in Hooks |-> IF left(h) > 0 THEN left(h) ELSE 0]
    /\ reachedCap' = reachedCap \ {h \in touched : left(h) < Threshold}

-----------------------------------------------------------------------------
(* Compaction.                                                             *)

Idle == [live |-> FALSE, ids |-> {}, groups |-> {}, grp |-> <<>>, target |-> 0,
         ctx |-> Owned(<<>>), mon |-> Owned(<<>>)]

\* AddLast or processOne goes on after the compaction.
Resume(a) == IF a = "worker" THEN "mark" ELSE "idle"

\* IsAnyCapReached
IsAnyCapReached(a) ==
    /\ pc[a] = "cap"
    /\ pc' = [pc EXCEPT ![a] = IF reachedCap # {} THEN "get" ELSE Resume(a)]
    /\ UNCHANGED <<taskVars, queueVars, countVars, histVars, eventVars, cancelled,
                   status, cur, run, comp>>

\* GetReachedCap returns the map itself, which later calls of the counter change.
GetReachedCap(a) ==
    /\ pc[a] = "get"
    /\ pc' = [pc EXCEPT ![a] = "size"]
    /\ comp' = [comp EXCEPT ![a].live = TRUE]
    /\ UNCHANGED <<taskVars, queueVars, countVars, histVars, eventVars, cancelled,
                   status, cur, run>>

\* compactionIDs: the map of the counter, or one that the counter has replaced.
CompactionIDs(a) == IF comp[a].live THEN reachedCap ELSE comp[a].ids

\* compaction returns early from a short queue; the reached caps stay.
CompactionLength(a) ==
    /\ pc[a] = "size"
    /\ \/ /\ Len(queue) < 2
          /\ pc' = [pc EXCEPT ![a] = Resume(a)]
          /\ comp' = [comp EXCEPT ![a] = Idle]
       \/ /\ Len(queue) >= 2
          /\ pc' = [pc EXCEPT ![a] = "scan"]
          /\ UNCHANGED comp
    /\ UNCHANGED <<taskVars, queueVars, countVars, histVars, eventVars, cancelled,
                   status, cur, run>>

\* First pass: the tasks the scan collects for hook h, the merge target first.
\* Without ids the tasks of every hook are collected.
Group(h, ids) ==
    Only(queue, {t \in Tasks : /\ info[t].kind = "HookRun"
                               /\ info[t].hook = h
                               /\ h \in ids \/ ids = {}
                               /\ t \notin processing})

\* First pass: Iterate under the lock of the storage.
CompactionScan(a) ==
    LET collected == {Group(h, CompactionIDs(a)) : h \in Hooks} IN
    /\ pc[a] = "scan"
    /\ pc' = [pc EXCEPT ![a] = "merge"]
    /\ comp' = [comp EXCEPT ![a] = [Idle EXCEPT !.groups = {g \in collected : Len(g) > 1}]]
    /\ UNCHANGED <<taskVars, queueVars, countVars, histVars, eventVars, cancelled,
                   status, cur, run>>

\* Second pass, next group: take slices from the pools and copy the target's
\* contexts and monitor ids into them.  The pools may also be empty.
MergeStart(a) ==
    /\ pc[a] = "merge"
    /\ comp[a].target = 0
    /\ \E g \in comp[a].groups, c \in ctxPool \cup {Len(ctxHeap) + 1},
          m \in monPool \cup {Len(monHeap) + 1} :
        LET cs == Contexts(Head(g))
            ms == Monitors(Head(g))
        IN
        /\ ctxHeap' = WriteAt(ctxHeap, c, 0, cs)
        /\ monHeap' = WriteAt(monHeap, m, 0, ms)
        /\ comp' = [comp EXCEPT ![a] =
                        [live |-> FALSE, ids |-> {}, groups |-> @.groups \ {g}, grp |-> Tail(g),
                         target |-> Head(g), ctx |-> Window(c, Len(cs)), mon |-> Window(m, Len(ms))]]
        /\ ctxPool' = ctxPool \ {c}
        /\ monPool' = monPool \ {m}
    /\ UNCHANGED <<info, meta, queueVars, countVars, histVars, eventVars, cancelled,
                   status, pc, cur, run>>

\* Second pass, next element: append its contexts and monitor ids, remove it.
MergeElement(a) ==
    LET e == Head(comp[a].grp)
        c == comp[a].ctx
        m == comp[a].mon
    IN
    /\ pc[a] = "merge"
    /\ comp[a].grp # <<>>
    /\ ctxHeap' = WriteAt(ctxHeap, c.arr, c.len, Contexts(e))
    /\ monHeap' = WriteAt(monHeap, m.arr, m.len, Monitors(e))
    /\ comp' = [comp EXCEPT ![a].grp = Tail(@),
                            ![a].ctx.len = @ + Len(Contexts(e)),
                            ![a].mon.len = @ + Len(Monitors(e))]
    /\ queue' = Only(queue, Tasks \ {e})
    /\ CounterRemove({e})
    /\ UNCHANGED <<info, meta, ctxPool, monPool, processing, histVars, eventVars,
                   cancelled, status, pc, cur, run>>

\* compactBindingContexts: contexts without a group keep their order, then the
\* last context of each group in the order of a map iteration.
IsLastOfGroup(cs, k) ==
    /\ GroupOf(cs[k]) # NoGroup
    /\ \A l \in (k + 1)..Len(cs) : GroupOf(cs[l]) # GroupOf(cs[k])

Ungrouped == {i \in Tasks : GroupOf(i) = NoGroup}

\* The sequences that have each element of S once.
Orders(S) == {s \in [1..Cardinality(S) -> S] : ToSet(s) = S}

\* Mutant: the contexts collected by group are not appended.
CompactToUngrouped(cs) == {Only(cs, Ungrouped)}

CompactBindingContexts(cs) ==
    LET lasts == {cs[k] : k \in {l \in 1..Len(cs) : IsLastOfGroup(cs, l)}}
    IN {Only(cs, Ungrouped) \o s : s \in Orders(lasts)}

\* Second pass, end of a group: store the merged slices in the target's
\* metadata and hand them back to the pools.  Without a grouped context the
\* stored slice is the pooled one itself; the monitor ids always are.
MergeFinish(a) ==
    LET t == comp[a].target
        cs == Contents(ctxHeap, comp[a].ctx)
        shared == Len(cs) < 2 \/ \A k \in 1..Len(cs) : GroupOf(cs[k]) = NoGroup
    IN
    /\ pc[a] = "merge"
    /\ t # 0
    /\ comp[a].grp = <<>>
    /\ \E res \in IF shared THEN {comp[a].ctx}
                  ELSE {Owned(s) : s \in CompactBindingContexts(cs)} :
        meta' = [meta EXCEPT ![t] = [ctx |-> res, mon |-> comp[a].mon]]
    /\ ctxPool' = ctxPool \cup {comp[a].ctx.arr}
    /\ monPool' = monPool \cup {comp[a].mon.arr}
    /\ comp' = [comp EXCEPT ![a] = [Idle EXCEPT !.groups = comp[a].groups]]
    /\ UNCHANGED <<info, ctxHeap, monHeap, queueVars, countVars, histVars, eventVars, cancelled,
                   status, pc, cur, run>>

\* ResetReachedCap makes a new map: a compaction that got the old one keeps it
\* as it was.  Then back to AddLast or processOne.
MergeEnd(a) ==
    /\ pc[a] = "merge"
    /\ comp[a].target = 0
    /\ comp[a].groups = {}
    /\ reachedCap' = {}
    /\ pc' = [pc EXCEPT ![a] = Resume(a)]
    /\ comp' = [b \in Actors |->
                   IF b = a THEN Idle
                   ELSE [comp[b] EXCEPT !.live = FALSE, !.ids = CompactionIDs(b)]]
    /\ UNCHANGED <<taskVars, queueVars, counter, histVars, eventVars, cancelled,
                   status, cur, run>>

-----------------------------------------------------------------------------
(* The events goroutine: TaskQueueSet.AddTailTasks -> TaskQueue.AddLast.   *)

\* A binding of a bootstrapped hook reports events only after its
\* Synchronization: see ResourceInformer.
EventsEnabled(k) ==
    Contains(Startup, Bindings[k].hook) => \E i \in unlocked : info[i].bind = k

\* TaskStorage.addLast
StorageAddLast(ids) == queue \o ids

\* storage.AddLast of a new task for one of the bindings.
AddLast ==
    /\ pc["events"] = "idle"
    /\ events < MaxEvents
    /\ Len(queue) < MaxQueue
    /\ \E k \in DOMAIN Bindings :
        LET recs == <<HookRunTask(k, FALSE)>> IN
        /\ EventsEnabled(k)
        /\ Create(recs)
        /\ queue' = StorageAddLast(NewIds(recs))
    /\ events' = events + 1
    /\ added' = Len(info) + 1
    /\ pc' = [pc EXCEPT !["events"] = "count"]
    /\ UNCHANGED <<heapVars, processing, countVars, histVars, cancelled, status,
                   cur, run, comp>>

\* queueTasksCounter.Add
AddLastCount ==
    /\ pc["events"] = "count"
    /\ CounterAdd(added)
    /\ pc' = [pc EXCEPT !["events"] = "check"]
    /\ UNCHANGED <<taskVars, queueVars, histVars, eventVars, cancelled, status, cur,
                   run, comp>>

\* Compact if the queue is long: Length comes first, then the reached caps.
AddLastCheck ==
    /\ pc["events"] = "check"
    /\ pc' = [pc EXCEPT !["events"] = IF Len(queue) > Threshold THEN "cap" ELSE "idle"]
    /\ UNCHANGED <<taskVars, queueVars, countVars, histVars, eventVars, cancelled,
                   status, cur, run, comp>>

-----------------------------------------------------------------------------
(* The worker goroutine: TaskQueue.Start, waitForTask, processOne.         *)

\* Mutant: the status is not updated.
StopSilently ==
    /\ pc' = [pc EXCEPT !["worker"] = "stopped"]
    /\ UNCHANGED status

StopWorker ==
    /\ pc' = [pc EXCEPT !["worker"] = "stopped"]
    /\ status' = "Stop"

\* waitForTask: return on a cancelled context, or see that Length() > 0.
WaitForTask ==
    /\ pc["worker"] = "wait"
    /\ \/ cancelled /\ StopWorker
       \/ /\ queue # <<>>
          /\ pc' = [pc EXCEPT !["worker"] = "first"]
          /\ UNCHANGED status
    /\ UNCHANGED <<taskVars, queueVars, countVars, histVars, eventVars, cancelled,
                   cur, run, comp>>

\* waitForTask: GetFirst; nil stops the queue.  processOne compacts before the task.
GetFirst ==
    /\ pc["worker"] = "first"
    /\ \/ queue = <<>> /\ StopWorker /\ UNCHANGED cur
       \/ /\ queue # <<>>
          /\ cur' = Head(queue)
          /\ pc' = [pc EXCEPT !["worker"] = "cap"]
          /\ UNCHANGED status
    /\ UNCHANGED <<taskVars, queueVars, countVars, histVars, eventVars, cancelled,
                   run, comp>>

\* processOne: SetProcessing(true) and the running status.
MarkProcessing ==
    /\ pc["worker"] = "mark"
    /\ processing' = processing \cup {cur}
    /\ status' = "RunningTask"
    /\ pc' = [pc EXCEPT !["worker"] = "handle"]
    /\ UNCHANGED <<taskVars, queue, countVars, histVars, eventVars, cancelled, cur,
                   run, comp>>

-----------------------------------------------------------------------------
(* The handlers.                                                           *)

NoRun == [ctx |-> Owned(<<>>), mon |-> Owned(<<>>), others |-> {}, sync |-> FALSE,
          res |-> "none"]

Return(res) ==
    /\ run' = [run EXCEPT !.res = res]
    /\ pc' = [pc EXCEPT !["worker"] = "result"]

\* taskHandleEnableKubernetesBindings: the monitors are created or the attempt fails.
HandleEnableKubernetesBindings ==
    /\ pc["worker"] = "handle"
    /\ info[cur].kind = "Enable"
    /\ Return("Success") \/ Return("Fail")
    /\ UNCHANGED <<taskVars, queueVars, countVars, histVars, eventVars, cancelled,
                   status, cur, comp>>

\* HookMetadata.IsSynchronization looks at the first context only.
IsSynchronization(cs) == cs # <<>> /\ info[cs[1]].sync

\* taskHandleHookRun: read the metadata; the rate limiter may give up.
HandleHookRun ==
    LET isSync == IsSynchronization(Contexts(cur))
        shouldRun == isSync => ExecuteOnSynchronization(cur)
        shouldCombine == ~(isSync /\ GroupOf(cur) = NoGroup)
    IN
    /\ pc["worker"] = "handle"
    /\ info[cur].kind = "HookRun"
    /\ \/ Return("Repeat")
       \/ /\ run' = [NoRun EXCEPT !.ctx = meta[cur].ctx, !.mon = meta[cur].mon, !.sync = isSync]
          /\ pc' = [pc EXCEPT !["worker"] = IF ~shouldRun THEN "skip"
                                            ELSE IF shouldCombine THEN "combine"
                                            ELSE "run"]
    /\ UNCHANGED <<taskVars, queueVars, countVars, histVars, eventVars, cancelled,
                   status, cur, comp>>

\* The tasks right behind cur that combineBindingContextForHook collects.
CombinedTasks ==
    OnlyAt(queue, {i \in DOMAIN queue : queue[i] # cur /\ \A j \in 1..i : Same(queue[j], cur)})

\* A context is dropped when the next one has the same group.
CompactAdjacent(cs) ==
    OnlyAt(cs, {k \in DOMAIN cs : \/ GroupOf(cs[k]) = NoGroup
                                 \/ k = Len(cs)
                                 \/ GroupOf(cs[k + 1]) # GroupOf(cs[k])})

\* combineBindingContextForHook: snapshot of the queue and reads of the
\* metadata, that of the task itself included, which is read once more.
CombineCollect ==
    LET tail == CombinedTasks
        own == meta[cur].mon
        cs == Contexts(cur) \o FlattenSeq([k \in 1..Len(tail) |-> Contexts(tail[k])])
        ms == FlattenSeq([k \in 1..Len(tail) |-> Monitors(tail[k])])
    IN
    /\ pc["worker"] = "combine"
    /\ \/ /\ tail = <<>>
          /\ pc' = [pc EXCEPT !["worker"] = "run"]
          /\ UNCHANGED <<run, monHeap>>
       \/ /\ tail # <<>>
          /\ pc' = [pc EXCEPT !["worker"] = "delete"]
          \* append(monitorIDs, ...) writes into the array the slice lives in
          /\ IF own.arr = 0 \/ ms = <<>>
             THEN UNCHANGED monHeap
             ELSE monHeap' = WriteAt(monHeap, own.arr, own.len, ms)
          /\ run' = [run EXCEPT !.others = ToSet(tail),
                                !.ctx = Owned(CompactAdjacent(cs)),
                                !.mon = IF own.len + Len(ms) = 0 THEN @
                                        ELSE IF own.arr = 0 THEN Owned(own.val \o ms)
                                        ELSE Window(own.arr, own.len + Len(ms))]
    /\ UNCHANGED <<info, meta, ctxHeap, ctxPool, monPool, queueVars, countVars,
                   histVars, eventVars, cancelled, status, cur, comp>>

\* Mutant: the combined contexts are not stored in the task.
CombineDeleteOnly ==
    /\ pc["worker"] = "delete"
    /\ queue' = Only(queue, Tasks \ run.others)
    /\ CounterRemove(run.others \cap ToSet(queue))
    /\ pc' = [pc EXCEPT !["worker"] = "run"]
    /\ UNCHANGED <<taskVars, processing, histVars, eventVars, cancelled, status, cur, run, comp>>

\* combineBindingContextForHook: DeleteFunc, then UpdateMetadata of the task.
CombineDelete ==
    /\ pc["worker"] = "delete"
    /\ queue' = Only(queue, Tasks \ run.others)
    /\ CounterRemove(run.others \cap ToSet(queue))
    /\ meta' = [meta EXCEPT ![cur] = [ctx |-> run.ctx, mon |-> run.mon]]
    /\ pc' = [pc EXCEPT !["worker"] = "run"]
    /\ UNCHANGED <<info, heapVars, processing, histVars, eventVars, cancelled,
                   status, cur, run, comp>>

\* Contexts that a run with contexts S takes care of: S itself, and every
\* context that is grouped with one of S, as the run gets a fresh snapshot.
TakenCare(S) ==
    S \cup {i \in Tasks : /\ GroupOf(i) # NoGroup
                          /\ info[i].kind = "HookRun"
                          /\ \E j \in S : info[j].hook = info[i].hook /\ GroupOf(j) = GroupOf(i)}

RunContexts == ToSet(Contents(ctxHeap, run.ctx))

\* Contexts that depend on this run: it has them or their group, and no other queued task has them.
LeftToRun ==
    {i \in TakenCare(RunContexts) : \A t \in ToSet(queue) \ {cur} : i \notin ToSet(Contexts(t))}

\* The binding says that the hook is not run with its Synchronization.
NotExecuted(i) == info[i].sync /\ ~ExecuteOnSynchronization(i)

\* Mutant: only the first monitor is unlocked.
UnlockFirstMonitor ==
    unlocked' = IF run.sync THEN unlocked \cup {Contents(monHeap, run.mon)[1]} ELSE unlocked

\* UnlockKubernetesEventsFor each monitor id after a successful Synchronization.
UnlockMonitors ==
    unlocked' = IF run.sync THEN unlocked \cup ToSet(Contents(monHeap, run.mon)) ELSE unlocked

\* taskHandleHookRun: the hook runs with the contexts; an error of a task that
\* is allowed to fail counts as success.
RunHook ==
    /\ pc["worker"] = "run"
    /\ \/ /\ Return("Success")
          /\ done' = done \cup TakenCare(RunContexts)
          /\ UnlockMonitors
       \/ /\ AllowFailure(cur)
          /\ Return("Success")
          /\ done' = done \cup {i \in LeftToRun : AllowFailure(i)}
          /\ UnlockMonitors
       \/ /\ ~AllowFailure(cur)
          /\ Return("Fail")
          /\ UNCHANGED histVars
    /\ UNCHANGED <<taskVars, queueVars, countVars, eventVars, cancelled, status,
                   cur, comp>>

\* taskHandleHookRun with executeHookOnSynchronization: false: nothing is run.
SkipHook ==
    /\ pc["worker"] = "skip"
    /\ Return("Success")
    /\ done' = done \cup {i \in LeftToRun : NotExecuted(i)}
    /\ UnlockMonitors
    /\ UNCHANGED <<taskVars, queueVars, countVars, eventVars, cancelled,
                   status, cur, comp>>

\* Mutant: the panic ends the worker goroutine.
HandlerPanicStops ==
    /\ pc["worker"] = "run"
    /\ StopWorker
    /\ UNCHANGED <<taskVars, queueVars, countVars, histVars, eventVars, cancelled, cur, run, comp>>

\* Mutant: the recovered task keeps its processing flag.
HandlerPanicKeepsFlag ==
    /\ pc["worker"] = "run"
    /\ status' = "Idle"
    /\ pc' = [pc EXCEPT !["worker"] = "wait"]
    /\ cur' = 0
    /\ run' = NoRun
    /\ UNCHANGED <<taskVars, queueVars, countVars, histVars, eventVars, cancelled, comp>>

\* processOne: a panic of the handler is recovered.
HandlerPanic ==
    /\ pc["worker"] = "run"
    /\ processing' = processing \ {cur}
    /\ status' = "Idle"
    /\ pc' = [pc EXCEPT !["worker"] = "wait"]
    /\ cur' = 0
    /\ run' = NoRun
    /\ UNCHANGED <<taskVars, queue, countVars, histVars, eventVars, cancelled, comp>>

\* Head tasks of a result: a Synchronization task per binding of the hook.
HeadTasks ==
    LET own == {k \in DOMAIN Bindings : Bindings[k].hook = info[cur].hook}
        order == OnlyAt([k \in DOMAIN Bindings |-> k], own)
    IN IF info[cur].kind = "Enable"
       THEN [n \in 1..Len(order) |-> HookRunTask(order[n], TRUE)]
       ELSE <<>>

\* Mutant: a failed task goes to the tail.
ResultQueueRotates ==
    IF run.res = "Success" THEN NewIds(HeadTasks) \o Only(queue, Tasks \ {cur})
    ELSE Only(queue, Tasks \ {cur}) \o <<cur>>

\* ProcessResult: on success the task is removed and the head tasks are added.
ResultQueue ==
    IF run.res = "Success" THEN NewIds(HeadTasks) \o Only(queue, Tasks \ {cur}) ELSE queue

\* processOne: check the context, then apply the result.
ApplyResult ==
    /\ pc["worker"] = "result"
    /\ \/ /\ cancelled
          /\ StopWorker
          /\ UNCHANGED <<info, meta, queueVars>>
       \/ /\ ~cancelled
          /\ queue' = ResultQueue
          /\ \/ run.res = "Success" /\ Create(HeadTasks) /\ status' = "Idle"
             \/ run.res = "Fail" /\ UNCHANGED <<info, meta, status>>
             \/ run.res = "Repeat" /\ UNCHANGED <<info, meta>> /\ status' = "RepeatTask"
          /\ processing' = processing \ {cur}
          /\ pc' = [pc EXCEPT !["worker"] = "wait"]
    /\ cur' = 0
    /\ run' = NoRun
    /\ UNCHANGED <<heapVars, countVars, histVars, eventVars, cancelled, comp>>

\* TaskQueueSet.Stop or Shutdown.
Stop ==
    /\ ~cancelled
    /\ cancelled' = TRUE
    /\ UNCHANGED <<taskVars, queueVars, countVars, histVars, eventVars, status, pc,
                   cur, run, comp>>

-----------------------------------------------------------------------------
\* bootstrapMainQueue has added the Enable tasks with AddLast.
Init ==
    /\ info = [k \in 1..Len(Startup) |-> EnableTask(Startup[k])]
    /\ meta = [k \in 1..Len(Startup) |-> NewMeta(k, EnableTask(Startup[k]))]
    /\ ctxHeap = <<>> /\ monHeap = <<>>
    /\ ctxPool = {} /\ monPool = {}
    /\ queue = [k \in 1..Len(Startup) |-> k]
    /\ processing = {}
    /\ counter = [h \in Hooks |-> Cardinality({k \in DOMAIN Startup : Startup[k] = h})]
    /\ reachedCap = {h \in Hooks : counter[h] >= Threshold}
    /\ events = 0
    /\ added = 0
    /\ cancelled = FALSE
    /\ status = "Idle"
    /\ pc = [worker |-> "wait", events |-> "idle"]
    /\ cur = 0
    /\ run = NoRun
    /\ comp = [a \in Actors |-> Idle]
    /\ done = {} /\ unlocked = {}

Compact(a) ==
    \/ IsAnyCapReached(a) \/ GetReachedCap(a) \/ CompactionLength(a) \/ CompactionScan(a)
    \/ MergeStart(a) \/ MergeElement(a) \/ MergeFinish(a) \/ MergeEnd(a)

EventsStep == AddLastCount \/ AddLastCheck \/ Compact("events")

WorkerStep ==
    \/ WaitForTask \/ GetFirst \/ Compact("worker") \/ MarkProcessing
    \/ HandleEnableKubernetesBindings \/ HandleHookRun \/ CombineCollect \/ CombineDelete
    \/ RunHook \/ SkipHook \/ HandlerPanic \/ ApplyResult

Next == AddLast \/ EventsStep \/ WorkerStep \/ Stop

Spec == Init /\ [][Next]_vars

(* Fairness: both goroutines keep running; a hook that is run again and    *)
(* again succeeds at last, so do the creation of monitors and the wait for *)
(* the rate limiter.                                                       *)
HookSucceeds == RunHook /\ run'.res = "Success"
EnableSucceeds == HandleEnableKubernetesBindings /\ run'.res = "Success"
RateLimiterAdmits == HandleHookRun /\ run'.res # "Repeat"

Fairness ==
    /\ WF_vars(EventsStep)
    /\ WF_vars(WorkerStep)
    /\ SF_vars(HookSucceeds)
    /\ SF_vars(EnableSucceeds)
    /\ SF_vars(RateLimiterAdmits)

FairSpec == Spec /\ Fairness

-----------------------------------------------------------------------------
(* Properties.                                                             *)

Slice == [arr : Nat, len : Nat, val : Seq(Nat)]

\* Type invariant of the queue, the counter, the metadata and the locals.
TypeOK ==
    /\ info \in Seq([kind : {"HookRun", "Enable"}, hook : Hooks,
                     bind : 0..Len(Bindings), sync : BOOLEAN])
    /\ meta \in Seq([ctx : Slice, mon : Slice])
    /\ Len(meta) = Len(info)
    /\ ctxHeap \in Seq(Seq(Nat)) /\ monHeap \in Seq(Seq(Nat))
    /\ ctxPool \subseteq DOMAIN ctxHeap /\ monPool \subseteq DOMAIN monHeap
    /\ queue \in Seq(Tasks)
    /\ processing \subseteq Tasks
    /\ counter \in [Hooks -> Nat]
    /\ reachedCap \subseteq Hooks
    /\ events \in 0..MaxEvents
    /\ added \in Tasks \cup {0}
    /\ cancelled \in BOOLEAN
    /\ status \in {"Idle", "RunningTask", "RepeatTask", "Stop"}
    /\ pc \in [Actors -> {"idle", "count", "check", "cap", "get", "size", "scan", "merge", "wait",
                          "first", "mark", "handle", "combine", "delete", "run", "skip",
                          "result", "stopped"}]
    /\ cur \in Tasks \cup {0}
    /\ run \in [ctx : Slice, mon : Slice, others : SUBSET Tasks, sync : BOOLEAN,
                res : {"none", "Success", "Fail", "Repeat"}]
    /\ comp \in [Actors -> [live : BOOLEAN, ids : SUBSET Hooks, groups : SUBSET Seq(Tasks),
                            grp : Seq(Tasks), target : Tasks \cup {0},
                            ctx : Slice, mon : Slice]]
    /\ done \subseteq Tasks /\ unlocked \subseteq Tasks

\* Contexts that some task in the queue, or a merge into such a task, still carries.
Pending ==
    LET queued == {t \in Tasks : Contains(queue, t)}
        inMerge == {a \in Actors : comp[a].target \in queued}
    IN UNION ({ToSet(Contexts(t)) : t \in queued}
              \cup {ToSet(Contents(ctxHeap, comp[a].ctx)) : a \in inMerge})

\* No binding context disappears: each one a task was created with is in the
\* queue, in a merge, or was handed to a run of its hook that succeeded, or
\* failed where the context's own binding says allowFailure: true (a grouped
\* context may be represented by another context of its group).  Compaction,
\* combination, retries, panics and results of the worker all move contexts.
NoContextLost ==
    \A i \in Tasks : info[i].kind = "HookRun" => i \in done \cup TakenCare(Pending)

(* What the code does not exclude and NoContextLost does not survive, each *)
(* by itself.                                                              *)

\* AddLast does not compact beside the worker.
WorkerCompactsAlone == pc["events"] # "merge"

\* A merge writes to no array of the pool that another queued task still uses.
ArraysHaveOneOwner ==
    \A a \in Actors : comp[a].target # 0 =>
        \A t \in ToSet(queue) \ {comp[a].target} : meta[t].ctx.arr # comp[a].ctx.arr

\* A run that may fail is not left with contexts of bindings that may not.
FailuresAgree ==
    pc["worker"] = "run" /\ AllowFailure(cur) => \A i \in LeftToRun : AllowFailure(i)

\* A Synchronization that is skipped is not left with contexts of events, or of
\* bindings that execute it.
SkipsAgree ==
    pc["worker"] = "skip" => \A i \in LeftToRun : NotExecuted(i)

\* None of these happens: a queue of one hook that is never longer than the
\* threshold is compacted by the worker only, into arrays that no other queued
\* task uses, and its bindings agree on failures and Synchronizations.
Undisturbed ==
    WorkerCompactsAlone /\ ArraysHaveOneOwner /\ FailuresAgree /\ SkipsAgree

\* A context is only lost where one of the four happens: whatever else merges,
\* combinations, retries, panics, results and cancellation do, in whatever order
\* AddLast and the worker get there, they move contexts and drop none.
LossNeedsDisturbance == []Undisturbed => []NoContextLost

\* A task only carries contexts of its own hook, so no hook is run with the
\* contexts of another one (pooled slices are reused across hooks).  The code
\* does not keep it: compaction stores a slice and hands it back to the pool.
OwnContexts ==
    \A t \in Tasks : Contains(queue, t) =>
        \A k \in 1..Len(Contexts(t)) : info[Contexts(t)[k]].hook = info[t].hook

\* A hook gets its contexts in the order in which AddLast got them, whatever
\* is merged, combined, retried or pushed to the head: at a run with an
\* ungrouped context, all the earlier ungrouped ones of the hook are done, or
\* come before it in the same run (of grouped ones no order is promised).
HandedOverInOrder ==
    LET cs == Contents(ctxHeap, run.ctx) IN
    pc["worker"] = "run" =>
        \A k \in 1..Len(cs) : (GroupOf(cs[k]) = NoGroup /\ ~info[cs[k]].sync) =>
            \A i \in 1..(cs[k] - 1) :
                (/\ info[i].kind = "HookRun" /\ ~info[i].sync
                 /\ GroupOf(i) = NoGroup /\ info[i].hook = info[cs[k]].hook) =>
                    i \in done \cup TakenCare({cs[l] : l \in 1..(k - 1)})

\* The processing flag does not outlive processOne: a flag left behind would
\* keep the task out of every later merge.
ProcessingFlagReleased ==
    pc["worker"] \in {"wait", "first", "cap", "get", "size", "scan", "merge", "mark"} =>
        processing = {}

\* A Synchronization context that was handed over has its monitor unlocked:
\* otherwise no event of that monitor is ever reported.
SynchronizedIsUnlocked ==
    \A i \in done : info[i].sync => i \in unlocked

\* The worker stops only because the queue is told to stop.  The code does not
\* keep it: a compaction may empty the queue between Length and GetFirst.
StopsOnlyOnCancel == pc["worker"] = "stopped" => cancelled

\* A context that was added is handed over unless the queue is stopped.
EventuallyHandedOver ==
    \A i \in 1..(MaxEvents + Len(Startup) * (1 + Len(Bindings))) :
        (i \in Tasks /\ info[i].kind = "HookRun") ~> (cancelled \/ i \in done)

\* A stopped queue reaches the Stop status, for which TaskQueueSet.Shutdown polls.
StopReachesStatus == cancelled ~> status = "Stop"
============================================================================
