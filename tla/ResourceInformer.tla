-------------------------- MODULE ResourceInformer --------------------------
(***************************************************************************)
(* A resourceInformer of a monitor (pkg/kube_events_manager) from its      *)
(* creation to the replay of the events that were buffered during the      *)
(* Synchronization of the hook.                                            *)
(*                                                                         *)
(* Three goroutines of the program take part: the queue worker, which      *)
(* creates the monitor, reads the snapshot for the Synchronization run and *)
(* unlocks the events after it; the listener of the client-go shared       *)
(* informer, which calls handleWatchEvent for one notification at a time;  *)
(* and ManagerEventsHandler, which receives from KubeEventCh.  The cluster *)
(* and the shared informer (its indexer and the queue of notifications of  *)
(* the handler) are external.                                              *)
(*                                                                         *)
(* The state of an object is the checksum of its filter result, or Absent. *)
(***************************************************************************)
EXTENDS Integers, Sequences, FiniteSets, SequencesExt

CONSTANTS
    Objects,      \* names of objects that match the monitor
    Checksums,    \* possible states of an object
    FilterFails,  \* states on which the filter fails
    Absent,       \* the object does not exist
    EventTypes,   \* MonitorConfig.EventTypes
    SharedBefore, \* another consumer runs the shared informer already
    SideReaders,  \* other readers of the snapshot: debug dumps, runs of other bindings
    MaxChanges,   \* bound: number of changes in the cluster
    MaxNotif      \* bound: notifications that wait for the handler

WatchEventType == {"Added", "Modified", "Deleted"}
Capacity == 1  \* of KubeEventCh

ASSUME ObjectsAssumption == IsFiniteSet(Objects)
ASSUME StatesAssumption == Absent \notin Checksums /\ FilterFails \subseteq Checksums
ASSUME EventTypesAssumption == EventTypes \subseteq WatchEventType
ASSUME FlagsAssumption == SharedBefore \in BOOLEAN /\ SideReaders \in BOOLEAN
ASSUME InformerBoundsAssumption == MaxChanges \in Nat /\ MaxNotif \in Nat

VARIABLES
    cluster,        \* objects in the cluster
    changes,        \* number of changes so far
    store,          \* indexer of the shared informer
    notif,          \* notifications for this handler, oldest first
    cachedObjects,  \* the cache of the informer
    eventCbEnabled, \* the flag that enableKubeEventCb sets
    eventBuf,       \* events saved until then
    handler,        \* locals of handleWatchEvent: control point and event
    worker,         \* control point of the queue worker
    replay,         \* events enableKubeEventCb has still to send
    ch,             \* KubeEventCh
    told,           \* history: what the hook knows of each object
    missed,         \* history: objects deleted between the two lists
    exposed         \* history: objects with an event saved between the two halves of
                    \* getCachedObjects or after the replay, or dropped by a side reader

clusterVars == <<cluster, changes>>
sharedVars == <<store, notif>>
bufVars == <<eventCbEnabled, eventBuf, replay>>
vars == <<clusterVars, sharedVars, bufVars, cachedObjects, handler, worker, ch, told,
          missed, exposed>>

States == Checksums \cup {Absent}
Notification == [type : WatchEventType, obj : Objects, val : Checksums]
KubeEvent == [obj : Objects, val : States]

Idle == [pc |-> "idle", ev |-> <<>>]

\* eventBufLock is held over the whole replay; the other critical sections are one step.
LockFree == worker # "replay"
Listening == worker \notin {"new", "listed"}

-----------------------------------------------------------------------------
(* The cluster and the shared informer.                                    *)

ClusterChange ==
    /\ changes < MaxChanges
    /\ \E o \in Objects, v \in States :
        /\ v # cluster[o]
        /\ cluster' = [cluster EXCEPT ![o] = v]
    /\ changes' = changes + 1
    /\ UNCHANGED <<sharedVars, bufVars, cachedObjects, handler, worker, ch, told, missed, exposed>>

Notify(type, o, v) ==
    IF Listening THEN Append(notif, [type |-> type, obj |-> o, val |-> v]) ELSE notif

\* The indexer catches up with the cluster on one object and distributes the delta.
\* A Deleted notification carries the last known state.
Deliver ==
    /\ SharedBefore \/ Listening
    /\ Len(notif) < MaxNotif
    /\ \E o \in Objects :
        /\ store[o] # cluster[o]
        /\ store' = [store EXCEPT ![o] = cluster[o]]
        /\ notif' = CASE cluster[o] = Absent -> Notify("Deleted", o, store[o])
                      [] store[o] = Absent -> Notify("Added", o, cluster[o])
                      [] OTHER -> Notify("Modified", o, cluster[o])
    /\ UNCHANGED <<clusterVars, bufVars, cachedObjects, handler, worker, ch, told, missed, exposed>>

\* Periodic resync of the shared informer.
Resync ==
    /\ Listening
    /\ Len(notif) < MaxNotif
    /\ \E o \in Objects :
        /\ store[o] # Absent
        /\ notif' = Notify("Modified", o, store[o])
    /\ UNCHANGED <<clusterVars, store, bufVars, cachedObjects, handler, worker, ch, told, missed, exposed>>

-----------------------------------------------------------------------------
(* Creation and start.                                                     *)

\* loadExistedObjects: list the cluster into the cache; a filter error fails
\* the creation, which the worker repeats.
LoadExistedObjects ==
    /\ worker = "new"
    /\ \A o \in Objects : cluster[o] \notin FilterFails
    /\ cachedObjects' = cluster
    /\ worker' = "listed"
    /\ UNCHANGED <<clusterVars, sharedVars, bufVars, handler, ch, told, missed, exposed>>

\* The sequences in which each element of S occurs once.
Orders(S) == {s \in [1..Cardinality(S) -> S] : \A e \in S : \E k \in DOMAIN s : s[k] = e}

\* start -> FactoryStore.Start: the handler is registered and gets an Added
\* notification for each object of the indexer; a new shared informer lists
\* the cluster at this point.
Start ==
    /\ worker = "listed"
    /\ store' = IF SharedBefore THEN store ELSE cluster
    /\ \E order \in Orders({o \in Objects : store'[o] # Absent}) :
        notif' = [k \in DOMAIN order |->
                    [type |-> "Added", obj |-> order[k], val |-> store'[order[k]]]]
    /\ missed' = {o \in Objects : cachedObjects[o] # Absent /\ store'[o] = Absent}
    /\ worker' = "started"
    /\ UNCHANGED <<clusterVars, bufVars, cachedObjects, handler, ch, told, exposed>>

-----------------------------------------------------------------------------
(* handleWatchEvent: OnAdd, OnUpdate, OnDelete.                            *)

After(n) == IF n.type = "Deleted" THEN Absent ELSE n.val

\* Mutant: a failed filter also drops the deletion.
FilterDropsAll(n) == n.val \in FilterFails

\* A filter error drops the notification, except that a deleted object leaves the cache.
FilterDrops(n) ==
    /\ n.val \in FilterFails
    /\ n.type # "Deleted" \/ cachedObjects[n.obj] = Absent

shouldFireEvent(type) == type \in EventTypes

\* An Added or Modified object with the checksum of the cached one is not fired.
Fires(n) ==
    /\ shouldFireEvent(n.type)
    /\ n.type # "Deleted" => cachedObjects[n.obj] # n.val

\* Filter the object and update the cache.
HandleWatchEvent ==
    LET n == Head(notif) IN
    /\ handler.pc = "idle"
    /\ notif # <<>>
    /\ notif' = Tail(notif)
    /\ \/ FilterDrops(n) /\ UNCHANGED <<cachedObjects, handler>>
       \/ /\ ~FilterDrops(n)
          /\ cachedObjects' = [cachedObjects EXCEPT ![n.obj] = After(n)]
          /\ handler' = IF Fires(n) THEN [pc |-> "flag", ev |-> [obj |-> n.obj, val |-> After(n)]]
                        ELSE Idle
    /\ UNCHANGED <<clusterVars, store, bufVars, worker, ch, told, missed, exposed>>

\* Read eventCbEnabled under eventBufLock.
ReadFlag ==
    /\ handler.pc = "flag"
    /\ LockFree
    /\ handler' = [handler EXCEPT !.pc = IF eventCbEnabled THEN "send" ELSE "save"]
    /\ UNCHANGED <<clusterVars, sharedVars, bufVars, cachedObjects, worker, ch, told, missed, exposed>>

\* Mutant: the channel never blocks.
SendWithoutBlocking ==
    /\ handler.pc = "send"
    /\ ch' = Append(ch, handler.ev)
    /\ handler' = Idle
    /\ UNCHANGED <<clusterVars, sharedVars, bufVars, cachedObjects, worker, told, missed, exposed>>

\* putEvent blocks while the channel is full.
SendEvent ==
    /\ handler.pc = "send"
    /\ Len(ch) < Capacity
    /\ ch' = Append(ch, handler.ev)
    /\ handler' = Idle
    /\ UNCHANGED <<clusterVars, sharedVars, bufVars, cachedObjects, worker, told, missed, exposed>>

\* Save the event in eventBuf, whatever the flag is by now.
BufferEvent ==
    /\ handler.pc = "save"
    /\ LockFree
    /\ eventBuf' = Append(eventBuf, handler.ev)
    /\ handler' = Idle
    /\ exposed' = IF eventCbEnabled \/ worker = "reset" THEN exposed \cup {handler.ev.obj} ELSE exposed
    /\ UNCHANGED <<clusterVars, sharedVars, eventCbEnabled, replay, cachedObjects, worker, ch,
                   told, missed>>

-----------------------------------------------------------------------------
(* The Synchronization run of the worker.                                  *)

\* getCachedObjects, first half: the cache is copied under cacheLock.
ReadCache ==
    /\ worker = "started"
    /\ told' = cachedObjects
    /\ worker' = "reset"
    /\ UNCHANGED <<clusterVars, sharedVars, bufVars, cachedObjects, handler, ch, missed, exposed>>

\* getCachedObjects, second half: saved events are covered by the copy, drop them.
ResetEventBuf ==
    /\ worker = "reset"
    /\ eventBuf' = IF eventCbEnabled THEN eventBuf ELSE <<>>
    /\ worker' = "hook"
    /\ UNCHANGED <<clusterVars, sharedVars, eventCbEnabled, replay, cachedObjects, handler, ch,
                   told, missed, exposed>>

\* A failed Synchronization is run again, with a new snapshot.
HookFails ==
    /\ worker = "hook"
    /\ worker' = "started"
    /\ UNCHANGED <<clusterVars, sharedVars, bufVars, cachedObjects, handler, ch, told, missed, exposed>>

HookSucceeds ==
    /\ worker = "hook"
    /\ worker' = "unlock"
    /\ UNCHANGED <<clusterVars, sharedVars, bufVars, cachedObjects, handler, ch, told, missed, exposed>>

\* getCachedObjects of another reader; its copy is not what this hook is told.
SideRead ==
    /\ SideReaders
    /\ worker \notin {"new", "listed"}
    /\ LockFree
    /\ ~eventCbEnabled
    /\ eventBuf # <<>>
    /\ eventBuf' = <<>>
    /\ exposed' = exposed \cup {eventBuf[k].obj : k \in DOMAIN eventBuf}
    /\ UNCHANGED <<clusterVars, sharedVars, eventCbEnabled, replay, cachedObjects, handler, worker,
                   ch, told, missed>>

\* Mutant: the flag is set and the buffer is dropped.
EnableWithoutReplay ==
    /\ worker = "unlock"
    /\ eventCbEnabled' = TRUE
    /\ replay' = <<>>
    /\ eventBuf' = <<>>
    /\ worker' = "replay"
    /\ UNCHANGED <<clusterVars, sharedVars, cachedObjects, handler, ch, told, missed, exposed>>

\* Mutant: the buffer is not replaced by nil after the replay.
EnableKeepsBuffer ==
    /\ worker = "unlock"
    /\ eventCbEnabled' = TRUE
    /\ replay' = eventBuf
    /\ worker' = "replay"
    /\ UNCHANGED <<clusterVars, sharedVars, eventBuf, cachedObjects, handler, ch, told, missed, exposed>>

\* enableKubeEventCb: take eventBufLock, set the flag, start the replay.
EnableKubeEventCb ==
    /\ worker = "unlock"
    /\ eventCbEnabled' = TRUE
    /\ replay' = eventBuf
    /\ eventBuf' = <<>>
    /\ worker' = "replay"
    /\ UNCHANGED <<clusterVars, sharedVars, cachedObjects, handler, ch, told, missed, exposed>>

ReplayEvent ==
    /\ worker = "replay"
    /\ replay # <<>>
    /\ Len(ch) < Capacity
    /\ ch' = Append(ch, Head(replay))
    /\ replay' = Tail(replay)
    /\ UNCHANGED <<clusterVars, sharedVars, eventCbEnabled, eventBuf, cachedObjects, handler,
                   worker, told, missed, exposed>>

\* Mutant: the deferred unlock is missing.
ReplayEndKeepsLock ==
    /\ worker = "replay"
    /\ replay = <<>>
    /\ UNCHANGED <<clusterVars, sharedVars, bufVars, cachedObjects, handler, worker, ch, told, missed, exposed>>

\* enableKubeEventCb returns and releases eventBufLock.
ReplayEnd ==
    /\ worker = "replay"
    /\ replay = <<>>
    /\ worker' = "done"
    /\ UNCHANGED <<clusterVars, sharedVars, bufVars, cachedObjects, handler, ch, told, missed, exposed>>

\* ManagerEventsHandler receives an event and a task for the hook is queued.
Receive ==
    /\ ch # <<>>
    /\ told' = [told EXCEPT ![Head(ch).obj] = Head(ch).val]
    /\ ch' = Tail(ch)
    /\ UNCHANGED <<clusterVars, sharedVars, bufVars, cachedObjects, handler, worker, missed, exposed>>

-----------------------------------------------------------------------------
Init ==
    /\ cluster \in [Objects -> States]
    /\ changes = 0
    /\ store = IF SharedBefore THEN cluster ELSE [o \in Objects |-> Absent]
    /\ notif = <<>>
    /\ cachedObjects = [o \in Objects |-> Absent]
    /\ eventCbEnabled = FALSE
    /\ eventBuf = <<>>
    /\ handler = Idle
    /\ worker = "new"
    /\ replay = <<>>
    /\ ch = <<>>
    /\ told = [o \in Objects |-> Absent]
    /\ missed = {}
    /\ exposed = {}

HandlerStep == HandleWatchEvent \/ ReadFlag \/ SendEvent \/ BufferEvent

WorkerStep ==
    \/ LoadExistedObjects \/ Start \/ ReadCache \/ ResetEventBuf \/ HookFails \/ HookSucceeds
    \/ EnableKubeEventCb \/ ReplayEvent \/ ReplayEnd

Next == ClusterChange \/ Deliver \/ Resync \/ HandlerStep \/ WorkerStep \/ SideRead \/ Receive

Spec == Init /\ [][Next]_vars

(* Fairness: the goroutines run, the watch delivers, the events handler    *)
(* receives, and a hook that is run again and again succeeds at last.      *)
Fairness ==
    /\ WF_vars(HandlerStep)
    /\ WF_vars(WorkerStep)
    /\ SF_vars(HookSucceeds)
    /\ WF_vars(Deliver)
    /\ WF_vars(Receive)

FairSpec == Spec /\ Fairness

-----------------------------------------------------------------------------
(* Properties.                                                             *)

\* Type invariant of the cache, the buffer, the channel and the locals.
TypeOK ==
    /\ cluster \in [Objects -> States]
    /\ changes \in 0..MaxChanges
    /\ store \in [Objects -> States]
    /\ notif \in Seq(Notification)
    /\ cachedObjects \in [Objects -> States]
    /\ eventCbEnabled \in BOOLEAN
    /\ eventBuf \in Seq(KubeEvent)
    /\ \/ handler = Idle
       \/ handler \in [pc : {"flag", "send", "save"}, ev : KubeEvent]
    /\ worker \in {"new", "listed", "started", "reset", "hook", "unlock", "replay", "done"}
    /\ replay \in Seq(KubeEvent)
    /\ ch \in Seq(KubeEvent) /\ Len(ch) <= Capacity
    /\ told \in [Objects -> States]
    /\ missed \subseteq Objects
    /\ exposed \subseteq Objects

\* The notification k is the latest one for its object.
IsLast(k) == \A l \in DOMAIN notif : l > k => notif[l].obj # notif[k].obj

Waiting(o) == \E k \in DOMAIN notif : notif[k].obj = o

\* The latest notification of an object carries what the indexer holds.
LastIsCurrent ==
    \A k \in DOMAIN notif : IsLast(k) => After(notif[k]) = store[notif[k].obj]

\* Once the handler has worked off the notifications of an object, the cache
\* agrees with the indexer: the first list, the replayed Added notifications,
\* resyncs and deletions never leave an older state behind.  Two exceptions
\* the code has: states the filter fails on, and objects that were deleted
\* between the list of loadExistedObjects and the list of the shared informer.
CacheFollowsStore ==
    Listening => \A o \in Objects :
        \/ Waiting(o)
        \/ cachedObjects[o] = store[o]
        \/ store[o] \in FilterFails
        \/ o \in missed /\ store[o] = Absent

\* Events on their way to the hook, oldest first.
OnTheWay ==
    ch \o replay \o (IF eventCbEnabled THEN <<>> ELSE eventBuf)
       \o (IF handler = Idle THEN <<>> ELSE <<handler.ev>>)

\* What the hook knows of o once these events have arrived.
Known(o) ==
    LET k == SelectLastInSeq(OnTheWay, LAMBDA e : e.obj = o)
    IN IF k = 0 THEN told[o] ELSE OnTheWay[k].val

Synchronizing == worker \in {"reset", "hook", "unlock", "replay", "done"}

\* Snapshot and events together tell the hook of every change (for a binding
\* with all event types): the Synchronization snapshot, then the replayed and
\* the live events in this order, end in the cached state of each object.  The
\* code does not keep it: LostOnlyInWindows says when.
NoEventLost == Synchronizing => \A o \in Objects : Known(o) = cachedObjects[o]

\* The same, except for objects whose event was dropped from the buffer by a
\* reader of the snapshot, or was saved after the buffer had been replayed:
\* these windows are the only ways to lose an event, and no event overtakes
\* another one.
LostOnlyInWindows ==
    Synchronizing => \A o \in Objects : Known(o) = cachedObjects[o] \/ o \in exposed

\* enableKubeEventCb leaves no event behind in the buffer.  The code does not
\* keep it: AtMostOneStranded is what holds.
NoneStranded == eventCbEnabled => eventBuf = <<>>

\* At most one event is left behind: the one whose handler had read the flag
\* before enableKubeEventCb set it.
AtMostOneStranded ==
    eventCbEnabled => Len(eventBuf) + (IF handler.pc = "save" THEN 1 ELSE 0) <= 1

\* When the cluster settles, the hook is told of the last state of each object
\* (blocked senders, the replay under the lock and failed runs included).
EventuallyTold ==
    <>[](\A o \in Objects : told[o] = cachedObjects[o] \/ o \in exposed)
=============================================================================
