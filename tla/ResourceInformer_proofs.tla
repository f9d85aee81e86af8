---------------------- MODULE ResourceInformer_proofs ----------------------
(***************************************************************************)
(* Proofs about ResourceInformer, for any finite set of objects, any       *)
(* states, filters, event types and bounds: the type invariant, that       *)
(* enableKubeEventCb leaves at most one event behind, that the cache       *)
(* follows the indexer of the shared informer, and, with all event types,  *)
(* that events are lost in the named windows only.                         *)
(*                                                                         *)
(* CacheFollowsStore says nothing while a notification of the object is    *)
(* waiting, so it is not inductive: the handler could work off a last      *)
(* notification that carries an old state.  It becomes inductive with      *)
(* LastIsCurrent (the last notification of an object carries the state of  *)
(* the indexer) and with the fact that nothing is notified before Start.   *)
(*                                                                         *)
(* LostOnlyInWindows speaks of all the places where an event may be.  The  *)
(* invariant follows it from one to the next: what is saved ends in the    *)
(* cached state, so a copy of the cache covers it (SavedAreFresh); between *)
(* the halves of getCachedObjects the copy is the cache, but for the event *)
(* under way (CopyIsFresh); what the hook knows, the channel, the rest of  *)
(* the replay and the event under way end in the cached state              *)
(* (EventsArrive).                                                         *)
(***************************************************************************)
EXTENDS ResourceInformer, FiniteSetTheorems, TLAPS

USE ObjectsAssumption, StatesAssumption, EventTypesAssumption, FlagsAssumption,
    InformerBoundsAssumption

-----------------------------------------------------------------------------
(* Type correctness.                                                       *)

\* The notifications of Start, one per object of the indexer, are a sequence.
LEMMA StartNotifications ==
    ASSUME NEW known \in [Objects -> States], NEW S,
           S = {o \in Objects : known[o] # Absent}, NEW order \in Orders(S)
    PROVE  [k \in DOMAIN order |-> [type |-> "Added", obj |-> order[k], val |-> known[order[k]]]]
             \in Seq(Notification)
<1>1. Cardinality(S) \in Nat
  BY FS_Subset, FS_CardinalityType
<1>2. order \in [1..Cardinality(S) -> S]
  BY DEF Orders
<1>3. \A k \in 1..Cardinality(S) :
        [type |-> "Added", obj |-> order[k], val |-> known[order[k]]] \in Notification
  BY <1>2 DEF Notification, States, WatchEventType
<1> QED
  BY <1>1, <1>2, <1>3

\* Every step preserves the type invariant.
LEMMA NextTypeOK == TypeOK /\ [Next]_vars => TypeOK'
<1> SUFFICES ASSUME TypeOK, [Next]_vars PROVE TypeOK'
  OBVIOUS
<1> USE DEF TypeOK, Idle, Capacity, clusterVars, sharedVars, bufVars
<1>1. CASE ClusterChange
  BY <1>1 DEF ClusterChange
<1>2. CASE Deliver
  <2>1. PICK o \in Objects :
          /\ store[o] # cluster[o]
          /\ store' = [store EXCEPT ![o] = cluster[o]]
          /\ notif' = CASE cluster[o] = Absent -> Notify("Deleted", o, store[o])
                        [] store[o] = Absent -> Notify("Added", o, cluster[o])
                        [] OTHER -> Notify("Modified", o, cluster[o])
    BY <1>2 DEF Deliver
  <2>2. ASSUME NEW t \in WatchEventType, NEW v \in Checksums PROVE Notify(t, o, v) \in Seq(Notification)
    <3>1. [type |-> t, obj |-> o, val |-> v] \in Notification
      BY DEF Notification
    <3> QED
      BY <3>1 DEF Notify
  <2>3. notif' \in Seq(Notification)
    BY <2>1, <2>2 DEF States, WatchEventType
  <2> QED
    BY <1>2, <2>1, <2>3 DEF Deliver
<1>3. CASE Resync
  <2>1. notif' \in Seq(Notification)
    BY <1>3 DEF Resync, Notify, Notification, States, WatchEventType
  <2> QED
    BY <1>3, <2>1 DEF Resync
<1>4. CASE LoadExistedObjects
  BY <1>4 DEF LoadExistedObjects
<1>5. CASE Start
  <2>1. store' \in [Objects -> States]
    BY <1>5 DEF Start
  <2>2. notif' \in Seq(Notification)
    <3>1. PICK order \in Orders({o \in Objects : store'[o] # Absent}) :
            notif' = [k \in DOMAIN order |->
                        [type |-> "Added", obj |-> order[k], val |-> store'[order[k]]]]
      BY <1>5 DEF Start
    <3> HIDE DEF TypeOK, Idle, Capacity, clusterVars, sharedVars, bufVars
    <3> QED
      BY <2>1, <3>1, StartNotifications
  <2> QED
    BY <1>5, <2>1, <2>2 DEF Start
<1>6. CASE HandleWatchEvent
  <2>1. Head(notif) \in Notification /\ notif' \in Seq(Notification)
    BY <1>6 DEF HandleWatchEvent
  <2>2. After(Head(notif)) \in States /\ Head(notif).obj \in Objects
    BY <2>1 DEF After, Notification, States
  <2>3. cachedObjects' \in [Objects -> States]
    BY <1>6, <2>2 DEF HandleWatchEvent
  <2>4. handler' = Idle \/ handler' \in [pc : {"flag", "send", "save"}, ev : KubeEvent]
    BY <1>6, <2>2 DEF HandleWatchEvent, KubeEvent
  <2> QED
    BY <1>6, <2>1, <2>3, <2>4 DEF HandleWatchEvent
<1>7. CASE ReadFlag
  <2>1. handler' \in [pc : {"flag", "send", "save"}, ev : KubeEvent]
    BY <1>7 DEF ReadFlag
  <2> QED
    BY <1>7, <2>1 DEF ReadFlag
<1>8. CASE SendEvent
  <2>1. handler.ev \in KubeEvent
    BY <1>8 DEF SendEvent
  <2>2. ch' \in Seq(KubeEvent) /\ Len(ch') <= 1
    BY <1>8, <2>1 DEF SendEvent
  <2> QED
    BY <1>8, <2>2 DEF SendEvent
<1>9. CASE BufferEvent
  <2>1. handler.ev \in KubeEvent
    BY <1>9 DEF BufferEvent
  <2>2. eventBuf' \in Seq(KubeEvent) /\ exposed' \subseteq Objects
    BY <1>9, <2>1 DEF BufferEvent, KubeEvent
  <2> QED
    BY <1>9, <2>2 DEF BufferEvent
<1>10. CASE ReadCache \/ ResetEventBuf
  <2>1. CASE ReadCache
    BY <2>1 DEF ReadCache
  <2>2. CASE ResetEventBuf
    <3>1. eventBuf' \in Seq(KubeEvent)
      BY <2>2 DEF ResetEventBuf
    <3> QED
      BY <2>2, <3>1 DEF ResetEventBuf
  <2> QED
    BY <1>10, <2>1, <2>2
<1>11. CASE HookFails \/ HookSucceeds
  BY <1>11 DEF HookFails, HookSucceeds
<1>12. CASE SideRead
  <2>1. exposed' \subseteq Objects
    <3>1. ASSUME NEW k \in DOMAIN eventBuf PROVE eventBuf[k].obj \in Objects
      <4>1. eventBuf[k] \in KubeEvent
        OBVIOUS
      <4> QED
        BY <4>1 DEF KubeEvent
    <3> QED
      BY <1>12, <3>1 DEF SideRead
  <2> QED
    BY <1>12, <2>1 DEF SideRead
<1>13. CASE EnableKubeEventCb
  BY <1>13 DEF EnableKubeEventCb
<1>14. CASE ReplayEvent
  BY <1>14 DEF ReplayEvent
<1>15. CASE ReplayEnd
  BY <1>15 DEF ReplayEnd
<1>16. CASE Receive
  <2>1. told' \in [Objects -> States]
    <3>1. Head(ch) \in KubeEvent
      BY <1>16 DEF Receive
    <3>2. Head(ch).obj \in Objects /\ Head(ch).val \in States
      BY <3>1 DEF KubeEvent
    <3> QED
      BY <1>16, <3>2 DEF Receive
  <2> QED
    BY <1>16, <2>1 DEF Receive
<1>17. CASE UNCHANGED vars
  BY <1>17 DEF vars
<1> QED
  BY <1>1, <1>2, <1>3, <1>4, <1>5, <1>6, <1>7, <1>8, <1>9, <1>10, <1>11, <1>12, <1>13, <1>14,
     <1>15, <1>16, <1>17 DEF Next, HandlerStep, WorkerStep

\* The cache, the buffer, the channel and the locals keep their types, and
\* KubeEventCh never holds more than its capacity.
THEOREM ResourceInformerTypeOK == Spec => []TypeOK
<1>1. Init => TypeOK
  <2> SUFFICES ASSUME Init PROVE TypeOK
    OBVIOUS
  <2>1. store \in [Objects -> States]
    BY DEF Init, States
  <2>2. /\ cachedObjects \in [Objects -> States] /\ told \in [Objects -> States]
        /\ cluster \in [Objects -> States]
    BY DEF Init, States
  <2>3. /\ notif \in Seq(Notification) /\ eventBuf \in Seq(KubeEvent) /\ replay \in Seq(KubeEvent)
        /\ ch \in Seq(KubeEvent) /\ Len(ch) <= Capacity
    BY DEF Init, Capacity
  <2>4. handler = Idle /\ missed = {} /\ exposed = {} /\ worker = "new"
    BY DEF Init
  <2>5. changes \in 0..MaxChanges
    BY DEF Init
  <2>6. eventCbEnabled \in BOOLEAN
    BY Zenon DEF Init
  <2> QED
    BY <2>1, <2>2, <2>3, <2>4, <2>5, <2>6 DEF TypeOK
<1> QED
  BY <1>1, NextTypeOK, PTL DEF Spec

-----------------------------------------------------------------------------
(* Events that enableKubeEventCb leaves behind.                            *)

\* The race of handleWatchEvent with enableKubeEventCb costs one event at
\* most: a handler that reads the flag later sends its event itself.
THEOREM StrandedBound == Spec => []AtMostOneStranded
<1>1. Init => AtMostOneStranded
  BY Zenon DEF Init, AtMostOneStranded
<1>2. TypeOK /\ AtMostOneStranded /\ [Next]_vars => AtMostOneStranded'
  <2> SUFFICES ASSUME TypeOK, AtMostOneStranded, [Next]_vars, eventCbEnabled'
               PROVE  Len(eventBuf') + (IF handler'.pc = "save" THEN 1 ELSE 0) <= 1
    BY DEF AtMostOneStranded
  <2> DEFINE Goal == Len(eventBuf') + (IF handler'.pc = "save" THEN 1 ELSE 0) <= 1
  <2> USE DEF TypeOK, AtMostOneStranded, Idle, bufVars
  <2>1. CASE HandleWatchEvent
    BY <2>1 DEF HandleWatchEvent
  <2>2. CASE ReadFlag
    BY <2>2 DEF ReadFlag
  <2>3. CASE SendEvent
    BY <2>3 DEF SendEvent
  <2>4. CASE BufferEvent
    BY <2>4 DEF BufferEvent
  <2>5. CASE ResetEventBuf
    BY <2>5 DEF ResetEventBuf
  <2>6. CASE SideRead
    BY <2>6 DEF SideRead
  <2>7. CASE EnableKubeEventCb
    BY <2>7 DEF EnableKubeEventCb
  <2>8. CASE UNCHANGED <<eventBuf, eventCbEnabled, handler>>
    BY <2>8
  <2> QED
    BY <2>1, <2>2, <2>3, <2>4, <2>5, <2>6, <2>7, <2>8 DEF Next, HandlerStep, WorkerStep, ClusterChange,
       Deliver, Resync, LoadExistedObjects, Start, ReadCache, HookFails, HookSucceeds, ReplayEvent,
       ReplayEnd, Receive, vars
<1> QED
  BY <1>1, <1>2, ResourceInformerTypeOK, PTL DEF Spec

-----------------------------------------------------------------------------
(* The cache follows the indexer.                                          *)

\* Nothing is notified before the handler is registered.
QuietBeforeStart == ~Listening => notif = <<>>

CacheInv == QuietBeforeStart /\ LastIsCurrent /\ CacheFollowsStore

\* What one object needs.
Follows(o) ==
    \/ Waiting(o)
    \/ cachedObjects[o] = store[o]
    \/ store[o] \in FilterFails
    \/ o \in missed /\ store[o] = Absent

\* A notification that carries the state of the indexer, put at the end.
LEMMA AppendNotification ==
    ASSUME TypeOK, TypeOK', LastIsCurrent, NEW n \in Notification, notif' = Append(notif, n),
           After(n) = store'[n.obj], \A o \in Objects : o # n.obj => store'[o] = store[o]
    PROVE  /\ LastIsCurrent'
           /\ Waiting(n.obj)'
           /\ \A o \in Objects : Waiting(o) => Waiting(o)'
<1>1. /\ DOMAIN notif = 1..Len(notif) /\ Len(notif) \in Nat
      /\ DOMAIN notif' = 1..(Len(notif) + 1)
      /\ \A k \in 1..Len(notif) : notif'[k] = notif[k]
      /\ notif'[Len(notif) + 1] = n
  BY DEF TypeOK
<1>2. \A k \in 1..Len(notif) : notif[k] \in Notification
  BY <1>1 DEF TypeOK
<1>3. ASSUME NEW k \in DOMAIN notif', IsLast(k)' PROVE After(notif'[k]) = store'[notif'[k].obj]
  <2>1. CASE k = Len(notif) + 1
    BY <1>1, <2>1
  <2>2. CASE k # Len(notif) + 1
    <3>1. k \in DOMAIN notif /\ notif'[k] = notif[k]
      BY <1>1, <2>2
    <3>a. \A l \in 1..(Len(notif) + 1) : l > k => notif'[l].obj # notif'[k].obj
      BY <1>1, <1>3 DEF IsLast
    <3>2. notif[k].obj # n.obj
      <4>1. Len(notif) + 1 \in 1..(Len(notif) + 1) /\ Len(notif) + 1 > k
        BY <1>1, <3>1
      <4>2. notif'[Len(notif) + 1].obj # notif'[k].obj
        BY <3>a, <4>1
      <4> QED
        BY <1>1, <3>1, <4>2
    <3>3. IsLast(k)
      <4>1. ASSUME NEW l \in DOMAIN notif, l > k PROVE notif[l].obj # notif[k].obj
        <5>1. l \in 1..(Len(notif) + 1) /\ notif'[l] = notif[l]
          BY <1>1
        <5>2. notif'[l].obj # notif'[k].obj
          BY <3>a, <4>1, <5>1
        <5> QED
          BY <3>1, <5>1, <5>2
      <4> QED
        BY <4>1 DEF IsLast
    <3>4. notif[k].obj \in Objects
      BY <1>1, <1>2, <3>1 DEF Notification
    <3> QED
      BY <3>1, <3>2, <3>3, <3>4 DEF LastIsCurrent
  <2> QED
    BY <2>1, <2>2
<1>4. Waiting(n.obj)'
  <2>1. Len(notif) + 1 \in DOMAIN notif' /\ notif'[Len(notif) + 1].obj = n.obj
    BY <1>1
  <2> QED
    BY <2>1 DEF Waiting
<1>5. ASSUME NEW o \in Objects, Waiting(o) PROVE Waiting(o)'
  <2>1. PICK k \in DOMAIN notif : notif[k].obj = o
    BY <1>5 DEF Waiting
  <2>2. k \in DOMAIN notif' /\ notif'[k].obj = o
    BY <1>1, <2>1
  <2> QED
    BY <2>2 DEF Waiting
<1>6. LastIsCurrent'
  BY <1>3 DEF LastIsCurrent, After
<1> QED
  BY <1>4, <1>5, <1>6

\* A notification taken from the front: the last one of its object carries the
\* state of the indexer.
LEMMA TakeNotification ==
    ASSUME TypeOK, LastIsCurrent, notif # <<>>, notif' = Tail(notif), store' = store,
           NEW n \in Notification, n = Head(notif)
    PROVE  /\ LastIsCurrent'
           /\ \A o \in Objects : Waiting(o) /\ o # n.obj => Waiting(o)'
           /\ Waiting(n.obj)' \/ After(n) = store[n.obj]
<1>1. /\ DOMAIN notif = 1..Len(notif) /\ Len(notif) \in Nat \ {0}
      /\ DOMAIN notif' = 1..(Len(notif) - 1)
      /\ \A k \in 1..(Len(notif) - 1) : notif'[k] = notif[k + 1]
      /\ notif[1] = n
  BY DEF TypeOK
<1>2. ASSUME NEW k \in DOMAIN notif', IsLast(k)' PROVE After(notif'[k]) = store'[notif'[k].obj]
  <2>1. k \in 1..(Len(notif) - 1) /\ k + 1 \in DOMAIN notif /\ notif'[k] = notif[k + 1]
    BY <1>1
  <2>2. ASSUME NEW l \in DOMAIN notif, l > k + 1 PROVE notif[l].obj # notif[k + 1].obj
    <3>1. l - 1 \in DOMAIN notif' /\ l - 1 > k /\ notif'[l - 1] = notif[(l - 1) + 1]
      BY <1>1, <2>1, <2>2
    <3>2. (l - 1) + 1 = l
      BY <1>1
    <3>3. notif'[l - 1].obj # notif'[k].obj
      BY <1>2, <3>1 DEF IsLast
    <3> QED
      BY <2>1, <3>1, <3>2, <3>3
  <2>3. IsLast(k + 1)
    BY <2>2 DEF IsLast
  <2> QED
    BY <2>1, <2>3 DEF LastIsCurrent
<1>3. LastIsCurrent'
  BY <1>2 DEF LastIsCurrent, After
<1>4. ASSUME NEW o \in Objects, Waiting(o), o # n.obj PROVE Waiting(o)'
  <2>1. PICK k \in DOMAIN notif : notif[k].obj = o
    BY <1>4 DEF Waiting
  <2>2. k # 1 /\ k - 1 \in DOMAIN notif' /\ notif'[k - 1] = notif[(k - 1) + 1] /\ (k - 1) + 1 = k
    BY <1>1, <1>4, <2>1
  <2>3. notif'[k - 1].obj = o
    BY <2>1, <2>2
  <2> QED
    BY <2>2, <2>3 DEF Waiting
<1>5. ASSUME ~Waiting(n.obj)' PROVE After(n) = store[n.obj]
  <2>1. ASSUME NEW l \in DOMAIN notif, l > 1 PROVE notif[l].obj # n.obj
    <3>1. l - 1 \in DOMAIN notif' /\ notif'[l - 1] = notif[(l - 1) + 1] /\ (l - 1) + 1 = l
      BY <1>1, <2>1
    <3>2. notif'[l - 1].obj # n.obj
      BY <1>5, <3>1 DEF Waiting
    <3> QED
      BY <3>1, <3>2
  <2>2. 1 \in DOMAIN notif /\ IsLast(1)
    BY <1>1, <2>1 DEF IsLast
  <2> QED
    BY <1>1, <2>2 DEF LastIsCurrent
<1> QED
  BY <1>3, <1>4, <1>5

\* Every step preserves the strengthened invariant.
LEMMA NextCacheInv == TypeOK /\ TypeOK' /\ CacheInv /\ [Next]_vars => CacheInv'
<1> SUFFICES ASSUME TypeOK, TypeOK', CacheInv, [Next]_vars PROVE CacheInv'
  OBVIOUS
<1>0. Listening => \A o \in Objects : Follows(o)
  BY DEF CacheInv, CacheFollowsStore, Follows
<1> USE DEF clusterVars, sharedVars, bufVars
<1>1. CASE Deliver
  <2>1. worker' = worker /\ cachedObjects' = cachedObjects /\ missed' = missed
    BY <1>1 DEF Deliver
  <2>2. PICK o \in Objects :
          /\ store[o] # cluster[o]
          /\ store' = [store EXCEPT ![o] = cluster[o]]
          /\ notif' = CASE cluster[o] = Absent -> Notify("Deleted", o, store[o])
                        [] store[o] = Absent -> Notify("Added", o, cluster[o])
                        [] OTHER -> Notify("Modified", o, cluster[o])
    BY <1>1 DEF Deliver
  <2>3. CASE ~Listening
    <3>1. notif' = notif /\ notif = <<>>
      BY <2>2, <2>3 DEF Notify, CacheInv, QuietBeforeStart
    <3> QED
      BY <2>1, <2>3, <3>1 DEF CacheInv, QuietBeforeStart, LastIsCurrent, CacheFollowsStore, Listening
  <2>4. CASE Listening
    <3>1. PICK n \in Notification :
            n.obj = o /\ notif' = Append(notif, n) /\ After(n) = cluster[o]
      <4>1. ASSUME NEW t \in WatchEventType, NEW v \in Checksums, notif' = Notify(t, o, v),
                   cluster[o] = IF t = "Deleted" THEN Absent ELSE v
            PROVE  \E n \in Notification :
                     n.obj = o /\ notif' = Append(notif, n) /\ After(n) = cluster[o]
        <5>1. [type |-> t, obj |-> o, val |-> v] \in Notification
          BY DEF Notification
        <5>2. notif' = Append(notif, [type |-> t, obj |-> o, val |-> v])
          BY <2>4, <4>1 DEF Notify
        <5>3. After([type |-> t, obj |-> o, val |-> v]) = cluster[o]
          BY <4>1 DEF After
        <5> QED
          BY <5>1, <5>2, <5>3
      <4>2. CASE cluster[o] = Absent
        BY <2>2, <4>1, <4>2 DEF TypeOK, States, WatchEventType
      <4>3. CASE cluster[o] # Absent /\ store[o] = Absent
        BY <2>2, <4>1, <4>3 DEF TypeOK, States, WatchEventType
      <4>4. CASE cluster[o] # Absent /\ store[o] # Absent
        BY <2>2, <4>1, <4>4 DEF TypeOK, States, WatchEventType
      <4> QED
        BY <4>2, <4>3, <4>4
    <3>2. store'[o] = cluster[o] /\ \A x \in Objects : x # o => store'[x] = store[x]
      BY <2>2 DEF TypeOK
    <3>3. /\ LastIsCurrent' /\ Waiting(o)'
          /\ \A x \in Objects : Waiting(x) => Waiting(x)'
      BY <3>1, <3>2, AppendNotification DEF CacheInv
    <3>4. \A x \in Objects : Follows(x)'
      BY <1>0, <2>1, <2>4, <3>2, <3>3 DEF Follows
    <3> QED
      BY <2>1, <2>4, <3>3, <3>4 DEF CacheInv, QuietBeforeStart, CacheFollowsStore, Follows, Listening
  <2> QED
    BY <2>3, <2>4
<1>2. CASE Resync
  <2>1. UNCHANGED <<worker, cachedObjects, missed, store>> /\ Listening
    BY <1>2 DEF Resync
  <2>2. PICK o \in Objects : store[o] # Absent /\ notif' = Notify("Modified", o, store[o])
    BY <1>2 DEF Resync
  <2>3. PICK n \in Notification : n = [type |-> "Modified", obj |-> o, val |-> store[o]]
    BY <2>2 DEF TypeOK, States, Notification, WatchEventType
  <2>4. notif' = Append(notif, n) /\ After(n) = store'[n.obj]
    BY <2>1, <2>2, <2>3 DEF Notify, After
  <2>5. LastIsCurrent' /\ \A x \in Objects : Waiting(x) => Waiting(x)'
    BY <2>1, <2>4, AppendNotification DEF CacheInv
  <2>6. \A x \in Objects : Follows(x)'
    BY <1>0, <2>1, <2>5 DEF Follows
  <2> QED
    BY <2>1, <2>5, <2>6 DEF CacheInv, QuietBeforeStart, CacheFollowsStore, Follows, Listening
<1>3. CASE Start
  <2>1. PICK order \in Orders({o \in Objects : store'[o] # Absent}) :
          notif' = [k \in DOMAIN order |->
                      [type |-> "Added", obj |-> order[k], val |-> store'[order[k]]]]
    BY <1>3 DEF Start
  <2>2. DOMAIN notif' = DOMAIN order /\ \A k \in DOMAIN order :
          notif'[k].obj = order[k] /\ After(notif'[k]) = store'[order[k]]
    BY <2>1 DEF After
  <2>3. LastIsCurrent'
    BY <2>2 DEF LastIsCurrent, After
  <2>4. ASSUME NEW o \in Objects PROVE Follows(o)'
    <3>1. CASE store'[o] # Absent
      <4>1. PICK k \in DOMAIN order : order[k] = o
        BY <3>1 DEF Orders
      <4> QED
        BY <2>2, <4>1 DEF Follows, Waiting
    <3>2. CASE store'[o] = Absent
      BY <1>3, <3>2 DEF Start, Follows
    <3> QED
      BY <3>1, <3>2
  <2>5. Listening'
    BY <1>3 DEF Start, Listening
  <2> QED
    BY <2>3, <2>4, <2>5 DEF CacheInv, QuietBeforeStart, CacheFollowsStore, Follows
<1>4. CASE HandleWatchEvent
  <2>1. UNCHANGED <<worker, missed, store>> /\ notif # <<>> /\ notif' = Tail(notif)
    BY <1>4 DEF HandleWatchEvent
  <2>2. PICK n \in Notification : n = Head(notif)
    BY <2>1 DEF TypeOK
  <2>3. Listening
    BY <2>1 DEF CacheInv, QuietBeforeStart
  <2>4. /\ LastIsCurrent'
        /\ \A o \in Objects : Waiting(o) /\ o # n.obj => Waiting(o)'
        /\ Waiting(n.obj)' \/ After(n) = store[n.obj]
    BY <2>1, <2>2, TakeNotification DEF CacheInv
  <2>5. ASSUME NEW o \in Objects PROVE Follows(o)'
    <3>1. CASE o # n.obj
      <4>1. cachedObjects'[o] = cachedObjects[o]
        BY <1>4, <2>2, <3>1 DEF HandleWatchEvent, TypeOK
      <4> QED
        BY <1>0, <2>1, <2>3, <2>4, <3>1, <4>1 DEF Follows
    <3>2. CASE o = n.obj /\ ~Waiting(o)'
      <4>1. After(n) = store'[o]
        BY <2>1, <2>4, <3>2
      <4>2. CASE FilterDrops(n)
        <5>1. cachedObjects' = cachedObjects
          BY <1>4, <2>2, <4>2 DEF HandleWatchEvent
        <5> QED
          BY <3>2, <4>1, <4>2, <5>1 DEF FilterDrops, After, Follows
      <4>3. CASE ~FilterDrops(n)
        BY <1>4, <2>2, <3>2, <4>1, <4>3 DEF HandleWatchEvent, TypeOK, Follows
      <4> QED
        BY <4>2, <4>3
    <3> QED
      BY <3>1, <3>2 DEF Follows
  <2> QED
    BY <2>1, <2>3, <2>4, <2>5 DEF CacheInv, QuietBeforeStart, CacheFollowsStore, Follows, Listening
<1>5. CASE LoadExistedObjects
  BY <1>5 DEF LoadExistedObjects, CacheInv, QuietBeforeStart, LastIsCurrent, IsLast,
     CacheFollowsStore, Listening
<1>6. CASE Listening' = Listening /\ UNCHANGED <<notif, store, cachedObjects, missed>>
  BY <1>6 DEF CacheInv, QuietBeforeStart, LastIsCurrent, IsLast, CacheFollowsStore, Waiting, After
<1> QED
  BY <1>1, <1>2, <1>3, <1>4, <1>5, <1>6 DEF Next, HandlerStep, WorkerStep, ClusterChange, ReadFlag,
     SendEvent, BufferEvent, ReadCache, ResetEventBuf, HookFails, HookSucceeds, SideRead,
     EnableKubeEventCb, ReplayEvent, ReplayEnd, Receive, Listening, vars

\* Once the notifications of an object are worked off, the snapshot holds the
\* state of the indexer, except for the two cases CacheFollowsStore names.
THEOREM CacheFollows == Spec => []CacheFollowsStore
<1>1. Init => CacheInv
  BY DEF Init, CacheInv, QuietBeforeStart, LastIsCurrent, CacheFollowsStore, Listening
<1>2. TypeOK /\ TypeOK' /\ CacheInv /\ [Next]_vars => CacheInv'
  BY NextCacheInv
<1>3. CacheInv => CacheFollowsStore
  BY DEF CacheInv
<1> QED
  BY <1>1, <1>2, <1>3, ResourceInformerTypeOK, PTL DEF Spec

-----------------------------------------------------------------------------
(* Events that are lost.                                                   *)

\* After the events s, somebody who knew b of the object o knows v.
Say(s, o, b, v) ==
    \/ v = b /\ \A k \in DOMAIN s : s[k].obj # o
    \/ \E k \in DOMAIN s : /\ s[k].obj = o /\ s[k].val = v
                           /\ \A l \in DOMAIN s : l > k => s[l].obj # o

\* The same of the event that handleWatchEvent is busy with.
Carries(o, b, v) == IF handler.pc # "idle" /\ handler.ev.obj = o THEN v = handler.ev.val ELSE v = b

\* The same of all events on their way: before the flag is set these are the saved ones.
Reaches(o, b, v) ==
    IF eventCbEnabled
    THEN \E w, x : Say(ch, o, b, w) /\ Say(replay, o, w, x) /\ Carries(o, x, v)
    ELSE \E w : Say(eventBuf, o, b, w) /\ Carries(o, w, v)

\* The channel and the replay belong to the time after the flag is set, and who sends read it
\* after the replay.
Phases ==
    /\ eventCbEnabled <=> worker \in {"replay", "done"}
    /\ ~eventCbEnabled => ch = <<>>
    /\ worker # "replay" => replay = <<>>
    /\ handler.pc = "send" => worker = "done"
    /\ ~Listening => eventBuf = <<>> /\ handler = Idle

\* What is saved ends in the cached state: the copy of the cache covers it.
SavedAreFresh ==
    ~eventCbEnabled => \A o \in Objects : Reaches(o, cachedObjects[o], cachedObjects[o])

\* Between the halves of getCachedObjects the hook knows the cache, but for events under way.
CopyIsFresh ==
    worker = "reset" => \A o \in Objects :
        \/ told[o] = cachedObjects[o]
        \/ o \in exposed
        \/ handler.pc # "idle" /\ handler.ev.obj = o

EventsArrive ==
    Synchronizing => \A o \in Objects :
        o \in exposed \/ Reaches(o, told[o], cachedObjects[o])

LossInv == Phases /\ SavedAreFresh /\ CopyIsFresh /\ EventsArrive

\* No events tell nothing.
LEMMA SayNothing == \A o, b, v : Say(<<>>, o, b, v) <=> v = b
<1>1. DOMAIN <<>> = {}
  OBVIOUS
<1> QED
  BY <1>1 DEF Say

\* What one more event tells.
LEMMA SayAppend ==
    ASSUME NEW s \in Seq(KubeEvent), NEW e \in KubeEvent, NEW o, NEW b, NEW v
    PROVE  Say(Append(s, e), o, b, v) <=> IF e.obj = o THEN v = e.val ELSE Say(s, o, b, v)
<1> DEFINE t == Append(s, e)
           n == Len(s)
<1>1. /\ n \in Nat /\ DOMAIN s = 1..n /\ DOMAIN t = 1..(n + 1) /\ t[n + 1] = e
      /\ \A k \in 1..n : t[k] = s[k]
  OBVIOUS
<1> HIDE DEF t, n
<1>2. \A k \in 1..(n + 1) : k \in 1..n \/ k = n + 1
  BY <1>1
<1>3. n + 1 \in 1..(n + 1) /\ \A k \in 1..n : k \in 1..(n + 1) /\ n + 1 > k
  BY <1>1
<1>4. CASE e.obj = o
  <2>1. Say(t, o, b, v) => v = e.val
    BY <1>1, <1>2, <1>3, <1>4 DEF Say
  <2>2. Say(t, o, b, e.val)
    <3>1. \A l \in 1..(n + 1) : ~(l > n + 1)
      BY <1>1
    <3> QED
      BY <1>1, <1>3, <1>4, <3>1 DEF Say
  <2> QED
    BY <1>4, <2>1, <2>2 DEF t
<1>5. CASE e.obj # o
  <2>1. ASSUME Say(t, o, b, v) PROVE Say(s, o, b, v)
    <3>1. CASE v = b /\ \A k \in DOMAIN t : t[k].obj # o
      BY <1>1, <1>3, <3>1 DEF Say
    <3>2. CASE \E k \in DOMAIN t : /\ t[k].obj = o /\ t[k].val = v
                                   /\ \A l \in DOMAIN t : l > k => t[l].obj # o
      <4>1. PICK k \in 1..(n + 1) : /\ t[k].obj = o /\ t[k].val = v
                                    /\ \A l \in 1..(n + 1) : l > k => t[l].obj # o
        BY <1>1, <3>2
      <4>2. k \in 1..n
        BY <1>1, <1>2, <1>5, <4>1
      <4>3. s[k].obj = o /\ s[k].val = v /\ \A l \in 1..n : l > k => s[l].obj # o
        BY <1>1, <1>3, <4>1, <4>2
      <4> QED
        BY <1>1, <4>2, <4>3 DEF Say
    <3> QED
      BY <2>1, <3>1, <3>2 DEF Say
  <2>2. ASSUME Say(s, o, b, v) PROVE Say(t, o, b, v)
    <3>1. CASE v = b /\ \A k \in DOMAIN s : s[k].obj # o
      BY <1>1, <1>2, <1>5, <3>1 DEF Say
    <3>2. CASE \E k \in DOMAIN s : /\ s[k].obj = o /\ s[k].val = v
                                   /\ \A l \in DOMAIN s : l > k => s[l].obj # o
      <4>1. PICK k \in 1..n : /\ s[k].obj = o /\ s[k].val = v
                              /\ \A l \in 1..n : l > k => s[l].obj # o
        BY <1>1, <3>2
      <4>2. t[k].obj = o /\ t[k].val = v /\ \A l \in 1..(n + 1) : l > k => t[l].obj # o
        BY <1>1, <1>2, <1>5, <4>1
      <4> QED
        BY <1>1, <1>3, <4>1, <4>2 DEF Say
    <3> QED
      BY <2>2, <3>1, <3>2 DEF Say
  <2> QED
    BY <1>5, <2>1, <2>2 DEF t
<1> QED
  BY <1>4, <1>5

\* Who has received the first event knows what it said.
LEMMA SayTail ==
    ASSUME NEW s \in Seq(KubeEvent), s # <<>>, NEW o, NEW b, NEW v, Say(s, o, b, v)
    PROVE  Say(Tail(s), o, IF Head(s).obj = o THEN Head(s).val ELSE b, v)
<1> DEFINE t == Tail(s)
           n == Len(s)
           a == IF Head(s).obj = o THEN Head(s).val ELSE b
<1>1. /\ n \in Nat /\ n >= 1 /\ DOMAIN s = 1..n /\ DOMAIN t = 1..(n - 1) /\ Head(s) = s[1]
      /\ \A k \in 1..(n - 1) : t[k] = s[k + 1] /\ k + 1 \in 1..n /\ k + 1 > 1
  OBVIOUS
<1> HIDE DEF t, n
<1>2. CASE v = b /\ \A k \in DOMAIN s : s[k].obj # o
  <2>0. v = b /\ \A k \in 1..n : s[k].obj # o
    BY <1>1, <1>2
  <2>1. 1 \in 1..n /\ \A k \in 1..(n - 1) : t[k].obj # o
    BY <1>1, <2>0
  <2>3. a = b
    BY <1>1, <2>0, <2>1
  <2> HIDE DEF a
  <2>2. Say(t, o, a, v)
    BY <1>1, <2>0, <2>1, <2>3 DEF Say
  <2> QED
    BY <2>2 DEF t, a
<1>3. CASE \E k \in DOMAIN s : /\ s[k].obj = o /\ s[k].val = v
                               /\ \A l \in DOMAIN s : l > k => s[l].obj # o
  <2>1. PICK k \in 1..n : /\ s[k].obj = o /\ s[k].val = v
                          /\ \A l \in 1..n : l > k => s[l].obj # o
    BY <1>1, <1>3
  <2>2. CASE k = 1
    <3>1. a = v /\ \A l \in 1..(n - 1) : t[l].obj # o
      BY <1>1, <2>1, <2>2
    <3> HIDE DEF a
    <3>2. Say(t, o, a, v)
      BY <1>1, <3>1 DEF Say
    <3> QED
      BY <3>2 DEF t, a
  <2>3. CASE k # 1
    <3> DEFINE j == k - 1
    <3>1. j \in 1..(n - 1) /\ j + 1 = k
      BY <1>1, <2>3
    <3>2. \A l \in 1..(n - 1) : l > j => l + 1 > k
      BY <1>1, <3>1
    <3> HIDE DEF j, a
    <3>3. t[j].obj = o /\ t[j].val = v /\ \A l \in 1..(n - 1) : l > j => t[l].obj # o
      BY <1>1, <2>1, <3>1, <3>2
    <3>4. Say(t, o, a, v)
      BY <1>1, <3>1, <3>3 DEF Say
    <3> QED
      BY <3>4 DEF t, a
  <2> QED
    BY <2>2, <2>3
<1> QED
  BY <1>2, <1>3 DEF Say

\* What one sequence after the other tells.
LEMMA SayConcat ==
    ASSUME NEW s \in Seq(KubeEvent), NEW t \in Seq(KubeEvent), NEW o, NEW b, NEW w, NEW v,
           Say(s, o, b, w), Say(t, o, w, v)
    PROVE  Say(s \o t, o, b, v)
<1> DEFINE u == s \o t
           m == Len(s)
           n == Len(t)
<1>1. /\ m \in Nat /\ n \in Nat /\ DOMAIN s = 1..m /\ DOMAIN t = 1..n /\ DOMAIN u = 1..(m + n)
      /\ \A k \in 1..m : u[k] = s[k]
      /\ \A k \in 1..n : u[m + k] = t[k]
  OBVIOUS
<1> HIDE DEF u, m, n
<1>2. \A k \in 1..(m + n) : k \in 1..m \/ (k - m \in 1..n /\ m + (k - m) = k)
  BY <1>1
<1>3. (\A k \in 1..m : k \in 1..(m + n)) /\ (\A k \in 1..n : m + k \in 1..(m + n) /\ m + k > m)
  BY <1>1
<1>4. CASE \E k \in DOMAIN t : /\ t[k].obj = o /\ t[k].val = v
                               /\ \A l \in DOMAIN t : l > k => t[l].obj # o
  <2>1. PICK k \in 1..n : t[k].obj = o /\ t[k].val = v /\ \A l \in 1..n : l > k => t[l].obj # o
    BY <1>1, <1>4
  <2>2. u[m + k].obj = o /\ u[m + k].val = v
    BY <1>1, <2>1
  <2>3. ASSUME NEW l \in 1..(m + n), l > m + k PROVE u[l].obj # o
    <3>0. l \notin 1..m
      BY <1>1, <2>1, <2>3
    <3>1. l - m \in 1..n /\ m + (l - m) = l /\ l - m > k
      BY <1>1, <1>2, <2>1, <2>3, <3>0
    <3>2. u[l] = t[l - m]
      BY <1>1, <3>1
    <3> QED
      BY <2>1, <3>1, <3>2
  <2>4. Say(u, o, b, v)
    BY <1>1, <1>3, <2>2, <2>3 DEF Say
  <2> QED
    BY <2>4 DEF u
<1>5. CASE v = w /\ \A k \in DOMAIN t : t[k].obj # o
  <2>0. ASSUME NEW k \in 1..(m + n), k \notin 1..m PROVE u[k].obj # o
    <3>1. k - m \in 1..n /\ m + (k - m) = k
      BY <1>2, <2>0
    <3>2. u[k] = t[k - m]
      BY <1>1, <3>1
    <3> QED
      BY <1>1, <1>5, <3>1, <3>2
  <2>1. CASE w = b /\ \A k \in DOMAIN s : s[k].obj # o
    <3>1. ASSUME NEW k \in 1..(m + n) PROVE u[k].obj # o
      <4>1. CASE k \in 1..m
        BY <1>1, <2>1, <4>1
      <4> QED
        BY <2>0, <4>1
    <3>2. Say(u, o, b, v)
      BY <1>1, <1>5, <2>1, <3>1 DEF Say
    <3> QED
      BY <3>2 DEF u
  <2>2. CASE \E k \in DOMAIN s : /\ s[k].obj = o /\ s[k].val = w
                                 /\ \A l \in DOMAIN s : l > k => s[l].obj # o
    <3>1. PICK k \in 1..m : s[k].obj = o /\ s[k].val = w /\ \A l \in 1..m : l > k => s[l].obj # o
      BY <1>1, <2>2
    <3>2. u[k].obj = o /\ u[k].val = v
      BY <1>1, <1>5, <3>1
    <3>4. ASSUME NEW l \in 1..(m + n), l > k PROVE u[l].obj # o
      <4>1. CASE l \in 1..m
        BY <1>1, <3>1, <3>4, <4>1
      <4> QED
        BY <2>0, <4>1
    <3>3. Say(u, o, b, v)
      BY <1>1, <1>3, <3>1, <3>2, <3>4 DEF Say
    <3> QED
      BY <3>3 DEF u
  <2> QED
    BY <2>1, <2>2 DEF Say
<1> QED
  BY <1>4, <1>5 DEF Say

\* Who knew something else is told something too.
LEMMA SayRebase ==
    ASSUME NEW s, NEW o, NEW b, NEW w, Say(s, o, b, w), NEW c
    PROVE  \E x : Say(s, o, c, x)
<1>1. CASE \A k \in DOMAIN s : s[k].obj # o
  BY <1>1 DEF Say
<1>2. CASE ~ \A k \in DOMAIN s : s[k].obj # o
  <2>1. Say(s, o, c, w)
    BY <1>2 DEF Say
  <2> QED
    BY <2>1
<1> QED
  BY <1>1, <1>2

\* handleWatchEvent is busy with an event or idle.
LEMMA HandlerEvent ==
    ASSUME TypeOK
    PROVE  /\ handler.pc = "idle" <=> handler = Idle
           /\ handler.pc # "idle" => handler.ev \in KubeEvent
  BY DEF TypeOK, Idle

\* The steps that leave the events on their way, the cache and what the hook knows alone.
LEMMA LossSame ==
    ASSUME LossInv, Phases', worker' = "reset" => worker = "reset", Synchronizing' => Synchronizing,
           UNCHANGED <<eventCbEnabled, eventBuf, replay, cachedObjects, ch, told, exposed>>,
           handler' = handler \/ (/\ handler.pc # "idle" /\ handler'.pc # "idle"
                                  /\ handler'.ev = handler.ev)
    PROVE  LossInv'
<1>1. \A o, b, v : Carries(o, b, v)' <=> Carries(o, b, v)
  BY DEF Carries
<1>2. \A o, b, v : Reaches(o, b, v)' <=> Reaches(o, b, v)
  BY <1>1 DEF Reaches
<1>3. SavedAreFresh'
  BY <1>2 DEF LossInv, SavedAreFresh
<1>4. CopyIsFresh'
  BY DEF LossInv, CopyIsFresh
<1>5. EventsArrive'
  BY <1>2 DEF LossInv, EventsArrive, Synchronizing
<1> QED
  BY <1>3, <1>4, <1>5 DEF LossInv

\* Every step keeps the order of the phases.
LEMMA NextPhases ==
    ASSUME TypeOK, QuietBeforeStart, Phases, [Next]_vars
    PROVE  Phases'
<1> USE DEF Phases, Listening, clusterVars, sharedVars, bufVars
<1>1. CASE ClusterChange \/ Deliver \/ Resync \/ LoadExistedObjects \/ UNCHANGED vars
  BY <1>1 DEF ClusterChange, Deliver, Resync, LoadExistedObjects, vars
<1>2. CASE Start \/ ReadCache \/ HookFails \/ HookSucceeds
  BY <1>2 DEF Start, ReadCache, HookFails, HookSucceeds
<1>3. CASE HandleWatchEvent
  <2>1. Listening
    BY <1>3 DEF HandleWatchEvent, QuietBeforeStart
  <2>2. handler'.pc # "send"
    BY <1>3 DEF HandleWatchEvent, Idle
  <2> QED
    BY <1>3, <2>1, <2>2 DEF HandleWatchEvent
<1>4. CASE ReadFlag
  <2>1. handler # Idle
    BY <1>4 DEF ReadFlag, Idle
  <2>2. handler'.pc = "send" => eventCbEnabled
    BY <1>4, HandlerEvent DEF ReadFlag, TypeOK
  <2> QED
    BY <1>4, <2>1, <2>2 DEF ReadFlag, LockFree
<1>5. CASE SendEvent \/ BufferEvent
  <2>1. handler # Idle /\ handler'.pc # "send" /\ handler' = Idle
    BY <1>5 DEF SendEvent, BufferEvent, Idle
  <2> QED
    BY <1>5, <2>1 DEF SendEvent, BufferEvent
<1>6. CASE ResetEventBuf \/ SideRead
  BY <1>6 DEF ResetEventBuf, SideRead
<1>7. CASE EnableKubeEventCb \/ ReplayEvent \/ ReplayEnd \/ Receive
  BY <1>7 DEF EnableKubeEventCb, ReplayEvent, ReplayEnd, Receive
<1> QED
  BY <1>1, <1>2, <1>3, <1>4, <1>5, <1>6, <1>7 DEF Next, HandlerStep, WorkerStep

\* handleWatchEvent changes the cache exactly when it has an event to tell it.
LEMMA HandleLoss ==
    ASSUME TypeOK, LossInv, Phases', EventTypes = WatchEventType, HandleWatchEvent
    PROVE  LossInv'
<1> DEFINE n == Head(notif)
<1>1. /\ n \in Notification /\ n.obj \in Objects /\ handler.pc = "idle"
      /\ UNCHANGED <<eventCbEnabled, eventBuf, replay, ch, told, exposed, worker>>
      /\ cachedObjects \in [Objects -> States]
  <2>1. n \in Notification
    BY DEF TypeOK, HandleWatchEvent
  <2>2. n.obj \in Objects
    BY <2>1 DEF Notification
  <2> QED
    BY <2>1, <2>2 DEF TypeOK, HandleWatchEvent, bufVars
<1>2. CASE UNCHANGED <<cachedObjects, handler>>
  BY <1>1, <1>2, LossSame DEF Synchronizing
<1>3. CASE /\ cachedObjects' = [cachedObjects EXCEPT ![n.obj] = After(n)]
           /\ handler' = [pc |-> "flag", ev |-> [obj |-> n.obj, val |-> After(n)]]
  <2> HIDE DEF n
  <2>0. cachedObjects'[n.obj] = After(n) /\ \A o \in Objects : o # n.obj => cachedObjects'[o] = cachedObjects[o]
    BY <1>1, <1>3
  <2>1. handler'.pc # "idle" /\ handler'.ev.obj = n.obj /\ handler'.ev.val = After(n)
    BY <1>3
  <2>2. \A o, b, v : Carries(o, b, v) <=> v = b
    BY <1>1 DEF Carries
  <2>3. \A o, b, v : Carries(o, b, v)' <=> IF o = n.obj THEN v = After(n) ELSE v = b
    BY <2>1 DEF Carries
  <2>4. SavedAreFresh'
    <3> SUFFICES ASSUME ~eventCbEnabled, NEW o \in Objects
                 PROVE  Reaches(o, cachedObjects[o], cachedObjects[o])'
      BY <1>1 DEF SavedAreFresh
    <3>1. PICK w : Say(eventBuf, o, cachedObjects[o], w) /\ Carries(o, w, cachedObjects[o])
      BY DEF LossInv, SavedAreFresh, Reaches
    <3>2. CASE o # n.obj
      BY <1>1, <2>0, <2>2, <2>3, <3>1, <3>2 DEF Reaches
    <3>3. CASE o = n.obj
      <4>1. PICK x : Say(eventBuf, o, cachedObjects'[o], x)
        BY <3>1, SayRebase
      <4> QED
        BY <1>1, <2>0, <2>3, <3>3, <4>1 DEF Reaches
    <3> QED
      BY <3>2, <3>3
  <2>5. CopyIsFresh'
    BY <1>1, <2>0, <2>1 DEF LossInv, CopyIsFresh
  <2>6. EventsArrive'
    <3> SUFFICES ASSUME Synchronizing, NEW o \in Objects, o \notin exposed
                 PROVE  Reaches(o, told[o], cachedObjects[o])'
      BY <1>1 DEF EventsArrive, Synchronizing
    <3>1. Reaches(o, told[o], cachedObjects[o])
      BY DEF LossInv, EventsArrive
    <3>2. cachedObjects'[o] = IF o = n.obj THEN After(n) ELSE cachedObjects[o]
      BY <2>0
    <3>3. CASE eventCbEnabled
      BY <1>1, <2>2, <2>3, <3>1, <3>2, <3>3 DEF Reaches
    <3>4. CASE ~eventCbEnabled
      BY <1>1, <2>2, <2>3, <3>1, <3>2, <3>4 DEF Reaches
    <3> QED
      BY <3>3, <3>4
  <2> QED
    BY <2>4, <2>5, <2>6 DEF LossInv
<1>4. \/ UNCHANGED <<cachedObjects, handler>>
      \/ /\ cachedObjects' = [cachedObjects EXCEPT ![n.obj] = After(n)]
         /\ handler' = [pc |-> "flag", ev |-> [obj |-> n.obj, val |-> After(n)]]
  <2>1. CASE FilterDrops(n) \/ Fires(n)
    BY <2>1 DEF HandleWatchEvent
  <2>2. CASE ~FilterDrops(n) /\ ~Fires(n)
    <3>1. n.type # "Deleted" /\ cachedObjects[n.obj] = n.val
      BY <1>1, <2>2 DEF Fires, shouldFireEvent, Notification
    <3>2. handler' = Idle /\ handler = Idle
      BY <2>2, <1>1, HandlerEvent DEF HandleWatchEvent
    <3>3. cachedObjects' = cachedObjects
      BY <1>1, <2>2, <3>1 DEF HandleWatchEvent, After
    <3> QED
      BY <3>2, <3>3
  <2> QED
    BY <2>1, <2>2
<1> QED
  BY <1>2, <1>3, <1>4

\* An event that is sent or saved goes behind those on their way.
LEMMA SendLoss ==
    ASSUME TypeOK, LossInv, Phases', SendEvent
    PROVE  LossInv'
<1>1. /\ handler.ev \in KubeEvent /\ handler.pc # "idle" /\ handler'.pc = "idle"
      /\ ch \in Seq(KubeEvent) /\ ch' = Append(ch, handler.ev)
      /\ UNCHANGED <<eventCbEnabled, eventBuf, replay, cachedObjects, told, exposed, worker>>
  BY HandlerEvent DEF SendEvent, TypeOK, Idle, bufVars
<1>2. eventCbEnabled /\ replay = <<>> /\ worker = "done"
  BY DEF SendEvent, LossInv, Phases
<1>3. EventsArrive'
  <2> SUFFICES ASSUME Synchronizing, NEW o \in Objects, o \notin exposed
               PROVE  Reaches(o, told[o], cachedObjects[o])'
    BY <1>1 DEF EventsArrive, Synchronizing
  <2>1. PICK w, x : Say(ch, o, told[o], w) /\ Say(replay, o, w, x) /\ Carries(o, x, cachedObjects[o])
    BY <1>2 DEF LossInv, EventsArrive, Reaches
  <2>2. x = w
    BY <1>2, <2>1, SayNothing
  <2>3. Say(ch', o, told[o], cachedObjects[o])
    <3>1. CASE handler.ev.obj = o
      BY <1>1, <2>1, <3>1, SayAppend DEF Carries
    <3>2. CASE handler.ev.obj # o
      BY <1>1, <2>1, <2>2, <3>2, SayAppend DEF Carries
    <3> QED
      BY <3>1, <3>2
  <2>4. Say(replay', o, cachedObjects[o], cachedObjects[o])
    BY <1>1, <1>2, SayNothing
  <2>5. Carries(o, cachedObjects[o], cachedObjects[o])'
    BY <1>1 DEF Carries
  <2> QED
    BY <1>1, <1>2, <2>3, <2>4, <2>5 DEF Reaches
<1> QED
  BY <1>1, <1>2, <1>3 DEF LossInv, SavedAreFresh, CopyIsFresh

\* A saved event goes behind the others, or its object is exposed.
LEMMA BufferLoss ==
    ASSUME TypeOK, LossInv, Phases', BufferEvent
    PROVE  LossInv'
<1>1. /\ handler.ev \in KubeEvent /\ handler.pc # "idle" /\ handler'.pc = "idle"
      /\ eventBuf \in Seq(KubeEvent) /\ eventBuf' = Append(eventBuf, handler.ev)
      /\ UNCHANGED <<eventCbEnabled, replay, cachedObjects, told, ch, worker>>
      /\ exposed \subseteq exposed'
      /\ eventCbEnabled \/ worker = "reset" => handler.ev.obj \in exposed'
  BY HandlerEvent DEF BufferEvent, TypeOK, Idle
<1>2. ASSUME NEW o, NEW b, NEW v, Reaches(o, b, v), ~eventCbEnabled \/ handler.ev.obj # o
      PROVE  Reaches(o, b, v)'
  <2>1. Carries(o, v, v)'
    BY <1>1 DEF Carries
  <2>2. CASE ~eventCbEnabled
    <3>1. PICK w : Say(eventBuf, o, b, w) /\ Carries(o, w, v)
      BY <1>2, <2>2 DEF Reaches
    <3>2. Say(eventBuf', o, b, v)
      BY <1>1, <3>1, SayAppend DEF Carries
    <3> QED
      BY <1>1, <2>1, <2>2, <3>2 DEF Reaches
  <2>3. CASE eventCbEnabled
    <3>1. handler.ev.obj # o
      BY <1>2, <2>3
    <3>2. PICK w, x : Say(ch, o, b, w) /\ Say(replay, o, w, x) /\ Carries(o, x, v)
      BY <1>2, <2>3 DEF Reaches
    <3>3. x = v
      BY <3>1, <3>2 DEF Carries
    <3> QED
      BY <1>1, <2>1, <2>3, <3>2, <3>3 DEF Reaches
  <2> QED
    BY <2>2, <2>3
<1>3. SavedAreFresh'
  BY <1>1, <1>2 DEF LossInv, SavedAreFresh
<1>4. CopyIsFresh'
  BY <1>1 DEF LossInv, CopyIsFresh
<1>5. EventsArrive'
  BY <1>1, <1>2 DEF LossInv, EventsArrive, Synchronizing
<1> QED
  BY <1>3, <1>4, <1>5 DEF LossInv

\* The copy of the cache covers what is saved; the reset of the buffer drops what it covers.
LEMMA CopyLoss ==
    ASSUME TypeOK, LossInv, Phases', ReadCache
    PROVE  LossInv'
<1>1. /\ UNCHANGED <<eventCbEnabled, eventBuf, replay, cachedObjects, handler, ch, exposed>>
      /\ told' = cachedObjects
  BY DEF ReadCache, bufVars
<1>2. ~eventCbEnabled
  BY DEF ReadCache, LossInv, Phases
<1>3. \A o, b, v : Carries(o, b, v)' <=> Carries(o, b, v)
  BY <1>1 DEF Carries
<1>4. \A o \in Objects : Reaches(o, cachedObjects[o], cachedObjects[o])'
  <2> SUFFICES ASSUME NEW o \in Objects PROVE Reaches(o, cachedObjects[o], cachedObjects[o])'
    OBVIOUS
  <2>1. PICK w : Say(eventBuf, o, cachedObjects[o], w) /\ Carries(o, w, cachedObjects[o])
    BY <1>2 DEF LossInv, SavedAreFresh, Reaches
  <2> QED
    BY <1>1, <1>2, <1>3, <2>1 DEF Reaches
<1>5. \A o \in Objects : told'[o] = cachedObjects'[o]
  BY <1>1
<1>6. \A o \in Objects : Reaches(o, told[o], cachedObjects[o])'
  BY <1>4, <1>5
<1> QED
  BY <1>4, <1>5, <1>6 DEF LossInv, SavedAreFresh, CopyIsFresh, EventsArrive

\* The reset of the buffer drops what the copy covers.
LEMMA ResetLoss ==
    ASSUME TypeOK, LossInv, Phases', ResetEventBuf
    PROVE  LossInv'
<1>1. ~eventCbEnabled /\ worker = "reset" /\ worker' = "hook"
  BY DEF ResetEventBuf, LossInv, Phases
<1>2. /\ UNCHANGED <<eventCbEnabled, replay, cachedObjects, handler, ch, exposed, told>>
      /\ eventBuf' = <<>>
  BY <1>1 DEF ResetEventBuf
<1>3. ASSUME NEW o, NEW b, NEW v, Carries(o, b, v) PROVE Reaches(o, b, v)'
  <2>1. Carries(o, b, v)'
    BY <1>2, <1>3 DEF Carries
  <2>2. Say(eventBuf', o, b, b)
    BY <1>2, SayNothing
  <2> QED
    BY <1>1, <1>2, <2>1, <2>2 DEF Reaches
<1>4. ASSUME NEW o \in Objects PROVE Carries(o, cachedObjects[o], cachedObjects[o])
  BY <1>1 DEF LossInv, SavedAreFresh, Reaches, Carries
<1>5. SavedAreFresh'
  BY <1>2, <1>3, <1>4 DEF SavedAreFresh
<1>6. EventsArrive'
  <2> SUFFICES ASSUME NEW o \in Objects, o \notin exposed PROVE Reaches(o, told[o], cachedObjects[o])'
    BY <1>2 DEF EventsArrive
  <2>1. Carries(o, told[o], cachedObjects[o])
    BY <1>1, <1>4 DEF LossInv, CopyIsFresh, Carries
  <2> QED
    BY <1>2, <1>3, <2>1
<1> QED
  BY <1>1, <1>5, <1>6 DEF LossInv, CopyIsFresh

\* Another reader exposes the objects whose events it drops.
LEMMA SideLoss ==
    ASSUME TypeOK, LossInv, Phases', SideRead
    PROVE  LossInv'
<1>1. /\ ~eventCbEnabled /\ eventBuf' = <<>>
      /\ exposed' = exposed \cup {eventBuf[k].obj : k \in DOMAIN eventBuf}
      /\ UNCHANGED <<eventCbEnabled, replay, cachedObjects, handler, ch, told, worker>>
  BY DEF SideRead
<1>2. ASSUME NEW o, NEW b, NEW v, Carries(o, b, v) PROVE Reaches(o, b, v)'
  <2>1. Carries(o, b, v)'
    BY <1>1, <1>2 DEF Carries
  <2>2. Say(eventBuf', o, b, b)
    BY <1>1, SayNothing
  <2> QED
    BY <1>1, <2>1, <2>2 DEF Reaches
<1>3. ASSUME NEW o \in Objects PROVE Carries(o, cachedObjects[o], cachedObjects[o])
  BY <1>1 DEF LossInv, SavedAreFresh, Reaches, Carries
<1>4. SavedAreFresh'
  BY <1>1, <1>2, <1>3 DEF SavedAreFresh
<1>5. CopyIsFresh'
  BY <1>1 DEF LossInv, CopyIsFresh
<1>6. EventsArrive'
  <2> SUFFICES ASSUME Synchronizing, NEW o \in Objects, o \notin exposed'
               PROVE  Reaches(o, told[o], cachedObjects[o])'
    BY <1>1 DEF EventsArrive, Synchronizing
  <2>1. o \notin exposed /\ \A k \in DOMAIN eventBuf : eventBuf[k].obj # o
    BY <1>1
  <2>2. PICK w : Say(eventBuf, o, told[o], w) /\ Carries(o, w, cachedObjects[o])
    BY <1>1, <2>1 DEF LossInv, EventsArrive, Reaches
  <2>3. w = told[o]
    BY <2>1, <2>2 DEF Say
  <2> QED
    BY <1>1, <1>2, <2>2, <2>3
<1> QED
  BY <1>4, <1>5, <1>6 DEF LossInv

\* enableKubeEventCb replays what was saved, one event after the other, behind the channel.
LEMMA EnableLoss ==
    ASSUME TypeOK, LossInv, Phases', EnableKubeEventCb
    PROVE  LossInv'
<1>1. /\ worker = "unlock" /\ worker' = "replay" /\ eventCbEnabled' /\ replay' = eventBuf
      /\ UNCHANGED <<cachedObjects, handler, ch, told, exposed>>
  BY DEF EnableKubeEventCb
<1>2. ~eventCbEnabled /\ ch = <<>>
  BY <1>1 DEF LossInv, Phases
<1>3. EventsArrive'
  <2> SUFFICES ASSUME NEW o \in Objects, o \notin exposed PROVE Reaches(o, told[o], cachedObjects[o])'
    BY <1>1 DEF EventsArrive
  <2>1. PICK w : Say(eventBuf, o, told[o], w) /\ Carries(o, w, cachedObjects[o])
    BY <1>1, <1>2 DEF LossInv, EventsArrive, Synchronizing, Reaches
  <2>2. Carries(o, w, cachedObjects[o])'
    BY <1>1, <2>1 DEF Carries
  <2>3. Say(ch', o, told[o], told[o]) /\ Say(replay', o, told[o], w)
    BY <1>1, <1>2, <2>1, SayNothing
  <2> QED
    BY <1>1, <2>2, <2>3 DEF Reaches
<1> QED
  BY <1>1, <1>3 DEF LossInv, SavedAreFresh, CopyIsFresh

\* The replay moves events from the buffer to the channel in their order.
LEMMA ReplayLoss ==
    ASSUME TypeOK, LossInv, Phases', ReplayEvent
    PROVE  LossInv'
<1>1. /\ worker = "replay" /\ replay # <<>> /\ ch' = Append(ch, Head(replay)) /\ replay' = Tail(replay)
      /\ UNCHANGED <<eventCbEnabled, cachedObjects, handler, told, exposed, worker>>
  BY DEF ReplayEvent
<1>2. eventCbEnabled
  BY <1>1 DEF LossInv, Phases
<1>3. ch \in Seq(KubeEvent) /\ replay \in Seq(KubeEvent) /\ Head(replay) \in KubeEvent
  BY <1>1 DEF TypeOK
<1>4. EventsArrive'
  <2> SUFFICES ASSUME NEW o \in Objects, o \notin exposed PROVE Reaches(o, told[o], cachedObjects[o])'
    BY <1>1 DEF EventsArrive
  <2>1. PICK w, x : Say(ch, o, told[o], w) /\ Say(replay, o, w, x) /\ Carries(o, x, cachedObjects[o])
    BY <1>1, <1>2 DEF LossInv, EventsArrive, Synchronizing, Reaches
  <2> DEFINE y == IF Head(replay).obj = o THEN Head(replay).val ELSE w
  <2>2. Say(replay', o, y, x)
    BY <1>1, <1>3, <2>1, SayTail
  <2>3. Say(ch', o, told[o], y)
    BY <1>1, <1>3, <2>1, SayAppend
  <2>4. Carries(o, x, cachedObjects[o])'
    BY <1>1, <2>1 DEF Carries
  <2> HIDE DEF y
  <2> QED
    BY <1>1, <1>2, <2>2, <2>3, <2>4 DEF Reaches
<1> QED
  BY <1>1, <1>2, <1>4 DEF LossInv, SavedAreFresh, CopyIsFresh

\* An event that is received is known, and the others are behind it.
LEMMA ReceiveLoss ==
    ASSUME TypeOK, LossInv, Phases', Receive
    PROVE  LossInv'
<1>1. /\ ch # <<>> /\ ch' = Tail(ch) /\ told' = [told EXCEPT ![Head(ch).obj] = Head(ch).val]
      /\ UNCHANGED <<eventCbEnabled, replay, cachedObjects, handler, exposed, worker>>
  BY DEF Receive, bufVars
<1>2. eventCbEnabled /\ worker \in {"replay", "done"}
  BY <1>1 DEF LossInv, Phases
<1>3. ch \in Seq(KubeEvent) /\ told \in [Objects -> States]
  BY DEF TypeOK
<1>4. EventsArrive'
  <2> SUFFICES ASSUME NEW o \in Objects, o \notin exposed PROVE Reaches(o, told[o], cachedObjects[o])'
    BY <1>1 DEF EventsArrive
  <2>1. PICK w, x : Say(ch, o, told[o], w) /\ Say(replay, o, w, x) /\ Carries(o, x, cachedObjects[o])
    BY <1>2 DEF LossInv, EventsArrive, Synchronizing, Reaches
  <2>2. told'[o] = IF Head(ch).obj = o THEN Head(ch).val ELSE told[o]
    BY <1>1, <1>3
  <2>3. Say(ch', o, told'[o], w)
    BY <1>1, <1>3, <2>1, <2>2, SayTail
  <2>4. Carries(o, x, cachedObjects[o])'
    BY <1>1, <2>1 DEF Carries
  <2> QED
    BY <1>1, <1>2, <2>1, <2>3, <2>4 DEF Reaches
<1> QED
  BY <1>1, <1>2, <1>4 DEF LossInv, SavedAreFresh, CopyIsFresh

\* loadExistedObjects runs before there are events.
LEMMA LoadLoss ==
    ASSUME TypeOK, LossInv, Phases', LoadExistedObjects
    PROVE  LossInv'
<1>1. /\ worker' = "listed" /\ eventBuf' = <<>> /\ handler' = Idle /\ ~eventCbEnabled'
  BY DEF LoadExistedObjects, bufVars, LossInv, Phases, Listening
<1>2. \A o, b : Reaches(o, b, b)'
  BY <1>1, SayNothing DEF Reaches, Carries, Idle
<1> QED
  BY <1>1, <1>2 DEF LossInv, SavedAreFresh, CopyIsFresh, EventsArrive, Synchronizing

\* Every step preserves the invariant.
LEMMA NextLossInv ==
    ASSUME TypeOK, QuietBeforeStart, LossInv, EventTypes = WatchEventType, [Next]_vars
    PROVE  LossInv'
<1>1. Phases'
  BY NextPhases DEF LossInv
<1> USE DEF clusterVars, sharedVars, bufVars
<1>2. CASE ClusterChange \/ Deliver \/ Resync \/ UNCHANGED vars
  <2>1. UNCHANGED <<eventCbEnabled, eventBuf, replay, cachedObjects, ch, told, exposed, handler, worker>>
    BY <1>2 DEF ClusterChange, Deliver, Resync, vars
  <2> QED
    BY <1>1, <2>1, LossSame DEF Synchronizing
<1>3. CASE Start \/ HookFails \/ HookSucceeds \/ ReplayEnd
  <2>1. /\ UNCHANGED <<eventCbEnabled, eventBuf, replay, cachedObjects, ch, told, exposed, handler>>
        /\ worker' # "reset" /\ (Synchronizing' => Synchronizing)
    BY <1>3 DEF Start, HookFails, HookSucceeds, ReplayEnd, Synchronizing
  <2> QED
    BY <1>1, <2>1, LossSame
<1>4. CASE ReadFlag
  <2>1. /\ UNCHANGED <<eventCbEnabled, eventBuf, replay, cachedObjects, ch, told, exposed, worker>>
        /\ handler.pc # "idle" /\ handler'.pc # "idle" /\ handler'.ev = handler.ev
    BY <1>4, HandlerEvent DEF ReadFlag, TypeOK
  <2> QED
    BY <1>1, <2>1, LossSame DEF Synchronizing
<1>5. CASE HandleWatchEvent \/ SendEvent \/ BufferEvent
  BY <1>1, <1>5, HandleLoss, SendLoss, BufferLoss
<1>6. CASE LoadExistedObjects \/ ReadCache \/ ResetEventBuf \/ SideRead
  BY <1>1, <1>6, LoadLoss, CopyLoss, ResetLoss, SideLoss
<1>7. CASE EnableKubeEventCb \/ ReplayEvent \/ Receive
  BY <1>1, <1>7, EnableLoss, ReplayLoss, ReceiveLoss
<1> QED
  BY <1>2, <1>3, <1>4, <1>5, <1>6, <1>7 DEF Next, HandlerStep, WorkerStep

\* What a sequence of events says is the value of the last one of the object.
LEMMA LastSays ==
    ASSUME NEW s \in Seq(KubeEvent), NEW o, NEW b, NEW v, Say(s, o, b, v)
    PROVE  LET I == {i \in 1..Len(s) : s[i].obj = o}
           IN v = (IF I = {} THEN b ELSE s[Max(I)].val) /\ (I # {} => Max(I) # 0)
<1> DEFINE I == {i \in 1..Len(s) : s[i].obj = o}
<1>2. CASE v = b /\ \A k \in DOMAIN s : s[k].obj # o
  <2>1. I = {}
    BY <1>2
  <2> QED
    BY <1>2, <2>1
<1>3. CASE \E k \in DOMAIN s : /\ s[k].obj = o /\ s[k].val = v
                               /\ \A l \in DOMAIN s : l > k => s[l].obj # o
  <2>1. PICK k \in DOMAIN s : /\ s[k].obj = o /\ s[k].val = v
                              /\ \A l \in DOMAIN s : l > k => s[l].obj # o
    BY <1>3
  <2>2. k \in I /\ I \subseteq Nat /\ \A l \in I : k >= l
    BY <2>1
  <2> HIDE DEF I
  <2>3. \A j \in I : (\A l \in I : j >= l) => j = k
    BY <2>2
  <2>4. Max(I) = k
    BY <2>2, <2>3 DEF Max
  <2>5. k # 0
    BY <2>1
  <2> QED
    BY <2>1, <2>2, <2>4, <2>5 DEF I
<1> QED
  BY <1>2, <1>3 DEF Say

\* The events on their way are told in the order of OnTheWay.
LEMMA ArrivingIsKnown ==
    ASSUME TypeOK, LossInv
    PROVE  LostOnlyInWindows
<1> SUFFICES ASSUME Synchronizing, NEW o \in Objects, o \notin exposed
             PROVE  Known(o) = cachedObjects[o]
  BY DEF LostOnlyInWindows
<1> DEFINE saved == IF eventCbEnabled THEN <<>> ELSE eventBuf
           busy == IF handler = Idle THEN <<>> ELSE <<handler.ev>>
           c == cachedObjects[o]
<1>1. ch \in Seq(KubeEvent) /\ replay \in Seq(KubeEvent) /\ saved \in Seq(KubeEvent)
  BY DEF TypeOK
<1>2. busy \in Seq(KubeEvent)
  BY HandlerEvent
<1>3. \A x : Carries(o, x, c) => Say(busy, o, x, c)
  <2>1. CASE handler = Idle
    BY <2>1, SayNothing DEF Carries, Idle
  <2>2. CASE handler # Idle
    <3>1. DOMAIN busy = {1} /\ busy[1] = handler.ev /\ handler.pc # "idle"
      BY <2>2, HandlerEvent
    <3> HIDE DEF busy
    <3>2. \A l \in {1} : ~(l > 1)
      OBVIOUS
    <3> QED
      BY <3>1, <3>2 DEF Carries, Say
  <2> QED
    BY <2>1, <2>2
<1>4. \E w, x, y : /\ Say(ch, o, told[o], w) /\ Say(replay, o, w, x) /\ Say(saved, o, x, y)
                   /\ Carries(o, y, c)
  <2>1. Reaches(o, told[o], c)
    BY DEF LossInv, EventsArrive
  <2>2. CASE eventCbEnabled
    BY <2>1, <2>2, SayNothing DEF Reaches
  <2>3. CASE ~eventCbEnabled
    <3>1. ch = <<>> /\ replay = <<>>
      BY <2>3 DEF LossInv, Phases
    <3> QED
      BY <2>1, <2>3, <3>1, SayNothing DEF Reaches
  <2> QED
    BY <2>2, <2>3
<1>5. PICK w, x, y : /\ Say(ch, o, told[o], w) /\ Say(replay, o, w, x) /\ Say(saved, o, x, y)
                     /\ Carries(o, y, c)
  BY <1>4
<1>6. Say(busy, o, y, c)
  BY <1>3, <1>5
<1> HIDE DEF saved, busy, c
<1>7. Say(ch \o replay, o, told[o], x) /\ ch \o replay \in Seq(KubeEvent)
  BY <1>1, <1>5, SayConcat
<1> DEFINE sent == ch \o replay
           all == sent \o saved
<1>12. sent \in Seq(KubeEvent) /\ Say(sent, o, told[o], x)
  BY <1>7
<1>13. OnTheWay = all \o busy
  BY DEF OnTheWay, saved, busy
<1> HIDE DEF sent
<1>8. all \in Seq(KubeEvent) /\ Say(all, o, told[o], y)
  BY <1>1, <1>5, <1>12, SayConcat
<1> HIDE DEF all
<1>9. Say(all \o busy, o, told[o], c) /\ all \o busy \in Seq(KubeEvent)
  BY <1>2, <1>6, <1>8, SayConcat
<1>11. Say(OnTheWay, o, told[o], c) /\ OnTheWay \in Seq(KubeEvent)
  BY <1>9, <1>13
<1> DEFINE I == {i \in 1..Len(OnTheWay) : OnTheWay[i].obj = o}
<1>14. c = (IF I = {} THEN told[o] ELSE OnTheWay[Max(I)].val) /\ (I # {} => Max(I) # 0)
  BY <1>11, LastSays
<1>15. Known(o) = LET k == IF I # {} THEN Max(I) ELSE 0
                  IN IF k = 0 THEN told[o] ELSE OnTheWay[k].val
  BY DEF Known, SelectLastInSeq
<1> HIDE DEF I
<1> QED
  BY <1>14, <1>15 DEF c

\* For a binding with all event types, the Synchronization snapshot and the replayed and live
\* events in the order of the channel end in the cached state of every object, however
\* handleWatchEvent, getCachedObjects and enableKubeEventCb interleave, except for objects
\* with an event in one of the named windows.
THEOREM EventsLostOnlyInWindows ==
    ASSUME EventTypes = WatchEventType
    PROVE  Spec => []LostOnlyInWindows
<1>1. Init => LossInv
  <2> SUFFICES ASSUME Init PROVE LossInv
    OBVIOUS
  <2>1. Phases
    BY DEF Init, Phases, Listening, Idle
  <2>4. CopyIsFresh /\ EventsArrive
    BY DEF Init, CopyIsFresh, EventsArrive, Synchronizing
  <2>2. eventBuf = <<>> /\ handler.pc = "idle" /\ ~eventCbEnabled
    BY DEF Init, Idle
  <2>3. SavedAreFresh
    BY <2>2, SayNothing DEF SavedAreFresh, Reaches, Carries
  <2> QED
    BY <2>1, <2>3, <2>4 DEF LossInv
<1>2. Init => CacheInv
  BY DEF Init, CacheInv, QuietBeforeStart, LastIsCurrent, CacheFollowsStore, Listening
<1>3. TypeOK /\ TypeOK' /\ CacheInv /\ [Next]_vars => CacheInv'
  BY NextCacheInv
<1>4. TypeOK /\ CacheInv /\ LossInv /\ [Next]_vars => LossInv'
  BY NextLossInv DEF CacheInv
<1>5. TypeOK /\ LossInv => LostOnlyInWindows
  BY ArrivingIsKnown
<1> QED
  BY <1>1, <1>2, <1>3, <1>4, <1>5, ResourceInformerTypeOK, PTL DEF Spec
=============================================================================
