------------------------ MODULE KubeMonitors_proofs ------------------------
(***************************************************************************)
(* Theorems about the kubernetes bindings of a hook: enabling repairs what *)
(* it finds, informers follow the namespaces and are silent only in the    *)
(* window that is named, and one run sees one snapshot of a binding; for   *)
(* any bindings, namespaces and numbers of monitors and calls.             *)
(*                                                                         *)
(* The inductive invariant has four independent parts beside the types.    *)
(* Indexed and Enabling say what the tables of the controller and of the   *)
(* manager hold while the worker and the goroutine that disables work on   *)
(* them; Follows and Loud are predicates of one monitor; Cached relates    *)
(* the snapshots to the cache.                                             *)
(***************************************************************************)
EXTENDS KubeMonitors, FiniteSetTheorems, TLAPS

\* The monitor a goroutine has read from the index is that of its binding; the
\* worker starts a monitor at most once.
Held ==
    /\ worker.pc \in {"run", "begin", "poll", "synced", "flag"} => worker.mon # None
    /\ worker.pc = "stop" /\ worker.mon # None => mons[worker.mon].id = Head1
    /\ worker.pc \in {"run", "begin", "poll"} => ~mons[worker.mon].started /\ index[Head1] \in {None, worker.mon}
    /\ worker.pc \in {"link", "send", "start"} /\ index[Head1] # None =>
          ~mons[index[Head1]].started
    /\ other.pc = "cancel" => other.mon # None /\ mons[other.mon].id = Head(other.todo)

\* A monitor in the index belongs to its binding, is cancelled only when it is about
\* to be deleted, and is linked before it is started only by the worker.
Indexed ==
    \A b \in Bindings : index[b] # None =>
        /\ mons[index[b]].id = b
        /\ mons[index[b]].cancelled => other.pc = "delete" /\ Head(other.todo) = b
        /\ b \in links /\ ~mons[index[b]].started =>
              worker.pc \in {"link", "send", "start", "run", "begin", "poll"} /\ Head1 = b

\* What EnableKubernetesBindings promises for one binding.
Good(b) ==
    /\ b \in links /\ b \in infos
    /\ index[b] # None
    /\ mons[index[b]].started /\ ~mons[index[b]].cancelled

\* Without a Disable, the bindings before the current one are good, and the current one
\* as far as the worker has got.
Enabling ==
    /\ worker.pc \in {"check", "link", "sync", "snapshot", "get"} => worker.op = "enable"
    /\ worker.pc \in {"stop", "add", "send"} => worker.op = "update"
    /\ worker.op = "enable" /\ ~overlap =>
          /\ other.pc = "idle"
          /\ worker.pc \in {"check", "link", "start", "run", "begin", "poll", "synced", "sync"} =>
                \A b \in Bindings : b \notin Range(worker.todo) => Good(b)
          /\ worker.pc \in {"snapshot", "get"} => \A b \in Bindings : Good(b)
          /\ worker.pc = "link" => index[Head1] # None
          /\ worker.pc \in {"start", "run", "begin", "poll", "synced", "sync"} =>
                index[Head1] # None /\ Head1 \in links
          /\ worker.pc \in {"run", "begin", "poll", "synced"} => index[Head1] = worker.mon
          /\ worker.pc \in {"synced", "sync"} => mons[index[Head1]].started

\* Notifications: one for a namespace is waiting; the last one of its namespace; the last
\* ones tell what the store holds.
Waits(s, n) == \E k \in DOMAIN s : s[k][2] = n
IsLast(s, k) == \A l \in DOMAIN s : l > k => s[l][2] # s[k][2]
Tells(s, store) == \A k \in DOMAIN s : IsLast(s, k) => (s[k][1] = "add" <=> s[k][2] \in store)

\* The life of a monitor: it is listed and stopped after it is started, and callbacks come
\* in between; informers that can be cancelled have been started.
Lives(mon) ==
    /\ mon.listed => mon.started
    /\ mon.stopped => mon.started /\ mon.cancelled
    /\ ~mon.listed => mon.notif = <<>> /\ mon.cb.pc = "idle"
    /\ mon.stopped => mon.notif = <<>>
    /\ mon.cb.pc = "stored" => mon.cb.ns \in DOMAIN mon.varying
    /\ mon.cancelNs \subseteq DOMAIN mon.varying
    /\ \A n \in mon.cancelNs : mon.varying[n].state # "created"

\* The informers by namespace follow the store of the namespace informer.
Follows(mon) ==
    /\ mon.started /\ ~mon.stopped =>
          mon.cancelNs = {n \in DOMAIN mon.varying : ~(mon.cb.pc = "stored" /\ mon.cb.ns = n)}
    /\ mon.listed /\ ~mon.stopped =>
          /\ mon.gone \subseteq DOMAIN mon.varying
          /\ \A n \in Namespaces : ~Waits(mon.notif, n) =>
                (n \in DOMAIN mon.varying <=> n \in mon.store \union mon.gone)
          /\ Tells(mon.notif, mon.store)

\* Every informer emits events, except in the window.
Loud(mon) ==
    /\ \A i \in DOMAIN mon.fixed : mon.fixed[i].enabled
    /\ \A n \in DOMAIN mon.varying :
          \/ mon.varying[n].enabled
          \/ mon.varying[n].state = "failed"
          \/ mon.cb.pc = "stored" /\ mon.cb.ns = n
          \/ n \in mon.missed

AllLive == \A m \in DOMAIN mons : Lives(mons[m])
AllFollow == \A m \in DOMAIN mons : Follows(mons[m])
AllLoud == \A m \in DOMAIN mons :
    mons[m].eventsEnabled \/ (worker.pc = "flag" /\ worker.mon = m) => Loud(mons[m])

\* What was given is what the cache holds; what is being read is not there yet.
Cached ==
    /\ \A x \in given : x[2] \in DOMAIN cache /\ cache[x[2]] = x[3]
    /\ worker.pc = "get" => From \notin DOMAIN cache

\* The steps of monitor.Start before the one of the namespace informer, and what they make
\* of a monitor.
Opens == MonitorStart \/ StartStatic \/ StartVarying
Opened(r) ==
    {Restarted(r)} \union {StartedFixed(r, i) : i \in DOMAIN r.fixed}
        \union {StartedVarying(r, n) : n \in DOMAIN r.varying}

\* The end of a poll of FactoryStore.Start.
PollEnds == ObjectsListed \/ PollCancelled

IInv == TypeOK /\ Held /\ Indexed /\ Enabling /\ AllLive /\ AllFollow /\ AllLoud /\ Cached

-----------------------------------------------------------------------------
(* Types.                                                                  *)

\* A sequence with another element at one place.
LEMMA Replaced ==
    ASSUME NEW S, NEW s \in Seq(S), NEW i \in 1..Len(s), NEW x \in S
    PROVE  /\ [s EXCEPT ![i] = x] \in Seq(S) /\ Len([s EXCEPT ![i] = x]) = Len(s)
           /\ [s EXCEPT ![i] = x][i] = x
           /\ \A j \in 1..Len(s) : j # i => [s EXCEPT ![i] = x][j] = s[j]
  OBVIOUS

\* A function on an interval is a sequence.
LEMMA ListType ==
    ASSUME NEW S, NEW n \in Nat, NEW f \in [1..n -> S]
    PROVE  f \in Seq(S) /\ Len(f) = n
  OBVIOUS

\* What the informers by namespace are.
LEMMA VaryingType ==
    ASSUME NEW v
    PROVE  v \in Varying <=> DOMAIN v \subseteq Namespaces /\ v \in [DOMAIN v -> Informer]
  BY DEF Varying

LEMMA NoInformers == <<>> \in Varying
<1>1. <<>> \in Seq(Informer) /\ Len(<<>>) = 0 /\ DOMAIN <<>> = {}
  OBVIOUS
<1>2. <<>> \in [1..0 -> Informer] /\ 1..0 = {}
  BY <1>1
<1> QED
  BY <1>1, <1>2, VaryingType

LEMMA InformerTypes ==
    /\ Created \in Informer /\ Failed \in Informer /\ Created \in Static
    /\ \A i \in Informer : Started(i) \in Informer /\ Enabled(i) \in Informer
    /\ \A i \in Static : Started(i) \in Static /\ Enabled(i) \in Static
  BY DEF Created, Failed, Informer, Static, Started, Enabled

\* The bindings are finitely many.
LEMMA FiniteBindings == IsFiniteSet(Bindings)
<1>1. Len(BindingSeq) \in Nat /\ DOMAIN BindingSeq = 1..Len(BindingSeq)
  BY BindingSeqAssumption
<1>2. BindingSeq \in Surjection(1..Len(BindingSeq), Bindings)
  <2>1. BindingSeq \in [1..Len(BindingSeq) -> Bindings]
    BY BindingSeqAssumption
  <2>2. \A b \in Bindings : \E i \in 1..Len(BindingSeq) : BindingSeq[i] = b
    BY <1>1 DEF Bindings, Range
  <2> QED
    BY <2>1, <2>2 DEF Surjection
<1>3. IsFiniteSet(1..Len(BindingSeq))
  BY <1>1, FS_Interval
<1> QED
  BY <1>2, <1>3, FS_Surjection

\* An order of a finite set is a sequence of its members that misses none.
LEMMA OrderType ==
    ASSUME NEW S, IsFiniteSet(S), NEW s \in SetToSeqs(S)
    PROVE  /\ s \in Seq(S) /\ s \in [1..Cardinality(S) -> S] /\ Cardinality(S) \in Nat
           /\ \A x \in S : \E i \in 1..Cardinality(S) : s[i] = x
<1>1. Cardinality(S) \in Nat
  BY FS_CardinalityType
<1> DEFINE D == 1..Cardinality(S)
<1>2. s \in [D -> S] /\ \A i, j \in D : i # j => s[i] # s[j]
  BY DEF SetToSeqs
<1>3. s \in Seq(S)
  BY <1>1, <1>2, ListType
<1>4. s \in Injection(D, S)
  BY <1>2 DEF Injection, IsInjective
<1>5. Cardinality(D) = Cardinality(S)
  BY <1>1, FS_Interval
<1>6. s \in Surjection(D, S)
  BY <1>4, <1>5, FS_Injection
<1> QED
  BY <1>1, <1>2, <1>3, <1>6 DEF Surjection

\* A monitor that changes stays a monitor.
LEMMA MonitorTypes ==
    ASSUME NEW r \in Monitor, cluster \subseteq Namespaces
    PROVE  /\ \A t \in Opened(r) : t \in Monitor
           /\ StartedMonitor(r) \in Monitor /\ EnabledInformers(r) \in Monitor
           /\ EnabledFuture(r) \in Monitor /\ Cancelled(r) \in Monitor /\ Stopped(r) \in Monitor
           /\ \A order \in SetToSeqs(cluster) : Listed(r, order) \in Monitor
           /\ \A n \in Namespaces : Appeared(r, n) \in Monitor /\ Disappeared(r, n) \in Monitor
<1>1. /\ DOMAIN r.varying \subseteq Namespaces /\ r.varying \in [DOMAIN r.varying -> Informer]
      /\ r.fixed \in Seq(Static) /\ r.notif \in Seq(Notice)
  BY VaryingType DEF Monitor
<1>2. [n \in DOMAIN r.varying |-> Enabled(r.varying[n])] \in Varying
  <2> DEFINE w == [n \in DOMAIN r.varying |-> Enabled(r.varying[n])]
  <2>1. DOMAIN w = DOMAIN r.varying /\ w \in [DOMAIN r.varying -> Informer]
    BY <1>1, InformerTypes
  <2> QED
    BY <2>1, <1>1, VaryingType
<1>3. [i \in DOMAIN r.fixed |-> Enabled(r.fixed[i])] \in Seq(Static)
  BY <1>1, InformerTypes
<1>b. ASSUME NEW t \in Opened(r) PROVE t \in Monitor
  <2>1. CASE t = Restarted(r)
    BY <2>1 DEF Monitor, Restarted
  <2>2. ASSUME NEW i \in DOMAIN r.fixed, t = StartedFixed(r, i) PROVE t \in Monitor
    <3>1. [r.fixed EXCEPT ![i] = Started(r.fixed[i])] \in Seq(Static)
      BY <1>1, InformerTypes, Replaced
    <3> QED
      BY <2>2, <3>1 DEF Monitor, StartedFixed
  <2>3. ASSUME NEW n \in DOMAIN r.varying, t = StartedVarying(r, n) PROVE t \in Monitor
    <3> DEFINE v == [r.varying EXCEPT ![n] = Started(r.varying[n])]
    <3>1. DOMAIN v = DOMAIN r.varying /\ v \in [DOMAIN r.varying -> Informer]
      BY <1>1, InformerTypes
    <3>2. v \in Varying /\ r.cancelNs \union {n} \in SUBSET Namespaces
      BY <1>1, <3>1, VaryingType DEF Monitor
    <3> QED
      BY <2>3, <3>2 DEF Monitor, StartedVarying
  <2> QED
    BY <2>1, <2>2, <2>3 DEF Opened
<1>4. <<>> \in Varying /\ <<>> \in Seq(Notice)
  BY NoInformers
<1>5. ASSUME NEW order \in SetToSeqs(cluster)
      PROVE  [i \in DOMAIN order |-> <<"add", order[i]>>] \in Seq(Notice)
  <2>1. IsFiniteSet(cluster)
    BY NamespacesAssumption, FS_Subset
  <2>2. /\ Cardinality(cluster) \in Nat /\ DOMAIN order = 1..Cardinality(cluster)
        /\ order \in [1..Cardinality(cluster) -> Namespaces]
    BY <2>1, OrderType
  <2>3. [i \in DOMAIN order |-> <<"add", order[i]>>] \in [1..Cardinality(cluster) -> Notice]
    BY <2>2 DEF Notice
  <2> QED
    BY <2>2, <2>3, ListType
<1>6. ASSUME NEW n \in Namespaces
      PROVE  /\ Append(r.notif, <<"add", n>>) \in Seq(Notice)
             /\ Append(r.notif, <<"delete", n>>) \in Seq(Notice)
  <2>1. <<"add", n>> \in Notice /\ <<"delete", n>> \in Notice
    BY DEF Notice
  <2> QED
    BY <1>1, <2>1
<1>7. StartedMonitor(r) \in Monitor /\ EnabledInformers(r) \in Monitor
  BY <1>1, <1>2, <1>3 DEF Monitor, StartedMonitor, EnabledInformers
<1>8. EnabledFuture(r) \in Monitor /\ Cancelled(r) \in Monitor
  BY DEF Monitor, EnabledFuture, Cancelled
<1>a. Stopped(r) \in Monitor
  BY <1>4 DEF Monitor, Stopped
<1>9. \A order \in SetToSeqs(cluster) : Listed(r, order) \in Monitor
  BY <1>1, <1>5 DEF Monitor, Listed
<1>10. \A n \in Namespaces : Appeared(r, n) \in Monitor /\ Disappeared(r, n) \in Monitor
  BY <1>1, <1>6 DEF Monitor, Appeared, Disappeared
<1> QED
  BY <1>b, <1>7, <1>8, <1>a, <1>9, <1>10

\* A monitor that is called back stays a monitor.
LEMMA CallbackTypes ==
    ASSUME NEW r \in Monitor
    PROVE  /\ r.notif # <<>> => /\ Head(r.notif) \in Notice /\ Head(r.notif)[2] \in Namespaces
                                /\ Taken(r) \in Monitor
                                /\ \A n \in Namespaces : Removed(r, n) \in Monitor
                                /\ \A n \in Namespaces, new \in {Created, Failed} :
                                      Stored(r, n, new) \in Monitor
           /\ \A n \in DOMAIN r.varying, u \in BOOLEAN : Begun(r, n, u) \in Monitor
           /\ [r EXCEPT !.cb = NoCallback] \in Monitor
<1>1. /\ DOMAIN r.varying \subseteq Namespaces /\ r.varying \in [DOMAIN r.varying -> Informer]
      /\ r.notif \in Seq(Notice)
  BY VaryingType DEF Monitor
<1>2. r.notif # <<>> => Head(r.notif) \in Notice /\ Tail(r.notif) \in Seq(Notice)
  <2> HIDE DEF Notice
  <2> QED
    BY <1>1
<1>3. \A x \in Notice : x[2] \in Namespaces
  BY DEF Notice
<1>4. ASSUME r.notif # <<>> PROVE Taken(r) \in Monitor
  BY <1>2, <1>4 DEF Monitor, Taken
<1>5. ASSUME r.notif # <<>>, NEW n \in Namespaces PROVE Removed(r, n) \in Monitor
  <2> DEFINE v == [x \in DOMAIN r.varying \ {n} |-> r.varying[x]]
  <2>1. DOMAIN v \subseteq Namespaces /\ v \in [DOMAIN v -> Informer]
    BY <1>1
  <2>2. v \in Varying
    BY <2>1, VaryingType
  <2> QED
    BY <1>2, <1>5, <2>2 DEF Monitor, Removed
<1>6. ASSUME r.notif # <<>>, NEW n \in Namespaces, NEW new \in {Created, Failed}
      PROVE  Stored(r, n, new) \in Monitor
  <2> DEFINE v == [x \in DOMAIN r.varying \union {n} |-> IF x = n THEN new ELSE r.varying[x]]
  <2>1. DOMAIN v \subseteq Namespaces /\ v \in [DOMAIN v -> Informer]
    BY <1>1, InformerTypes
  <2>2. v \in Varying
    BY <2>1, VaryingType
  <2> QED
    BY <1>2, <1>6, <2>2 DEF Monitor, Stored
<1>7. ASSUME NEW n \in DOMAIN r.varying, NEW u \in BOOLEAN PROVE Begun(r, n, u) \in Monitor
  <2> DEFINE i == r.varying[n]
             j == Started(IF r.eventsEnabled THEN Enabled(i) ELSE i)
             v == [x \in DOMAIN r.varying |-> IF x = n THEN j ELSE r.varying[x]]
  <2>1. j \in Informer
    BY <1>1, InformerTypes
  <2>2. v \in Varying
    <3> HIDE DEF j
    <3>1. DOMAIN v = DOMAIN r.varying /\ v \in [DOMAIN r.varying -> Informer]
      BY <1>1, <2>1
    <3> QED
      BY <1>1, <3>1, VaryingType
  <2> HIDE DEF v
  <2> DEFINE c == IF i.state = "failed" THEN NoCallback ELSE [pc |-> "poll", ns |-> n]
  <2>3. c \in [pc : {"idle", "stored", "poll"}, ns : Namespaces \union {None}]
    BY <1>1 DEF NoCallback
  <2> DEFINE s == IF u /\ ~i.enabled THEN r.missed \union {n} ELSE r.missed \ {n}
  <2>4. Begun(r, n, u) = [r EXCEPT !.cb = c, !.cancelNs = @ \union {n}, !.varying = v, !.missed = s]
    BY DEF Begun, v, Monitor
  <2>5. s \in SUBSET Namespaces
    BY <1>1 DEF Monitor
  <2> HIDE DEF s, c
  <2>6. [r EXCEPT !.cb = c, !.cancelNs = @ \union {n}, !.varying = v, !.missed = s] \in Monitor
    BY <1>1, <2>2, <2>3, <2>5 DEF Monitor
  <2> QED
    BY <2>4, <2>6
<1>8. [r EXCEPT !.cb = NoCallback] \in Monitor
  BY DEF Monitor, NoCallback
<1> QED
  BY <1>2, <1>3, <1>4, <1>5, <1>6, <1>7, <1>8

\* A new monitor.
LEMMA NewMonitorType ==
    ASSUME cluster \subseteq Namespaces, NEW b \in Bindings, NEW r \in CreateInformers(b)
    PROVE  /\ r \in Monitor /\ r.id = b
           /\ ~r.started /\ ~r.cancelled /\ ~r.stopped /\ ~r.listed /\ ~r.eventsEnabled
           /\ r.notif = <<>> /\ r.cb.pc = "idle" /\ r.cancelNs = {}
<1>1. <<>> \in Varying /\ \A v \in [cluster -> {Created, Failed}] : v \in Varying
  BY VaryingType, InformerTypes, NoInformers
<1>2. <<Created>> \in Seq(Static) /\ <<>> \in Seq(Static)
  BY InformerTypes
<1>3. \E selects \in BOOLEAN, fixed \in Seq(Static), varying \in Varying :
          r = NewMonitor(b, selects, fixed, varying)
  BY <1>1, <1>2 DEF CreateInformers
<1> QED
  BY <1>3 DEF NewMonitor, Monitor, NoCallback

-----------------------------------------------------------------------------
(* Steps: what they change.                                                *)

\* A binding the worker or the other goroutine is at.
LEMMA HeadType ==
    ASSUME TypeOK
    PROVE  /\ worker.pc \notin {"idle", "snapshot", "get"} => Head1 \in Bindings
           /\ other.pc # "idle" => Head(other.todo) \in Bindings
  BY DEF TypeOK, IsControl, Head1

\* A monitor that is replaced by another value.
LEMMA Update ==
    ASSUME TypeOK, NEW m \in 1..Len(mons), NEW r \in Monitor, mons' = [mons EXCEPT ![m] = r]
    PROVE  /\ mons' \in Seq(Monitor) /\ Len(mons') = Len(mons) /\ DOMAIN mons' = 1..Len(mons)
           /\ mons'[m] = r
           /\ \A j \in 1..Len(mons) : j # m => mons'[j] = mons[j]
<1>1. mons \in Seq(Monitor)
  BY DEF TypeOK
<1> HIDE DEF Monitor
<1> QED
  BY <1>1, Replaced

\* A monitor that is added.
LEMMA Added ==
    ASSUME TypeOK, NEW b \in Bindings, AddMonitor(b)
    PROVE  /\ mons' \in Seq(Monitor) /\ Len(mons) \in Nat /\ Len(mons') = Len(mons) + 1
           /\ DOMAIN mons = 1..Len(mons) /\ DOMAIN mons' = 1..(Len(mons) + 1)
           /\ \A j \in 1..Len(mons) : mons'[j] = mons[j]
           /\ mons'[Len(mons) + 1] \in CreateInformers(b)
           /\ index' \in [Bindings -> 0..Len(mons')]
           /\ index'[b] = Len(mons) + 1
           /\ \A c \in Bindings : c # b => index'[c] = index[c]
<1>1. PICK new \in CreateInformers(b) : mons' = Append(mons, new)
  BY DEF AddMonitor
<1>2. index' = [index EXCEPT ![b] = Len(mons) + 1]
  BY DEF AddMonitor
<1>3. new \in Monitor
  BY NewMonitorType DEF TypeOK
<1>4. mons \in Seq(Monitor) /\ index \in [Bindings -> 0..Len(mons)]
  BY DEF TypeOK
<1> HIDE DEF Monitor
<1>5. /\ mons' \in Seq(Monitor) /\ Len(mons) \in Nat /\ Len(mons') = Len(mons) + 1
      /\ DOMAIN mons = 1..Len(mons) /\ DOMAIN mons' = 1..(Len(mons) + 1)
      /\ \A j \in 1..Len(mons) : mons'[j] = mons[j]
      /\ mons'[Len(mons) + 1] = new
  BY <1>1, <1>3, <1>4
<1>6. /\ index' \in [Bindings -> 0..Len(mons')]
      /\ index'[b] = Len(mons) + 1
      /\ \A c \in Bindings : c # b => index'[c] = index[c]
  <2>1. \A c \in Bindings : index[c] \in 0..(Len(mons) + 1)
    BY <1>4, <1>5
  <2> QED
    BY <1>2, <1>4, <1>5, <2>1
<1> QED
  BY <1>1, <1>5, <1>6

\* What the tables of the bindings are concerned with.
Same(r, s) == /\ r.id = s.id /\ r.started = s.started /\ r.cancelled = s.cancelled
              /\ r.eventsEnabled = s.eventsEnabled

\* The namespace informer and its callbacks change one monitor, and of it nothing the
\* controller and the manager look at.
LEMMA NamespaceStep ==
    ASSUME TypeOK, AllLive, NEW m \in DOMAIN mons, Namespace(m) \/ Callback(m)
    PROVE  /\ m \in 1..Len(mons)
           /\ \E r \in Monitor : mons' = [mons EXCEPT ![m] = r] /\ Same(r, mons[m])
           /\ OnlyMonitors
<1>1. m \in 1..Len(mons) /\ mons[m] \in Monitor /\ cluster \subseteq Namespaces
  BY DEF TypeOK
<1>2. OnlyMonitors
  BY DEF Namespace, Callback, NamespaceList, NamespaceWatch, NamespaceInformerStop,
         OnAdd, OnAddStart, OnAddReturns, OnDelete
<1>3. CASE NamespaceList(m)
  <2>1. PICK order \in SetToSeqs(cluster) : mons' = [mons EXCEPT ![m] = Listed(mons[m], order)]
    BY <1>3 DEF NamespaceList
  <2>2. Listed(mons[m], order) \in Monitor /\ Same(Listed(mons[m], order), mons[m])
    <3>1. Same(Listed(mons[m], order), mons[m])
      BY <1>1 DEF Same, Listed, Monitor
    <3> QED
      BY <1>1, <3>1, MonitorTypes
  <2> QED
    BY <1>1, <1>2, <2>1, <2>2
<1>4. CASE NamespaceWatch(m)
  <2>1. PICK n \in Namespaces : \/ mons' = [mons EXCEPT ![m] = Appeared(mons[m], n)]
                                \/ mons' = [mons EXCEPT ![m] = Disappeared(mons[m], n)]
    BY <1>1, <1>4 DEF NamespaceWatch, Monitor
  <2>2. /\ Appeared(mons[m], n) \in Monitor /\ Same(Appeared(mons[m], n), mons[m])
        /\ Disappeared(mons[m], n) \in Monitor /\ Same(Disappeared(mons[m], n), mons[m])
    <3>1. Same(Appeared(mons[m], n), mons[m])
      BY <1>1 DEF Same, Appeared, Monitor
    <3>2. Same(Disappeared(mons[m], n), mons[m])
      BY <1>1 DEF Same, Disappeared, Monitor
    <3> QED
      BY <1>1, <3>1, <3>2, MonitorTypes
  <2> QED
    BY <1>1, <1>2, <2>1, <2>2
<1>5. CASE NamespaceInformerStop(m)
  <2>1. Stopped(mons[m]) \in Monitor /\ Same(Stopped(mons[m]), mons[m])
    BY <1>1, MonitorTypes DEF Same, Stopped, Monitor
  <2> QED
    BY <1>1, <1>2, <1>5, <2>1 DEF NamespaceInformerStop
<1> DEFINE n == Head(mons[m].notif)[2]
<1>6. CASE OnAdd(m)
  <2>1. mons[m].notif # <<>>
    BY <1>6 DEF OnAdd, Notified
  <2>2. n \in Namespaces /\ Taken(mons[m]) \in Monitor /\ Same(Taken(mons[m]), mons[m])
    BY <1>1, <2>1, CallbackTypes DEF Same, Taken, Monitor
  <2>3. \A new \in {Created, Failed} :
            Stored(mons[m], n, new) \in Monitor /\ Same(Stored(mons[m], n, new), mons[m])
    <3>1. \A new \in {Created, Failed} : Stored(mons[m], n, new) \in Monitor
      BY <1>1, <2>1, <2>2, CallbackTypes
    <3> HIDE DEF n
    <3>2. \A new \in {Created, Failed} : Same(Stored(mons[m], n, new), mons[m])
      BY <1>1 DEF Same, Stored, Monitor
    <3> QED
      BY <3>1, <3>2
  <2> QED
    BY <1>1, <1>2, <1>6, <2>2, <2>3 DEF OnAdd
<1>7. CASE OnAddStart(m)
  <2>1. mons[m].cb.ns \in DOMAIN mons[m].varying
    BY <1>7 DEF OnAddStart, AllLive, Lives
  <2> DEFINE u == worker.pc = "flag" /\ worker.mon = m
             r == Begun(mons[m], mons[m].cb.ns, u)
  <2>2. mons' = [mons EXCEPT ![m] = r]
    BY <1>7 DEF OnAddStart
  <2>3. u \in BOOLEAN
    OBVIOUS
  <2> HIDE DEF u
  <2>4. r \in Monitor
    BY <1>1, <2>1, <2>3, CallbackTypes
  <2>5. Same(r, mons[m])
    BY <1>1 DEF Same, Begun, Monitor
  <2> QED
    BY <1>1, <1>2, <2>2, <2>4, <2>5
<1>8. CASE OnDelete(m)
  <2>1. mons[m].notif # <<>>
    BY <1>8 DEF OnDelete, Notified
  <2>2. n \in Namespaces /\ Taken(mons[m]) \in Monitor /\ Same(Taken(mons[m]), mons[m])
    BY <1>1, <2>1, CallbackTypes DEF Same, Taken, Monitor
  <2>3. Removed(mons[m], n) \in Monitor
    BY <1>1, <2>1, <2>2, CallbackTypes
  <2>4. Same(Removed(mons[m], n), mons[m])
    <3> HIDE DEF n
    <3> QED
      BY <1>1 DEF Same, Removed, Monitor
  <2>5. \/ mons' = [mons EXCEPT ![m] = Removed(mons[m], n)]
        \/ mons' = [mons EXCEPT ![m] = Taken(mons[m])]
    BY <1>8 DEF OnDelete
  <2> QED
    BY <1>1, <1>2, <2>2, <2>3, <2>4, <2>5
<1>9. CASE OnAddReturns(m)
  <2>1. /\ [mons[m] EXCEPT !.cb = NoCallback] \in Monitor
        /\ Same([mons[m] EXCEPT !.cb = NoCallback], mons[m])
    BY <1>1, CallbackTypes DEF Same, Monitor
  <2> QED
    BY <1>1, <1>2, <1>9, <2>1 DEF OnAddReturns
<1> QED
  BY <1>3, <1>4, <1>5, <1>6, <1>7, <1>8, <1>9 DEF Namespace, Callback

-----------------------------------------------------------------------------
(* Type correctness.                                                       *)

\* The tables a step of the control of a goroutine leaves alone.
Tables == <<cluster, links, index, mons, hasKind, infos, overlap>>

\* The control state of a goroutine.
LEMMA Control ==
    ASSUME NEW P, NEW p \in P, NEW o, NEW t, NEW i \in 0..Len(mons),
           p \notin {"idle", "snapshot", "get"} => t \in Seq(Bindings) /\ t # <<>>,
           NEW g, g = [pc |-> p, op |-> o, todo |-> t, mon |-> i]
    PROVE  IsControl(g, P) /\ g.op = o
  BY DEF IsControl

\* The rest of a list that has more than one element.
LEMMA TailType ==
    ASSUME NEW S, NEW s \in Seq(S), Len(s) > 1
    PROVE  Tail(s) \in Seq(S) /\ Tail(s) # <<>>
<1>1. s # <<>> /\ Len(s) \in Nat
  OBVIOUS
<1>2. Tail(s) \in Seq(S) /\ Len(Tail(s)) = Len(s) - 1
  BY <1>1
<1>3. Len(Tail(s)) # 0
  BY <1>1, <1>2
<1>4. \A t \in Seq(S) : Len(t) # 0 => t # <<>>
  OBVIOUS
<1> QED
  BY <1>2, <1>3, <1>4, Zenon

LEMMA InitTypeOK == Init => TypeOK
<1> SUFFICES ASSUME Init PROVE TypeOK
  OBVIOUS
<1>1. <<>> \in Seq(Monitor) /\ Len(<<>>) = 0
  OBVIOUS
<1> QED
  <2>1. mons \in Seq(Monitor) /\ Len(mons) = 0
    BY <1>1 DEF Init
  <2>2. IsControl(worker, WorkerPlaces) /\ IsControl(other, {"idle", "read", "cancel", "delete"})
    BY <2>1 DEF Init, IsControl, NothingUnderWay, None, WorkerPlaces
  <2>3. index \in [Bindings -> 0..Len(mons)]
    BY <2>1 DEF Init, None
  <2> QED
    BY <2>1, <2>2, <2>3 DEF Init, TypeOK, NothingUnderWay

\* What monitor.Start does to its monitor.
LEMMA OpensChange ==
    ASSUME Opens
    PROVE  \E r \in Opened(mons[worker.mon]) : mons' = [mons EXCEPT ![worker.mon] = r]
  BY DEF Opens, MonitorStart, StartStatic, StartVarying, Opened

LEMMA TypeStep == TypeOK /\ Held /\ AllLive /\ [Next]_vars => TypeOK'
<1> SUFFICES ASSUME TypeOK, Held, AllLive, [Next]_vars PROVE TypeOK'
  OBVIOUS
<1>0. /\ mons \in Seq(Monitor) /\ Len(mons) \in Nat /\ cluster \subseteq Namespaces
      /\ links \subseteq Bindings /\ index \in [Bindings -> 0..Len(mons)]
      /\ \A m \in 1..Len(mons) : mons[m] \in Monitor
  BY DEF TypeOK
<1>b. BindingSeq \in Seq(Bindings) /\ BindingSeq # <<>>
  BY BindingSeqAssumption
<1> HIDE DEF Monitor
<1>1. CASE EnableKubernetesBindings
  <2>1. worker' = [pc |-> "check", op |-> "enable", todo |-> BindingSeq, mon |-> 0]
    BY <1>1 DEF EnableKubernetesBindings, NothingUnderWay, None
  <2>2. "check" \in WorkerPlaces /\ 0 \in 0..Len(mons)
    BY <1>0 DEF WorkerPlaces
  <2>3. IsControl(worker', WorkerPlaces) /\ worker'.op = "enable"
    BY <1>b, <2>1, <2>2, Control
  <2>4. UNCHANGED <<cluster, links, index, mons, hasKind, other>> /\ infos' = {} /\ overlap' \in BOOLEAN
    BY <1>1 DEF EnableKubernetesBindings, kube
  <2> QED
    BY <2>3, <2>4 DEF TypeOK, IsControl
\* Steps that change the control of the worker only.
<1>2. ASSUME UNCHANGED Tables, other' = other, IsControl(worker', WorkerPlaces),
             worker'.op \in {"none", "enable", "update"}
      PROVE  TypeOK'
  BY <1>2 DEF TypeOK, Tables, IsControl
<1>3. IsControl(NothingUnderWay, WorkerPlaces) /\ NothingUnderWay.op = "none"
  BY <1>0 DEF IsControl, NothingUnderWay, None, WorkerPlaces
<1>4. CASE StartMonitor \/ PollEnds \/ StartReturns \/ UpdateSend
  <2>1. UNCHANGED Tables /\ other' = other
    BY <1>4 DEF StartMonitor, PollEnds, ObjectsListed, PollCancelled, StartReturns, UpdateSend, Tables, kube, hook
  <2>2. worker' = NothingUnderWay \/ (IsControl(worker', WorkerPlaces) /\ worker'.op = worker.op)
    BY <1>4, HeadType DEF StartMonitor, PollEnds, ObjectsListed, PollCancelled, StartReturns, UpdateSend, Goes, TypeOK, IsControl, WorkerPlaces, None
  <2> QED
    BY <1>2, <1>3, <2>1, <2>2 DEF TypeOK
<1>5. CASE UseCache \/ SnapshotHas \/ SnapshotGet
  <2>1. UNCHANGED Tables /\ other' = other
    BY <1>5 DEF UseCache, SnapshotHas, SnapshotGet, Tables, kube
  <2>2. \/ worker' = NothingUnderWay
        \/ worker' = [worker EXCEPT !.pc = "get"]
        \/ worker' = [worker EXCEPT !.pc = "snapshot", !.todo = Tail(@)]
        \/ worker' = [worker EXCEPT !.pc = "unlock", !.todo = BindingSeq]
    BY <1>5 DEF UseCache, SnapshotHas, SnapshotGet, GiveSnapshot, Goes
  <2>3. worker' = NothingUnderWay \/ (IsControl(worker', WorkerPlaces) /\ worker'.op = worker.op)
    BY <2>2, <1>b DEF TypeOK, IsControl, WorkerPlaces
  <2> QED
    BY <1>2, <1>3, <2>1, <2>3 DEF TypeOK
<1>6. CASE EnableHandleEvent
  <2>1. worker.todo \in Seq(Bindings) /\ Head1 \in Bindings
    BY <1>6, HeadType DEF EnableHandleEvent, TypeOK, IsControl
  <2>2. IsControl(worker', WorkerPlaces) /\ worker'.op = worker.op
    <3> HIDE DEF SnapshotNames
    <3>0. worker = [pc |-> worker.pc, op |-> worker.op, todo |-> worker.todo, mon |-> worker.mon]
      BY DEF TypeOK, IsControl
    <3>1. /\ Len(worker.todo) > 1 =>
             worker' = [pc |-> "check", op |-> worker.op, todo |-> Tail(worker.todo), mon |-> 0]
          /\ ~(Len(worker.todo) > 1) =>
             worker' = [pc |-> "snapshot", op |-> worker.op, todo |-> SnapshotNames, mon |-> 0]
      BY <1>6, <3>0 DEF EnableHandleEvent, None
    <3>2. "check" \in WorkerPlaces /\ "snapshot" \in WorkerPlaces /\ 0 \in 0..Len(mons)
      BY <1>0 DEF WorkerPlaces
    <3>3. CASE Len(worker.todo) > 1
      <4>1. Tail(worker.todo) \in Seq(Bindings) /\ Tail(worker.todo) # <<>>
        BY <2>1, <3>3, TailType
      <4>0. worker' = [pc |-> "check", op |-> worker.op, todo |-> Tail(worker.todo), mon |-> 0]
        BY <3>1, <3>3
      <4>2. /\ worker' = [pc |-> worker'.pc, op |-> worker'.op, todo |-> worker'.todo, mon |-> worker'.mon]
            /\ worker'.pc = "check" /\ worker'.op = worker.op /\ worker'.mon = 0
        BY <4>0
      <4>3. worker'.todo \in Seq(Bindings) /\ worker'.todo # <<>>
        BY <4>0, <4>1
      <4> QED
        BY <3>2, <4>2, <4>3 DEF IsControl
    <3>4. CASE ~(Len(worker.todo) > 1)
      BY <3>1, <3>2, <3>4, Control
    <3> QED
      BY <3>3, <3>4
  <2> QED
    BY <1>6, <2>1, <2>2 DEF EnableHandleEvent, TypeOK, IsControl, kube
<1>7. CASE \E b \in Bindings : UpdateMonitor(b)
  <2>1. PICK b \in Bindings : UpdateMonitor(b)
    BY <1>7
  <2>2. UNCHANGED Tables /\ other' = other
    BY <2>1 DEF UpdateMonitor, Tables, kube, hook
  <2>3. IsControl(worker', WorkerPlaces) /\ worker'.op = "update"
    BY <2>1, <1>0 DEF UpdateMonitor, TypeOK, IsControl, WorkerPlaces
  <2> QED
    BY <1>2, <2>2, <2>3
<1>8. CASE SetLink
  <2>1. Head1 \in Bindings
    BY <1>8, HeadType DEF SetLink, Goes
  <2>2. IsControl(worker', WorkerPlaces) /\ worker'.op = worker.op
    BY <1>8 DEF SetLink, Goes, TypeOK, IsControl, WorkerPlaces
  <2> QED
    BY <1>8, <2>1, <2>2 DEF SetLink, TypeOK, IsControl, kube, hook
\* Steps of the worker that change one monitor.
<1>9. ASSUME NEW m \in 1..Len(mons), NEW r \in Monitor, mons' = [mons EXCEPT ![m] = r],
             IsControl(worker', WorkerPlaces), worker'.op \in {"none", "enable", "update"},
             UNCHANGED <<cluster, links, other, overlap>>, hasKind' \subseteq Bindings, infos' \subseteq Bindings,
             index' \in [Bindings -> 0..Len(mons)]
      PROVE  TypeOK'
  <2>1. mons' \in Seq(Monitor) /\ Len(mons') = Len(mons)
    BY <1>9, Update
  <2> QED
    BY <1>9, <2>1 DEF TypeOK, IsControl
<1>10. CASE Opens \/ StartNamespaceInformer
  <2>1. worker.mon \in 1..Len(mons)
    BY <1>0, <1>10 DEF Opens, MonitorStart, StartStatic, StartVarying, StartNamespaceInformer, Goes, Held,
                       TypeOK, IsControl, None
  <2>2. PICK r \in Opened(mons[worker.mon]) \union {StartedMonitor(mons[worker.mon])} :
            mons' = [mons EXCEPT ![worker.mon] = r]
    BY <1>10, OpensChange DEF StartNamespaceInformer
  <2>3. r \in Monitor
    BY <1>0, <2>1, MonitorTypes
  <2>4. IsControl(worker', WorkerPlaces) /\ worker'.op = worker.op
    <3>1. \E p \in {"begin", "poll", "synced"} : worker' = [worker EXCEPT !.pc = p] /\ worker.pc \in {"run", "begin"}
      BY <1>10 DEF Opens, MonitorStart, StartStatic, StartVarying, StartNamespaceInformer, Goes
    <3> QED
      BY <3>1 DEF TypeOK, IsControl, WorkerPlaces
  <2>5. /\ UNCHANGED <<cluster, links, other, overlap, index>> /\ hasKind' = hasKind /\ infos' = infos
    BY <1>10 DEF Opens, MonitorStart, StartStatic, StartVarying, StartNamespaceInformer, kube, hook
  <2> QED
    BY <1>0, <1>9, <2>1, <2>2, <2>3, <2>4, <2>5 DEF TypeOK
<1>11. ASSUME NextUnlock, worker.pc \in {"unlock", "flag"}
       PROVE  /\ IsControl(worker', WorkerPlaces) /\ worker'.op \in {"none", "enable", "update"}
              /\ infos' \subseteq Bindings
  <2>1. CASE Len(worker.todo) > 1
    <3>1. worker' = [pc |-> "unlock", op |-> worker.op, todo |-> Tail(worker.todo), mon |-> 0]
      BY <1>11, <2>1 DEF NextUnlock, TypeOK, IsControl, None
    <3>2. "unlock" \in WorkerPlaces /\ 0 \in 0..Len(mons) /\ worker.todo \in Seq(Bindings)
      BY <1>0, <1>11 DEF WorkerPlaces, TypeOK, IsControl
    <3>3. IsControl(worker', WorkerPlaces) /\ worker'.op = worker.op
      <4>1. Tail(worker.todo) \in Seq(Bindings) /\ Tail(worker.todo) # <<>>
        BY <2>1, <3>2, TailType
      <4>2. /\ worker' = [pc |-> worker'.pc, op |-> worker'.op, todo |-> worker'.todo, mon |-> worker'.mon]
            /\ worker'.pc = "unlock" /\ worker'.op = worker.op /\ worker'.mon = 0
        BY <3>1
      <4>3. worker'.todo \in Seq(Bindings) /\ worker'.todo # <<>>
        BY <3>1, <4>1
      <4> QED
        BY <3>2, <4>2, <4>3 DEF IsControl
    <3> QED
      BY <1>11, <2>1, <3>3 DEF NextUnlock, hook, TypeOK
  <2>2. CASE ~(Len(worker.todo) > 1)
    BY <1>3, <1>11, <2>2 DEF NextUnlock
  <2> QED
    BY <2>1, <2>2
<1>12. CASE EnableKubeEventCb
  <2>1. worker.mon \in 1..Len(mons)
    BY <1>0, <1>12 DEF EnableKubeEventCb, Held, TypeOK, IsControl, None
  <2>2. EnabledFuture(mons[worker.mon]) \in Monitor /\ mons' = [mons EXCEPT ![worker.mon] = EnabledFuture(mons[worker.mon])]
    BY <1>0, <1>12, <2>1, MonitorTypes DEF EnableKubeEventCb
  <2> QED
    BY <1>9, <1>11, <1>12, <2>1, <2>2 DEF EnableKubeEventCb, TypeOK, kube, hook
<1>13. CASE UnlockEventsFor
  <2>0. Head1 \in Bindings
    BY <1>13, HeadType DEF UnlockEventsFor
  <2>1. CASE index[Head1] = None
    BY <1>11, <1>13, <2>1 DEF UnlockEventsFor, TypeOK, IsControl, kube
  <2>2. CASE index[Head1] # None
    <3>1. index[Head1] \in 1..Len(mons)
      BY <1>0, <2>0, <2>2 DEF None
    <3>2. EnabledInformers(mons[index[Head1]]) \in Monitor
      BY <1>0, <3>1, MonitorTypes
    <3>3. mons' = [mons EXCEPT ![index[Head1]] = EnabledInformers(mons[index[Head1]])]
      BY <1>13, <2>2 DEF UnlockEventsFor
    <3>4. IsControl(worker', WorkerPlaces) /\ worker'.op = worker.op
      <4>1. worker' = [pc |-> "flag", op |-> worker.op, todo |-> worker.todo, mon |-> index[Head1]]
        BY <1>13, <2>2 DEF UnlockEventsFor, TypeOK, IsControl
      <4>2. "flag" \in WorkerPlaces /\ index[Head1] \in 0..Len(mons)
            /\ worker.todo \in Seq(Bindings) /\ worker.todo # <<>>
        BY <1>13, <3>1 DEF UnlockEventsFor, WorkerPlaces, TypeOK, IsControl
      <4>3. /\ worker' = [pc |-> worker'.pc, op |-> worker'.op, todo |-> worker'.todo, mon |-> worker'.mon]
            /\ worker'.pc = "flag" /\ worker'.op = worker.op /\ worker'.mon = index[Head1]
            /\ worker'.todo = worker.todo
        BY <4>1
      <4> QED
        BY <4>2, <4>3 DEF IsControl
    <3>5. /\ UNCHANGED <<cluster, links, other, overlap>> /\ hasKind' \subseteq Bindings /\ infos' \subseteq Bindings
          /\ index' \in [Bindings -> 0..Len(mons)] /\ worker.op \in {"none", "enable", "update"}
      BY <1>13, <2>2 DEF UnlockEventsFor, TypeOK, kube, hook
    <3> DEFINE m == index[Head1]
               r == EnabledInformers(mons[m])
    <3>6. m \in 1..Len(mons) /\ r \in Monitor /\ mons' = [mons EXCEPT ![m] = r]
      BY <3>1, <3>2, <3>3
    <3> HIDE DEF m, r
    <3> QED
      BY <1>9, <3>4, <3>5, <3>6
  <2> QED
    BY <2>1, <2>2
<1>14. CASE UpdateStop
  <2>1. Head1 \in Bindings
    BY <1>14, HeadType DEF UpdateStop, Goes
  <2>2. hasKind' \subseteq Bindings /\ IsControl(worker', WorkerPlaces) /\ worker'.op = worker.op
    BY <1>14, <2>1 DEF UpdateStop, Goes, TypeOK, IsControl, WorkerPlaces
  <2>3. CASE worker.mon = None
    BY <1>14, <2>2, <2>3 DEF UpdateStop, TypeOK, IsControl, kube, hook
  <2>4. CASE worker.mon # None
    <3>1. worker.mon \in 1..Len(mons)
      BY <1>0, <2>4 DEF TypeOK, IsControl, None
    <3>2. Cancelled(mons[worker.mon]) \in Monitor /\ mons' = [mons EXCEPT ![worker.mon] = Cancelled(mons[worker.mon])]
      BY <1>0, <1>14, <2>4, <3>1, MonitorTypes DEF UpdateStop
    <3>3. index' \in [Bindings -> 0..Len(mons)]
      BY <1>0, <1>14, <2>1, <2>4 DEF UpdateStop, None
    <3> QED
      BY <1>9, <1>14, <2>2, <3>1, <3>2, <3>3 DEF UpdateStop, TypeOK, kube, hook
  <2> QED
    BY <2>3, <2>4
<1>15. CASE EnableCheck \/ UpdateAdd
  <2>1. Head1 \in Bindings /\ UNCHANGED <<cluster, links, hasKind, infos, other, overlap>>
    BY <1>15, HeadType DEF EnableCheck, UpdateAdd, Goes, kube, hook
  <2>2. \/ worker' = NothingUnderWay /\ UNCHANGED <<index, mons>>
        \/ Goes("check", "sync") /\ UNCHANGED <<index, mons>>
        \/ (Goes("check", "link") \/ Goes("add", "send")) /\ AddMonitor(Head1)
    BY <1>15 DEF EnableCheck, UpdateAdd
  <2>3. CASE (worker' = NothingUnderWay \/ Goes("check", "sync")) /\ UNCHANGED <<index, mons>>
    <3>1. worker' = NothingUnderWay \/ (IsControl(worker', WorkerPlaces) /\ worker'.op = worker.op)
      BY <2>3 DEF Goes, TypeOK, IsControl, WorkerPlaces
    <3> QED
      BY <1>2, <1>3, <2>1, <2>3, <3>1 DEF Tables, TypeOK
  <2>4. CASE (Goes("check", "link") \/ Goes("add", "send")) /\ AddMonitor(Head1)
    <3>1. mons' \in Seq(Monitor) /\ Len(mons') = Len(mons) + 1 /\ index' \in [Bindings -> 0..Len(mons')]
      BY <2>1, <2>4, Added
    <3>2. IsControl(worker, WorkerPlaces)' /\ worker'.op = worker.op
      <4>1. worker.mon \in 0..Len(mons')
        BY <1>0, <3>1 DEF TypeOK, IsControl
      <4>2. worker.todo \in Seq(Bindings) /\ worker.todo # <<>>
        BY <2>4 DEF Goes, TypeOK, IsControl
      <4>3. \E p \in {"link", "send"} : worker' = [worker EXCEPT !.pc = p]
        BY <2>4 DEF Goes
      <4> QED
        BY <4>1, <4>2, <4>3 DEF TypeOK, IsControl, WorkerPlaces
    <3>3. IsControl(other, {"idle", "read", "cancel", "delete"})'
      BY <1>0, <2>1, <3>1 DEF TypeOK, IsControl
    <3> QED
      BY <2>1, <3>1, <3>2, <3>3 DEF TypeOK
  <2> QED
    BY <2>2, <2>3, <2>4
\* The goroutine that disables.
<1>16. ASSUME UNCHANGED <<cluster, index, hasKind, infos, worker>>, links' \subseteq Bindings, overlap' \in BOOLEAN,
              mons' \in Seq(Monitor), Len(mons') = Len(mons),
              IsControl(other', {"idle", "read", "cancel", "delete"})
       PROVE  TypeOK'
  BY <1>16 DEF TypeOK, IsControl
<1>17. ASSUME NEW ids \in Seq(Bindings) PROVE IsControl(StopNext(ids), {"idle", "read", "cancel", "delete"})
  <2>1. CASE ids = <<>>
    BY <1>0, <2>1 DEF StopNext, NothingUnderWay, IsControl, None
  <2>2. CASE ids # <<>>
    <3> DEFINE g == StopNext(ids)
    <3>1. g = [pc |-> "read", op |-> "none", todo |-> ids, mon |-> 0]
      BY <2>2 DEF StopNext, NothingUnderWay, None
    <3> HIDE DEF g
    <3>2. 0 \in 0..Len(mons) /\ "read" \in {"idle", "read", "cancel", "delete"}
      BY <1>0
    <3>3. IsControl(g, {"idle", "read", "cancel", "delete"})
      BY <2>2, <3>1, <3>2 DEF IsControl
    <3> QED
      BY <3>3 DEF g
  <2> QED
    BY <2>1, <2>2
<1>18. CASE DisableKubernetesBindings
  <2>1. PICK order \in SetToSeqs(links) : other' = StopNext(order)
    BY <1>18 DEF DisableKubernetesBindings
  <2>2. IsFiniteSet(links)
    BY <1>0, FiniteBindings, FS_Subset
  <2>3. order \in Seq(links)
    BY <2>2, OrderType
  <2>4. order \in Seq(Bindings)
    BY <1>0, <2>3
  <2> QED
    BY <1>0, <1>16, <1>17, <1>18, <2>1, <2>4 DEF DisableKubernetesBindings, kube, hook
<1>19. CASE StopMonitor
  <2>1. other.todo \in Seq(Bindings) /\ other.todo # <<>> /\ Head(other.todo) \in Bindings
    BY <1>19, HeadType DEF StopMonitor, TypeOK, IsControl
  <2>2. Tail(other.todo) \in Seq(Bindings) /\ index[Head(other.todo)] \in 0..Len(mons)
    BY <1>0, <2>1
  <2>3. IsControl(other', {"idle", "read", "cancel", "delete"})
    <3>1. CASE index[Head(other.todo)] = None
      BY <1>17, <1>19, <2>2, <3>1 DEF StopMonitor
    <3>2. CASE index[Head(other.todo)] # None
      BY <1>19, <2>1, <2>2, <3>2 DEF StopMonitor, TypeOK, IsControl
    <3> QED
      BY <3>1, <3>2
  <2> QED
    BY <1>0, <1>16, <1>19, <2>3 DEF StopMonitor, TypeOK, kube, hook
<1>20. CASE MonitorStop
  <2>1. other.mon \in 1..Len(mons)
    BY <1>0, <1>20 DEF MonitorStop, Held, TypeOK, IsControl, None
  <2>2. Cancelled(mons[other.mon]) \in Monitor /\ mons' = [mons EXCEPT ![other.mon] = Cancelled(mons[other.mon])]
    BY <1>0, <1>20, <2>1, MonitorTypes DEF MonitorStop
  <2>3. mons' \in Seq(Monitor) /\ Len(mons') = Len(mons)
    BY <2>1, <2>2, Update
  <2>4. IsControl(other', {"idle", "read", "cancel", "delete"})
    BY <1>20 DEF MonitorStop, TypeOK, IsControl
  <2> QED
    BY <1>16, <1>20, <2>3, <2>4 DEF MonitorStop, TypeOK, kube, hook
<1>21. CASE StopMonitorDelete
  <2>1. other.todo \in Seq(Bindings) /\ other.todo # <<>> /\ Head(other.todo) \in Bindings
    BY <1>21, HeadType DEF StopMonitorDelete, TypeOK, IsControl
  <2>2. Tail(other.todo) \in Seq(Bindings)
    BY <2>1
  <2>3. index' \in [Bindings -> 0..Len(mons)]
    <3>1. index' = [index EXCEPT ![Head(other.todo)] = 0] /\ 0 \in 0..Len(mons)
      BY <1>0, <1>21 DEF StopMonitorDelete, None
    <3> QED
      BY <1>0, <2>1, <3>1
  <2>4. IsControl(other', {"idle", "read", "cancel", "delete"})
    BY <1>17, <1>21, <2>2 DEF StopMonitorDelete
  <2> QED
    BY <1>21, <2>3, <2>4 DEF StopMonitorDelete, TypeOK, IsControl, kube, hook
\* The others.
<1>22. CASE ReceiveEvent \/ UNCHANGED vars
  BY <1>22 DEF ReceiveEvent, vars, TypeOK, IsControl, kube, hook
<1>23. CASE ClusterChanges
  BY <1>0, <1>23 DEF ClusterChanges, TypeOK, IsControl, hook
<1>24. CASE \E m \in DOMAIN mons : Namespace(m) \/ Callback(m)
  <2>1. PICK m \in DOMAIN mons : Namespace(m) \/ Callback(m)
    BY <1>24
  <2>2. m \in 1..Len(mons) /\ OnlyMonitors /\ \E r \in Monitor : mons' = [mons EXCEPT ![m] = r]
    BY <2>1, NamespaceStep
  <2>3. mons' \in Seq(Monitor) /\ Len(mons') = Len(mons)
    BY <2>2, Update
  <2> QED
    BY <2>2, <2>3 DEF OnlyMonitors, TypeOK, IsControl, kube, hook
<1> QED
  BY <1>1, <1>4, <1>5, <1>6, <1>7, <1>8, <1>10, <1>12, <1>13, <1>14, <1>15, <1>18, <1>19, <1>20,
     <1>21, <1>22, <1>23, <1>24 DEF Next, WorkerSteps, OtherSteps, Opens, PollEnds

-----------------------------------------------------------------------------
(* Namespaces: what one monitor does with its notifications.               *)

\* A notification put at the end.
LEMMA AppendNotice ==
    ASSUME NEW s \in Seq(Notice), NEW x \in Notice, NEW store, NEW later, Tells(s, store),
           x[1] = "add" <=> x[2] \in later,
           \A n \in Namespaces : n # x[2] => (n \in later <=> n \in store)
    PROVE  /\ Tells(Append(s, x), later)
           /\ \A n : Waits(Append(s, x), n) <=> Waits(s, n) \/ n = x[2]
<1> DEFINE t == Append(s, x)
<1>1. /\ Len(s) \in Nat /\ DOMAIN s = 1..Len(s) /\ DOMAIN t = 1..(Len(s) + 1)
      /\ \A k \in 1..Len(s) : t[k] = s[k] /\ s[k] \in Notice
      /\ t[Len(s) + 1] = x
  <2> HIDE DEF Notice
  <2> QED
    OBVIOUS
<1>2. \A y \in Notice : y[2] \in Namespaces
  BY DEF Notice
<1> HIDE DEF t
<1>3. ASSUME NEW k \in DOMAIN t, IsLast(t, k) PROVE t[k][1] = "add" <=> t[k][2] \in later
  <2>1. CASE k = Len(s) + 1
    BY <1>1, <2>1
  <2>2. CASE k # Len(s) + 1
    <3>1. k \in 1..Len(s) /\ t[k] = s[k] /\ s[k][2] \in Namespaces
      BY <1>1, <1>2, <2>2
    <3>2. Len(s) + 1 \in DOMAIN t /\ Len(s) + 1 > k
      BY <1>1, <3>1
    <3>3. s[k][2] # x[2]
      BY <1>1, <1>3, <3>1, <3>2 DEF IsLast
    <3>4. IsLast(s, k)
      <4>1. ASSUME NEW l \in DOMAIN s, l > k PROVE s[l][2] # s[k][2]
        <5>1. l \in DOMAIN t /\ t[l] = s[l]
          BY <1>1
        <5> QED
          BY <1>3, <3>1, <4>1, <5>1 DEF IsLast
      <4> QED
        BY <4>1 DEF IsLast
    <3>5. s[k][1] = "add" <=> s[k][2] \in store
      BY <1>1, <3>1, <3>4 DEF Tells
    <3> QED
      BY <3>1, <3>3, <3>5
  <2> QED
    BY <2>1, <2>2
<1>4. Tells(t, later)
  BY <1>3 DEF Tells
<1>5. ASSUME NEW n PROVE Waits(t, n) <=> Waits(s, n) \/ n = x[2]
  <2>1. ASSUME Waits(t, n) PROVE Waits(s, n) \/ n = x[2]
    <3>1. PICK k \in DOMAIN t : t[k][2] = n
      BY <2>1 DEF Waits
    <3>2. k = Len(s) + 1 \/ k \in 1..Len(s)
      BY <1>1
    <3> QED
      BY <1>1, <3>1, <3>2 DEF Waits
  <2>2. ASSUME Waits(s, n) PROVE Waits(t, n)
    <3>1. PICK k \in DOMAIN s : s[k][2] = n
      BY <2>2 DEF Waits
    <3>2. k \in DOMAIN t /\ t[k][2] = n
      BY <1>1, <3>1
    <3> QED
      BY <3>2 DEF Waits
  <2>3. ASSUME n = x[2] PROVE Waits(t, n)
    <3>1. Len(s) + 1 \in DOMAIN t
      BY <1>1
    <3> QED
      BY <1>1, <2>3, <3>1 DEF Waits
  <2> QED
    BY <2>1, <2>2, <2>3
<1> QED
  BY <1>4, <1>5 DEF t

\* A notification taken from the front.
LEMMA TailNotice ==
    ASSUME NEW s \in Seq(Notice), s # <<>>, NEW store, Tells(s, store)
    PROVE  /\ Tells(Tail(s), store)
           /\ \A n : Waits(s, n) <=> Waits(Tail(s), n) \/ n = Head(s)[2]
           /\ ~Waits(Tail(s), Head(s)[2]) => (Head(s)[1] = "add" <=> Head(s)[2] \in store)
<1> DEFINE t == Tail(s)
           h == Head(s)
<1>1. /\ Len(s) \in Nat /\ Len(s) > 0 /\ DOMAIN s = 1..Len(s) /\ DOMAIN t = 1..(Len(s) - 1)
      /\ \A k \in 1..(Len(s) - 1) : t[k] = s[k + 1]
      /\ s[1] = h
  <2> HIDE DEF Notice
  <2> QED
    OBVIOUS
<1> HIDE DEF t, h
<1>2. ASSUME NEW l \in 2..Len(s) PROVE l - 1 \in DOMAIN t /\ t[l - 1] = s[l]
  <2>1. l - 1 \in 1..(Len(s) - 1) /\ (l - 1) + 1 = l
    BY <1>1
  <2> QED
    BY <1>1, <2>1
<1>3. ASSUME NEW k \in DOMAIN t, IsLast(t, k) PROVE t[k][1] = "add" <=> t[k][2] \in store
  <2>1. k \in Nat /\ k + 1 \in DOMAIN s /\ t[k] = s[k + 1]
    BY <1>1
  <2>2. ASSUME NEW l \in DOMAIN s, l > k + 1 PROVE s[l][2] # s[k + 1][2]
    <3>1. l \in 2..Len(s) /\ l - 1 > k
      BY <1>1, <2>1, <2>2
    <3> QED
      BY <1>2, <1>3, <2>1, <3>1 DEF IsLast
  <2>3. IsLast(s, k + 1)
    BY <2>2 DEF IsLast
  <2> QED
    BY <2>1, <2>3 DEF Tells
<1>4. Tells(t, store)
  BY <1>3 DEF Tells
<1>5. ASSUME NEW n PROVE Waits(s, n) <=> Waits(t, n) \/ n = h[2]
  <2>1. ASSUME Waits(s, n) PROVE Waits(t, n) \/ n = h[2]
    <3>1. PICK k \in DOMAIN s : s[k][2] = n
      BY <2>1 DEF Waits
    <3>2. k = 1 \/ k \in 2..Len(s)
      BY <1>1
    <3> QED
      BY <1>1, <1>2, <3>1, <3>2 DEF Waits
  <2>2. ASSUME Waits(t, n) PROVE Waits(s, n)
    <3>1. PICK k \in DOMAIN t : t[k][2] = n
      BY <2>2 DEF Waits
    <3>2. k + 1 \in DOMAIN s /\ s[k + 1][2] = n
      BY <1>1, <3>1
    <3> QED
      BY <3>2 DEF Waits
  <2>3. ASSUME n = h[2] PROVE Waits(s, n)
    BY <1>1, <2>3 DEF Waits
  <2> QED
    BY <2>1, <2>2, <2>3
<1>6. ASSUME ~Waits(t, h[2]) PROVE h[1] = "add" <=> h[2] \in store
  <2>1. ASSUME NEW l \in DOMAIN s, l > 1 PROVE s[l][2] # s[1][2]
    <3>1. l \in 2..Len(s)
      BY <1>1, <2>1
    <3> QED
      BY <1>1, <1>2, <1>6, <3>1 DEF Waits
  <2>2. IsLast(s, 1)
    BY <2>1 DEF IsLast
  <2> QED
    BY <1>1, <2>2 DEF Tells
<1> QED
  BY <1>4, <1>5, <1>6 DEF t, h

\* The worker and the goroutine that disables: a monitor that is started for the first time,
\* unlocked or cancelled.
LEMMA WorkerFollows ==
    ASSUME NEW r \in Monitor, Lives(r), Follows(r)
    PROVE  /\ ~r.started => \A t \in Opened(r) : Lives(t) /\ Follows(t)
           /\ ~r.started /\ DOMAIN r.varying \subseteq r.cancelNs =>
                  Lives(StartedMonitor(r)) /\ Follows(StartedMonitor(r))
           /\ Lives(EnabledInformers(r)) /\ Follows(EnabledInformers(r))
           /\ Lives(EnabledFuture(r)) /\ Follows(EnabledFuture(r))
           /\ Lives(Cancelled(r)) /\ Follows(Cancelled(r))
<1>0. r.varying \in [DOMAIN r.varying -> Informer]
  BY VaryingType DEF Monitor
<1>1. ASSUME ~r.started, DOMAIN r.varying \subseteq r.cancelNs
      PROVE  Lives(StartedMonitor(r)) /\ Follows(StartedMonitor(r))
  <2> DEFINE t == StartedMonitor(r)
  <2>1. /\ t.started /\ t.listed = r.listed /\ t.stopped = r.stopped /\ t.notif = r.notif /\ t.cb = r.cb
        /\ t.varying = r.varying /\ t.cancelNs = r.cancelNs
    BY DEF StartedMonitor, Monitor
  <2> HIDE DEF t
  <2>2. Lives(t) /\ Follows(t)
    BY <1>1, <2>1 DEF Lives, Follows
  <2> QED
    BY <2>2 DEF t
<1>3. ASSUME ~r.started, NEW t \in Opened(r) PROVE Lives(t) /\ Follows(t)
  <2>1. /\ ~t.started /\ t.listed = r.listed /\ t.stopped = r.stopped /\ t.notif = r.notif /\ t.cb = r.cb
        /\ DOMAIN t.varying = DOMAIN r.varying /\ t.cancelNs \subseteq DOMAIN r.varying
        /\ \A n \in t.cancelNs : t.varying[n].state # "created"
    <3>1. CASE t = Restarted(r)
      BY <1>3, <3>1 DEF Restarted, Monitor, Lives
    <3>2. CASE \E i \in DOMAIN r.fixed : t = StartedFixed(r, i)
      BY <1>3, <3>2 DEF StartedFixed, Monitor, Lives
    <3>3. ASSUME NEW n \in DOMAIN r.varying, t = StartedVarying(r, n)
          PROVE  /\ ~t.started /\ t.listed = r.listed /\ t.stopped = r.stopped /\ t.notif = r.notif /\ t.cb = r.cb
                 /\ DOMAIN t.varying = DOMAIN r.varying /\ t.cancelNs \subseteq DOMAIN r.varying
                 /\ \A k \in t.cancelNs : t.varying[k].state # "created"
      <4>1. /\ ~t.started /\ t.listed = r.listed /\ t.stopped = r.stopped /\ t.notif = r.notif /\ t.cb = r.cb
            /\ t.varying = [r.varying EXCEPT ![n] = Started(r.varying[n])] /\ t.cancelNs = r.cancelNs \union {n}
        BY <1>3, <3>3 DEF StartedVarying, Monitor
      <4>2. /\ DOMAIN t.varying = DOMAIN r.varying /\ t.varying[n] = Started(r.varying[n])
            /\ \A k \in DOMAIN r.varying : k # n => t.varying[k] = r.varying[k]
        BY <1>0, <4>1
      <4>3. r.varying[n] \in Informer
        BY <1>0
      <4>4. Started(r.varying[n]).state # "created"
        BY <4>3 DEF Started, Informer
      <4> QED
        BY <4>1, <4>2, <4>4 DEF Lives
    <3> QED
      BY <1>3, <3>1, <3>2, <3>3 DEF Opened
  <2> QED
    BY <1>3, <2>1 DEF Lives, Follows
<1>2. ASSUME NEW t \in {EnabledInformers(r), EnabledFuture(r), Cancelled(r)} PROVE Lives(t) /\ Follows(t)
  <2>1. /\ t.started = r.started /\ t.listed = r.listed /\ t.stopped = r.stopped /\ t.notif = r.notif /\ t.cb = r.cb
        /\ DOMAIN t.varying = DOMAIN r.varying /\ t.cancelNs = r.cancelNs
        /\ \A n \in DOMAIN r.varying : t.varying[n].state = r.varying[n].state
        /\ t.store = r.store /\ t.gone = r.gone
        /\ t.cancelled = r.cancelled \/ t.cancelled = TRUE
    <3>1. CASE t = EnabledInformers(r)
      <4>1. \A i \in Informer : Enabled(i).state = i.state
        BY DEF Enabled, Informer
      <4>2. t.varying = [n \in DOMAIN r.varying |-> Enabled(r.varying[n])]
        BY <3>1 DEF EnabledInformers, Monitor
      <4>3. \A n \in DOMAIN r.varying : t.varying[n].state = r.varying[n].state
        BY <1>0, <4>1, <4>2
      <4> QED
        BY <3>1, <4>2, <4>3 DEF EnabledInformers, Monitor
    <3>2. CASE t = EnabledFuture(r)
      BY <3>2 DEF EnabledFuture, Monitor
    <3>3. CASE t = Cancelled(r)
      BY <3>3 DEF Cancelled, Monitor
    <3> QED
      BY <3>1, <3>2, <3>3
  <2> QED
    BY <2>1 DEF Lives, Follows
<1> QED
  BY <1>1, <1>2, <1>3

\* The namespace informer: its list, its watch and its end.
LEMMA InformerFollows ==
    ASSUME NEW r \in Monitor, Lives(r), Follows(r), cluster \subseteq Namespaces, r.started
    PROVE  /\ ~r.cancelled /\ ~r.listed => \A order \in SetToSeqs(cluster) :
                  Lives(Listed(r, order)) /\ Follows(Listed(r, order))
           /\ ~r.cancelled /\ r.listed =>
                  /\ \A n \in Namespaces : n \notin r.store => Lives(Appeared(r, n)) /\ Follows(Appeared(r, n))
                  /\ \A n \in Namespaces : n \in r.store => Lives(Disappeared(r, n)) /\ Follows(Disappeared(r, n))
           /\ r.cancelled => Lives(Stopped(r)) /\ Follows(Stopped(r))
<1>0. r.notif \in Seq(Notice) /\ r.store \subseteq Namespaces
  BY DEF Monitor
<1>1. ASSUME ~r.cancelled, ~r.listed, NEW order \in SetToSeqs(cluster)
      PROVE  Lives(Listed(r, order)) /\ Follows(Listed(r, order))
  <2> DEFINE t == Listed(r, order)
             s == [i \in DOMAIN order |-> <<"add", order[i]>>]
  <2>1. IsFiniteSet(cluster)
    BY NamespacesAssumption, FS_Subset
  <2>2. /\ DOMAIN order = 1..Cardinality(cluster) /\ order \in [1..Cardinality(cluster) -> cluster]
        /\ \A x \in cluster : \E i \in 1..Cardinality(cluster) : order[i] = x
    BY <2>1, OrderType
  <2>3. /\ DOMAIN s = DOMAIN order
        /\ \A i \in DOMAIN s : s[i][1] = "add" /\ s[i][2] = order[i]
    OBVIOUS
  <2>4. /\ t.started = r.started /\ t.listed /\ t.stopped = r.stopped /\ t.notif = s /\ t.cb = r.cb
        /\ t.varying = r.varying /\ t.cancelNs = r.cancelNs /\ t.cancelled = r.cancelled
        /\ t.store = cluster /\ t.gone = DOMAIN r.varying \ cluster
    BY DEF Listed, Monitor
  <2> HIDE DEF t, s
  <2>5. Tells(s, cluster)
    BY <2>2, <2>3 DEF Tells
  <2>6. \A n \in cluster : Waits(s, n)
    BY <2>2, <2>3 DEF Waits
  <2>7. \A n \in Namespaces : ~Waits(s, n) => (n \in DOMAIN t.varying <=> n \in t.store \union t.gone)
    BY <2>4, <2>6
  <2>8. Lives(t)
    BY <1>1, <2>4 DEF Lives
  <2>9. Follows(t)
    BY <2>4, <2>5, <2>7 DEF Follows
  <2> QED
    BY <2>8, <2>9 DEF t
<1>2. ASSUME ~r.cancelled, r.listed, NEW n \in Namespaces, n \notin r.store
      PROVE  Lives(Appeared(r, n)) /\ Follows(Appeared(r, n))
  <2> DEFINE t == Appeared(r, n)
             x == <<"add", n>>
             s == Append(r.notif, x)
  <2>1. /\ t.started = r.started /\ t.listed = r.listed /\ t.stopped = r.stopped /\ t.notif = s /\ t.cb = r.cb
        /\ t.varying = r.varying /\ t.cancelNs = r.cancelNs /\ t.cancelled = r.cancelled
        /\ t.store = r.store \union {n} /\ t.gone = r.gone
    BY DEF Appeared, Monitor
  <2>2. x \in Notice /\ x[1] = "add" /\ x[2] = n /\ ~r.stopped /\ Tells(r.notif, r.store)
    BY <1>2 DEF Notice, Lives, Follows
  <2> HIDE DEF t, x
  <2>3. /\ Tells(s, r.store \union {n})
        /\ \A k : Waits(s, k) <=> Waits(r.notif, k) \/ k = n
    <3> DEFINE later == r.store \union {n}
    <3>1. n \in later /\ \A k \in Namespaces : k # n => (k \in later <=> k \in r.store)
      OBVIOUS
    <3> HIDE DEF later
    <3>2. /\ x[1] = "add" <=> x[2] \in later
          /\ \A k \in Namespaces : k # x[2] => (k \in later <=> k \in r.store)
      BY <2>2, <3>1
    <3>3. /\ Tells(s, later)
          /\ \A k : Waits(s, k) <=> Waits(r.notif, k) \/ k = x[2]
      BY <1>0, <2>2, <3>2, AppendNotice
    <3> QED
      BY <2>2, <3>3 DEF later
  <2> HIDE DEF s
  <2>4. Lives(t)
    BY <1>2, <2>1, <2>2 DEF Lives
  <2>5. Follows(t)
    BY <1>2, <2>1, <2>2, <2>3 DEF Follows
  <2> QED
    BY <2>4, <2>5 DEF t
<1>3. ASSUME ~r.cancelled, r.listed, NEW n \in Namespaces, n \in r.store
      PROVE  Lives(Disappeared(r, n)) /\ Follows(Disappeared(r, n))
  <2> DEFINE t == Disappeared(r, n)
             x == <<"delete", n>>
             s == Append(r.notif, x)
  <2>1. /\ t.started = r.started /\ t.listed = r.listed /\ t.stopped = r.stopped /\ t.notif = s /\ t.cb = r.cb
        /\ t.varying = r.varying /\ t.cancelNs = r.cancelNs /\ t.cancelled = r.cancelled
        /\ t.store = r.store \ {n} /\ t.gone = r.gone
    BY DEF Disappeared, Monitor
  <2>2. x \in Notice /\ x[1] # "add" /\ x[2] = n /\ ~r.stopped /\ Tells(r.notif, r.store)
    BY <1>3 DEF Notice, Lives, Follows
  <2> HIDE DEF t, x
  <2>3. /\ Tells(s, r.store \ {n})
        /\ \A k : Waits(s, k) <=> Waits(r.notif, k) \/ k = n
    <3> DEFINE later == r.store \ {n}
    <3>1. n \notin later /\ \A k \in Namespaces : k # n => (k \in later <=> k \in r.store)
      OBVIOUS
    <3> HIDE DEF later
    <3>2. /\ x[1] = "add" <=> x[2] \in later
          /\ \A k \in Namespaces : k # x[2] => (k \in later <=> k \in r.store)
      BY <2>2, <3>1
    <3>3. /\ Tells(s, later)
          /\ \A k : Waits(s, k) <=> Waits(r.notif, k) \/ k = x[2]
      BY <1>0, <2>2, <3>2, AppendNotice
    <3> QED
      BY <2>2, <3>3 DEF later
  <2> HIDE DEF s
  <2>4. Lives(t)
    BY <1>3, <2>1, <2>2 DEF Lives
  <2>5. Follows(t)
    BY <1>3, <2>1, <2>2, <2>3 DEF Follows
  <2> QED
    BY <2>4, <2>5 DEF t
<1>4. ASSUME r.cancelled PROVE Lives(Stopped(r)) /\ Follows(Stopped(r))
  <2> DEFINE t == Stopped(r)
  <2>1. t.started = r.started /\ t.listed = r.listed /\ t.stopped /\ t.notif = <<>> /\ t.cb = r.cb
        /\ t.cancelled = r.cancelled /\ t.varying = r.varying /\ t.cancelNs = r.cancelNs
    BY DEF Stopped, Monitor
  <2> HIDE DEF t
  <2>2. Lives(t) /\ Follows(t)
    BY <1>4, <2>1 DEF Lives, Follows
  <2> QED
    BY <2>2 DEF t
<1> QED
  BY <1>1, <1>2, <1>3, <1>4

\* The callbacks.
LEMMA CallbackFollows ==
    ASSUME NEW r \in Monitor, Lives(r), Follows(r)
    PROVE  /\ r.notif # <<>> /\ r.cb.pc = "idle" /\ Head(r.notif)[1] = "add" =>
                  /\ Head(r.notif)[2] \in DOMAIN r.varying => Lives(Taken(r)) /\ Follows(Taken(r))
                  /\ \A new \in {Created, Failed} : Head(r.notif)[2] \notin DOMAIN r.varying =>
                        /\ Lives(Stored(r, Head(r.notif)[2], new))
                        /\ Follows(Stored(r, Head(r.notif)[2], new))
           /\ r.notif # <<>> /\ r.cb.pc = "idle" /\ Head(r.notif)[1] = "delete" =>
                  /\ Head(r.notif)[2] \notin r.cancelNs => Lives(Taken(r)) /\ Follows(Taken(r))
                  /\ Head(r.notif)[2] \in r.cancelNs =>
                        /\ Lives(Removed(r, Head(r.notif)[2]))
                        /\ Follows(Removed(r, Head(r.notif)[2]))
           /\ r.cb.pc = "stored" => \A u \in BOOLEAN :
                  Lives(Begun(r, r.cb.ns, u)) /\ Follows(Begun(r, r.cb.ns, u))
           /\ r.cb.pc = "poll" =>
                  Lives([r EXCEPT !.cb = NoCallback]) /\ Follows([r EXCEPT !.cb = NoCallback])
<1>0. r.notif \in Seq(Notice) /\ r.cb = [pc |-> r.cb.pc, ns |-> r.cb.ns] /\ NoCallback.pc = "idle"
  BY DEF Monitor, NoCallback
<1>1. ASSUME r.notif # <<>>, r.cb.pc = "idle"
      PROVE  LET n == Head(r.notif)[2]
                 s == Tail(r.notif)
             IN  /\ r.listed /\ ~r.stopped /\ r.started /\ n \in Namespaces
                 /\ Tells(s, r.store)
                 /\ \A k : Waits(r.notif, k) <=> Waits(s, k) \/ k = n
                 /\ ~Waits(s, n) => (Head(r.notif)[1] = "add" <=> n \in r.store)
                 /\ r.cancelNs = DOMAIN r.varying /\ r.gone \subseteq DOMAIN r.varying
  <2>1. r.listed /\ ~r.stopped /\ r.started
    BY <1>1 DEF Lives
  <2>2. Tells(r.notif, r.store) /\ r.gone \subseteq DOMAIN r.varying /\ r.cancelNs = DOMAIN r.varying
    BY <1>1, <2>1 DEF Follows
  <2>3. Head(r.notif)[2] \in Namespaces
    BY <1>1, CallbackTypes
  <2> QED
    BY <1>0, <1>1, <2>1, <2>2, <2>3, TailNotice
<1> DEFINE n == Head(r.notif)[2]
           s == Tail(r.notif)
<1>2. ASSUME r.notif # <<>>, r.cb.pc = "idle",
             \/ Head(r.notif)[1] = "add" /\ n \in DOMAIN r.varying
             \/ Head(r.notif)[1] = "delete" /\ n \notin r.cancelNs
      PROVE  Lives(Taken(r)) /\ Follows(Taken(r))
  <2> DEFINE t == Taken(r)
  <2>1. /\ t.started = r.started /\ t.listed = r.listed /\ t.stopped = r.stopped /\ t.notif = s /\ t.cb = r.cb
        /\ t.varying = r.varying /\ t.cancelNs = r.cancelNs /\ t.cancelled = r.cancelled
        /\ t.store = r.store /\ t.gone = r.gone
    BY DEF Taken, Monitor
  <2>2. /\ r.listed /\ ~r.stopped /\ r.started /\ n \in Namespaces
        /\ Tells(s, r.store)
        /\ \A k : Waits(r.notif, k) <=> Waits(s, k) \/ k = n
        /\ ~Waits(s, n) => (Head(r.notif)[1] = "add" <=> n \in r.store)
        /\ r.cancelNs = DOMAIN r.varying /\ r.gone \subseteq DOMAIN r.varying
    BY <1>1, <1>2
  <2>3. ~Waits(s, n) => (n \in DOMAIN r.varying <=> n \in r.store \union r.gone)
    BY <1>2, <2>2
  <2> HIDE DEF t, s, n
  <2>4. Lives(t)
    BY <1>2, <2>1, <2>2 DEF Lives
  <2>5. \A k \in Namespaces : ~Waits(s, k) => (k \in DOMAIN r.varying <=> k \in r.store \union r.gone)
    BY <2>2, <2>3 DEF Follows
  <2>6. Follows(t)
    BY <1>2, <2>1, <2>2, <2>5 DEF Follows
  <2> QED
    BY <2>4, <2>6 DEF t
<1>3. ASSUME r.notif # <<>>, r.cb.pc = "idle", Head(r.notif)[1] = "add", n \notin DOMAIN r.varying,
             NEW new \in {Created, Failed}
      PROVE  Lives(Stored(r, n, new)) /\ Follows(Stored(r, n, new))
  <2>2. /\ r.listed /\ ~r.stopped /\ r.started /\ n \in Namespaces
        /\ Tells(s, r.store)
        /\ \A k : Waits(r.notif, k) <=> Waits(s, k) \/ k = n
        /\ ~Waits(s, n) => n \in r.store
        /\ r.cancelNs = DOMAIN r.varying /\ r.gone \subseteq DOMAIN r.varying
    BY <1>1, <1>3
  <2> HIDE DEF n
  <2> DEFINE t == Stored(r, n, new)
  <2>1. /\ t.started = r.started /\ t.listed = r.listed /\ t.stopped = r.stopped /\ t.notif = s
        /\ t.cb.pc = "stored" /\ t.cb.ns = n
        /\ DOMAIN t.varying = DOMAIN r.varying \union {n} /\ t.cancelNs = r.cancelNs /\ t.cancelled = r.cancelled
        /\ \A k \in DOMAIN r.varying : t.varying[k] = r.varying[k]
        /\ t.store = r.store /\ t.gone = r.gone
    BY <1>3 DEF Stored, Monitor
  <2> HIDE DEF t, s
  <2>4. Lives(t)
    BY <1>3, <2>1, <2>2 DEF Lives
  <2>5. \A k \in Namespaces : ~Waits(s, k) => (k \in DOMAIN t.varying <=> k \in r.store \union r.gone)
    BY <2>1, <2>2 DEF Follows
  <2>6. Follows(t)
    BY <1>3, <2>1, <2>2, <2>5 DEF Follows
  <2> QED
    BY <2>4, <2>6 DEF t
<1>4. ASSUME r.notif # <<>>, r.cb.pc = "idle", Head(r.notif)[1] = "delete", n \in r.cancelNs
      PROVE  Lives(Removed(r, n)) /\ Follows(Removed(r, n))
  <2>2. /\ r.listed /\ ~r.stopped /\ r.started /\ n \in Namespaces
        /\ Tells(s, r.store)
        /\ \A k : Waits(r.notif, k) <=> Waits(s, k) \/ k = n
        /\ ~Waits(s, n) => n \notin r.store
        /\ r.cancelNs = DOMAIN r.varying /\ r.gone \subseteq DOMAIN r.varying
    BY <1>1, <1>4
  <2> HIDE DEF n
  <2> DEFINE t == Removed(r, n)
  <2>1. /\ t.started = r.started /\ t.listed = r.listed /\ t.stopped = r.stopped /\ t.notif = s /\ t.cb = r.cb
        /\ DOMAIN t.varying = DOMAIN r.varying \ {n} /\ t.cancelNs = r.cancelNs \ {n} /\ t.cancelled = r.cancelled
        /\ \A k \in t.cancelNs : t.varying[k] = r.varying[k]
        /\ t.store = r.store /\ t.gone = r.gone \ {n}
    BY <1>4, <2>2 DEF Removed, Monitor
  <2> HIDE DEF t, s
  <2>4. Lives(t)
    BY <1>4, <2>1, <2>2 DEF Lives
  <2>5. \A k \in Namespaces : ~Waits(s, k) => (k \in DOMAIN t.varying <=> k \in t.store \union t.gone)
    BY <2>1, <2>2 DEF Follows
  <2>6. Follows(t)
    BY <1>4, <2>1, <2>2, <2>5 DEF Follows
  <2> QED
    BY <2>4, <2>6 DEF t
<1>5. ASSUME r.cb.pc = "stored", NEW u \in BOOLEAN
      PROVE  Lives(Begun(r, r.cb.ns, u)) /\ Follows(Begun(r, r.cb.ns, u))
  <2> DEFINE own == r.cb.ns
             i == IF r.eventsEnabled THEN Enabled(r.varying[own]) ELSE r.varying[own]
             t == Begun(r, own, u)
  <2>2. own \in DOMAIN r.varying /\ r.listed
    BY <1>5 DEF Lives
  <2>1. /\ t.started = r.started /\ t.listed = r.listed /\ t.stopped = r.stopped /\ t.notif = r.notif
        /\ t.cb.pc \in {"idle", "poll"} /\ DOMAIN t.varying = DOMAIN r.varying /\ t.cancelNs = r.cancelNs \union {own}
        /\ t.varying[own] = Started(i) /\ \A k \in DOMAIN r.varying : k # own => t.varying[k] = r.varying[k]
        /\ t.cancelled = r.cancelled /\ t.store = r.store /\ t.gone = r.gone
    BY <1>0, <2>2 DEF Begun, Monitor
  <2>3. Started(i).state # "created"
    <3>1. r.varying[own] \in Informer
      BY <2>2, VaryingType DEF Monitor
    <3>2. i \in Informer
      BY <3>1, InformerTypes
    <3> QED
      BY <3>2 DEF Started, Informer
  <2> HIDE DEF t, i
  <2>4. \A k \in t.cancelNs : k \in DOMAIN r.varying /\ t.varying[k].state # "created"
    BY <2>1, <2>2, <2>3 DEF Lives
  <2>5. Lives(t) /\ Follows(t)
    BY <1>5, <2>1, <2>2, <2>4 DEF Lives, Follows
  <2> QED
    BY <2>5 DEF t
<1>6. ASSUME r.cb.pc = "poll"
      PROVE  Lives([r EXCEPT !.cb = NoCallback]) /\ Follows([r EXCEPT !.cb = NoCallback])
  <2> DEFINE t == [r EXCEPT !.cb = NoCallback]
  <2>1. /\ t.started = r.started /\ t.listed = r.listed /\ t.stopped = r.stopped /\ t.notif = r.notif
        /\ t.cb.pc = "idle" /\ t.varying = r.varying /\ t.cancelNs = r.cancelNs
        /\ t.cancelled = r.cancelled /\ t.store = r.store /\ t.gone = r.gone
    BY <1>0 DEF Monitor
  <2> HIDE DEF t
  <2>2. Lives(t) /\ Follows(t)
    BY <1>6, <2>1 DEF Lives, Follows
  <2> QED
    BY <2>2 DEF t
<1> QED
  BY <1>2, <1>3, <1>4, <1>5, <1>6

\* The steps that change monitors.
LEMMA MonsFrame ==
    ASSUME [Next]_vars
    PROVE  \/ mons' = mons
           \/ (EnableCheck \/ UpdateAdd) /\ AddMonitor(Head1)
           \/ Opens \/ StartNamespaceInformer \/ UnlockEventsFor \/ EnableKubeEventCb \/ UpdateStop \/ MonitorStop
           \/ \E m \in DOMAIN mons : Namespace(m) \/ Callback(m)
  BY DEF Next, WorkerSteps, OtherSteps, vars, EnableKubernetesBindings, EnableCheck, SetLink,
         StartMonitor, StartReturns, EnableHandleEvent, UseCache, SnapshotHas, SnapshotGet,
         UpdateMonitor, UpdateAdd, UpdateSend, ReceiveEvent, DisableKubernetesBindings,
         StopMonitor, StopMonitorDelete, ClusterChanges, Opens, ObjectsListed, PollCancelled

\* The monitor that each of them changes.
LEMMA MonsChange ==
    ASSUME TypeOK, Held
    PROVE  /\ (EnableCheck \/ UpdateAdd) => Head1 \in Bindings
           /\ Opens =>
                 /\ worker.mon \in 1..Len(mons) /\ ~mons[worker.mon].started
                 /\ \E r \in Opened(mons[worker.mon]) : mons' = [mons EXCEPT ![worker.mon] = r]
           /\ StartNamespaceInformer =>
                 /\ worker.mon \in 1..Len(mons) /\ ~mons[worker.mon].started
                 /\ DOMAIN mons[worker.mon].varying \subseteq mons[worker.mon].cancelNs
                 /\ mons' = [mons EXCEPT ![worker.mon] = StartedMonitor(mons[worker.mon])]
           /\ EnableKubeEventCb =>
                 /\ worker.mon \in 1..Len(mons) /\ worker.pc = "flag"
                 /\ mons' = [mons EXCEPT ![worker.mon] = EnabledFuture(mons[worker.mon])]
           /\ UnlockEventsFor =>
                 \/ mons' = mons /\ NextUnlock
                 \/ /\ index[Head1] \in 1..Len(mons)
                    /\ worker' = [worker EXCEPT !.pc = "flag", !.mon = index[Head1]]
                    /\ mons' = [mons EXCEPT ![index[Head1]] = EnabledInformers(mons[index[Head1]])]
           /\ UpdateStop =>
                 \/ mons' = mons
                 \/ /\ worker.mon \in 1..Len(mons)
                    /\ mons' = [mons EXCEPT ![worker.mon] = Cancelled(mons[worker.mon])]
           /\ MonitorStop =>
                 /\ other.mon \in 1..Len(mons)
                 /\ mons' = [mons EXCEPT ![other.mon] = Cancelled(mons[other.mon])]
           /\ \A m \in 1..Len(mons) : mons[m] \in Monitor
           /\ Len(mons) \in Nat /\ DOMAIN mons = 1..Len(mons) /\ cluster \subseteq Namespaces
<1>0. /\ \A m \in 1..Len(mons) : mons[m] \in Monitor
      /\ Len(mons) \in Nat /\ DOMAIN mons = 1..Len(mons) /\ cluster \subseteq Namespaces
      /\ index \in [Bindings -> 0..Len(mons)] /\ worker.mon \in 0..Len(mons) /\ other.mon \in 0..Len(mons)
  BY DEF TypeOK, IsControl
<1>1. (EnableCheck \/ UpdateAdd) => Head1 \in Bindings
  BY HeadType DEF EnableCheck, UpdateAdd, Goes
<1>2. StartNamespaceInformer =>
          /\ worker.mon \in 1..Len(mons) /\ ~mons[worker.mon].started
          /\ DOMAIN mons[worker.mon].varying \subseteq mons[worker.mon].cancelNs
          /\ mons' = [mons EXCEPT ![worker.mon] = StartedMonitor(mons[worker.mon])]
  BY <1>0 DEF StartNamespaceInformer, Goes, Held, None
<1>a. Opens =>
          /\ worker.mon \in 1..Len(mons) /\ ~mons[worker.mon].started
          /\ \E r \in Opened(mons[worker.mon]) : mons' = [mons EXCEPT ![worker.mon] = r]
  <2>1. Opens => worker.pc \in {"run", "begin"}
    BY DEF Opens, MonitorStart, StartStatic, StartVarying, Goes
  <2> QED
    BY <1>0, <2>1, OpensChange DEF Held, None
<1>3. EnableKubeEventCb =>
          /\ worker.mon \in 1..Len(mons) /\ worker.pc = "flag"
          /\ mons' = [mons EXCEPT ![worker.mon] = EnabledFuture(mons[worker.mon])]
  BY <1>0 DEF EnableKubeEventCb, Held, None
<1>4. ASSUME UnlockEventsFor
      PROVE  \/ mons' = mons /\ NextUnlock
             \/ /\ index[Head1] \in 1..Len(mons)
                /\ worker' = [worker EXCEPT !.pc = "flag", !.mon = index[Head1]]
                /\ mons' = [mons EXCEPT ![index[Head1]] = EnabledInformers(mons[index[Head1]])]
  <2>1. Head1 \in Bindings
    BY <1>4, HeadType DEF UnlockEventsFor
  <2>2. index[Head1] # None => index[Head1] \in 1..Len(mons)
    BY <1>0, <2>1 DEF None
  <2> QED
    BY <1>4, <2>2 DEF UnlockEventsFor
<1>5. UpdateStop =>
          \/ mons' = mons
          \/ /\ worker.mon \in 1..Len(mons)
             /\ mons' = [mons EXCEPT ![worker.mon] = Cancelled(mons[worker.mon])]
  BY <1>0 DEF UpdateStop, None
<1>6. MonitorStop =>
          /\ other.mon \in 1..Len(mons)
          /\ mons' = [mons EXCEPT ![other.mon] = Cancelled(mons[other.mon])]
  BY <1>0 DEF MonitorStop, Held, None
<1> QED
  BY <1>0, <1>1, <1>2, <1>a, <1>3, <1>4, <1>5, <1>6

\* Every step keeps every monitor following its namespaces.
LEMMA FollowStep == TypeOK /\ Held /\ AllLive /\ AllFollow /\ [Next]_vars => AllLive' /\ AllFollow'
<1> SUFFICES ASSUME TypeOK, Held, AllLive, AllFollow, [Next]_vars PROVE AllLive' /\ AllFollow'
  OBVIOUS
<1>0. /\ \A m \in 1..Len(mons) : mons[m] \in Monitor /\ Lives(mons[m]) /\ Follows(mons[m])
      /\ Len(mons) \in Nat /\ DOMAIN mons = 1..Len(mons) /\ cluster \subseteq Namespaces
  BY MonsChange DEF AllLive, AllFollow
<1>1. ASSUME NEW m \in 1..Len(mons), NEW r \in Monitor, mons' = [mons EXCEPT ![m] = r], Lives(r), Follows(r)
      PROVE  AllLive' /\ AllFollow'
  <2>1. /\ DOMAIN mons' = 1..Len(mons) /\ mons'[m] = r
        /\ \A j \in 1..Len(mons) : j # m => mons'[j] = mons[j]
    BY <1>1, Update
  <2>2. \A j \in 1..Len(mons) : Lives(mons'[j]) /\ Follows(mons'[j])
    BY <1>0, <1>1, <2>1
  <2> QED
    BY <2>1, <2>2 DEF AllLive, AllFollow
<1>2. CASE mons' = mons
  BY <1>2 DEF AllLive, AllFollow
<1>3. CASE (EnableCheck \/ UpdateAdd) /\ AddMonitor(Head1)
  <2>1. Head1 \in Bindings
    BY <1>3, MonsChange
  <2>2. /\ DOMAIN mons' = 1..(Len(mons) + 1)
        /\ \A j \in 1..Len(mons) : mons'[j] = mons[j]
        /\ mons'[Len(mons) + 1] \in CreateInformers(Head1)
    BY <1>3, <2>1, Added
  <2> DEFINE r == mons'[Len(mons) + 1]
  <2>3. /\ ~r.started /\ ~r.cancelled /\ ~r.stopped /\ ~r.listed
        /\ r.notif = <<>> /\ r.cb.pc = "idle" /\ r.cancelNs = {}
    BY <1>0, <2>1, <2>2, NewMonitorType
  <2>4. Lives(r) /\ Follows(r)
    BY <2>3 DEF Lives, Follows
  <2>5. \A j \in 1..(Len(mons) + 1) : j \in 1..Len(mons) \/ j = Len(mons) + 1
    BY <1>0
  <2>6. \A j \in 1..(Len(mons) + 1) : Lives(mons'[j]) /\ Follows(mons'[j])
    BY <1>0, <2>2, <2>4, <2>5
  <2> QED
    BY <2>2, <2>6 DEF AllLive, AllFollow
<1>a. CASE Opens
  <2>1. /\ worker.mon \in 1..Len(mons) /\ ~mons[worker.mon].started
        /\ \E r \in Opened(mons[worker.mon]) : mons' = [mons EXCEPT ![worker.mon] = r]
    BY <1>a, MonsChange
  <2>2. \A r \in Opened(mons[worker.mon]) : r \in Monitor /\ Lives(r) /\ Follows(r)
    BY <1>0, <2>1, MonitorTypes, WorkerFollows
  <2> QED
    BY <1>1, <2>1, <2>2
<1>4. CASE StartNamespaceInformer
  <2>1. /\ worker.mon \in 1..Len(mons) /\ ~mons[worker.mon].started
        /\ DOMAIN mons[worker.mon].varying \subseteq mons[worker.mon].cancelNs
        /\ mons' = [mons EXCEPT ![worker.mon] = StartedMonitor(mons[worker.mon])]
    BY <1>4, MonsChange
  <2>2. LET r == StartedMonitor(mons[worker.mon]) IN r \in Monitor /\ Lives(r) /\ Follows(r)
    BY <1>0, <2>1, MonitorTypes, WorkerFollows
  <2> QED
    BY <1>1, <2>1, <2>2
<1>5. CASE UnlockEventsFor \/ EnableKubeEventCb \/ UpdateStop \/ MonitorStop
  <2>1. \/ mons' = mons
        \/ \E m \in 1..Len(mons) :
              \E r \in {EnabledInformers(mons[m]), EnabledFuture(mons[m]), Cancelled(mons[m])} :
                 mons' = [mons EXCEPT ![m] = r]
    BY <1>5, MonsChange
  <2>2. ASSUME NEW m \in 1..Len(mons),
               NEW r \in {EnabledInformers(mons[m]), EnabledFuture(mons[m]), Cancelled(mons[m])}
        PROVE  r \in Monitor /\ Lives(r) /\ Follows(r)
    BY <1>0, MonitorTypes, WorkerFollows
  <2> QED
    BY <1>1, <1>2, <2>1, <2>2
<1>6. ASSUME NEW m \in DOMAIN mons, Namespace(m) PROVE AllLive' /\ AllFollow'
  <2>1. CASE NamespaceList(m)
    <3>1. PICK order \in SetToSeqs(cluster) : mons' = [mons EXCEPT ![m] = Listed(mons[m], order)]
      BY <2>1 DEF NamespaceList
    <3>2. LET r == Listed(mons[m], order) IN r \in Monitor /\ Lives(r) /\ Follows(r)
      BY <1>0, <2>1, MonitorTypes, InformerFollows DEF NamespaceList, Watches
    <3> QED
      BY <1>0, <1>1, <3>1, <3>2
  <2>2. CASE NamespaceWatch(m)
    <3>0. mons[m].store \subseteq Namespaces /\ mons[m].started /\ mons[m].listed /\ ~mons[m].cancelled
      BY <1>0, <2>2 DEF Monitor, NamespaceWatch, Watches
    <3>1. CASE \E n \in cluster \ mons[m].store : mons' = [mons EXCEPT ![m] = Appeared(mons[m], n)]
      <4>1. PICK n \in Namespaces : n \notin mons[m].store /\ mons' = [mons EXCEPT ![m] = Appeared(mons[m], n)]
        BY <1>0, <3>1
      <4>2. LET r == Appeared(mons[m], n) IN r \in Monitor /\ Lives(r) /\ Follows(r)
        BY <1>0, <3>0, <4>1, MonitorTypes, InformerFollows
      <4> QED
        BY <1>0, <1>1, <4>1, <4>2
    <3>2. CASE \E n \in mons[m].store \ cluster : mons' = [mons EXCEPT ![m] = Disappeared(mons[m], n)]
      <4>1. PICK n \in Namespaces : n \in mons[m].store /\ mons' = [mons EXCEPT ![m] = Disappeared(mons[m], n)]
        BY <3>0, <3>2
      <4>2. LET r == Disappeared(mons[m], n) IN r \in Monitor /\ Lives(r) /\ Follows(r)
        BY <1>0, <3>0, <4>1, MonitorTypes, InformerFollows
      <4> QED
        BY <1>0, <1>1, <4>1, <4>2
    <3> QED
      BY <2>2, <3>1, <3>2 DEF NamespaceWatch
  <2>3. CASE NamespaceInformerStop(m)
    <3>1. LET r == Stopped(mons[m]) IN r \in Monitor /\ Lives(r) /\ Follows(r)
      BY <1>0, <2>3, MonitorTypes, InformerFollows DEF NamespaceInformerStop
    <3> QED
      BY <1>0, <1>1, <2>3, <3>1 DEF NamespaceInformerStop
  <2> QED
    BY <1>6, <2>1, <2>2, <2>3 DEF Namespace
<1>7. ASSUME NEW m \in DOMAIN mons, Callback(m) PROVE AllLive' /\ AllFollow'
  <2> DEFINE n == Head(mons[m].notif)[2]
  <2>1. CASE OnAdd(m)
    <3>1. mons[m].notif # <<>> /\ mons[m].cb.pc = "idle" /\ Head(mons[m].notif)[1] = "add"
      BY <2>1 DEF OnAdd, Notified
    <3>2. CASE n \in DOMAIN mons[m].varying /\ mons' = [mons EXCEPT ![m] = Taken(mons[m])]
      <4>1. LET r == Taken(mons[m]) IN r \in Monitor /\ Lives(r) /\ Follows(r)
        BY <1>0, <3>1, <3>2, CallbackTypes, CallbackFollows
      <4> QED
        BY <1>0, <1>1, <3>2, <4>1
    <3>3. CASE n \notin DOMAIN mons[m].varying /\ \E new \in {Created, Failed} : mons' = [mons EXCEPT ![m] = Stored(mons[m], n, new)]
      <4>1. PICK new \in {Created, Failed} : mons' = [mons EXCEPT ![m] = Stored(mons[m], n, new)]
        BY <3>3
      <4>2. LET r == Stored(mons[m], n, new) IN r \in Monitor /\ Lives(r) /\ Follows(r)
        BY <1>0, <3>1, <3>3, CallbackTypes, CallbackFollows
      <4> QED
        BY <1>0, <1>1, <4>1, <4>2
    <3> QED
      BY <2>1, <3>2, <3>3 DEF OnAdd
  <2>2. CASE OnDelete(m)
    <3>1. mons[m].notif # <<>> /\ mons[m].cb.pc = "idle" /\ Head(mons[m].notif)[1] = "delete"
      BY <2>2 DEF OnDelete, Notified
    <3>2. CASE n \notin mons[m].cancelNs
      <4>1. LET r == Taken(mons[m]) IN r \in Monitor /\ Lives(r) /\ Follows(r)
        BY <1>0, <3>1, <3>2, CallbackTypes, CallbackFollows
      <4> QED
        BY <1>0, <1>1, <2>2, <3>2, <4>1 DEF OnDelete
    <3>3. CASE n \in mons[m].cancelNs
      <4>1. LET r == Removed(mons[m], n) IN r \in Monitor /\ Lives(r) /\ Follows(r)
        BY <1>0, <3>1, <3>3, CallbackTypes, CallbackFollows
      <4> QED
        BY <1>0, <1>1, <2>2, <3>3, <4>1 DEF OnDelete
    <3> QED
      BY <3>2, <3>3
  <2>3. CASE OnAddStart(m)
    <3> DEFINE u == worker.pc = "flag" /\ worker.mon = m
               r == Begun(mons[m], mons[m].cb.ns, u)
    <3>1. mons[m].cb.pc = "stored" /\ mons[m].cb.ns \in DOMAIN mons[m].varying
      BY <1>0, <2>3 DEF OnAddStart, Lives
    <3>2. mons' = [mons EXCEPT ![m] = r]
      BY <2>3 DEF OnAddStart
    <3>3. u \in BOOLEAN
      OBVIOUS
    <3> HIDE DEF u
    <3>4. r \in Monitor /\ Lives(r) /\ Follows(r)
      BY <1>0, <3>1, <3>3, CallbackTypes, CallbackFollows
    <3> QED
      BY <1>0, <1>1, <3>2, <3>4
  <2>4. CASE OnAddReturns(m)
    <3> DEFINE r == [mons[m] EXCEPT !.cb = NoCallback]
    <3>1. mons[m].cb.pc = "poll" /\ mons' = [mons EXCEPT ![m] = r]
      BY <2>4 DEF OnAddReturns
    <3>2. r \in Monitor /\ Lives(r) /\ Follows(r)
      BY <1>0, <3>1, CallbackTypes, CallbackFollows
    <3> QED
      BY <1>0, <1>1, <3>1, <3>2
  <2> QED
    BY <1>7, <2>1, <2>2, <2>3, <2>4 DEF Callback
<1> QED
  BY <1>2, <1>3, <1>a, <1>4, <1>5, <1>6, <1>7, MonsFrame

-----------------------------------------------------------------------------
(* Events: which informers of a monitor emit them.                         *)

\* EnableKubeEventCb goes through all informers there are.
LEMMA Unlocked ==
    ASSUME NEW r \in Monitor
    PROVE  Loud(EnabledInformers(r))
<1>1. /\ r.fixed \in Seq(Static) /\ r.varying \in [DOMAIN r.varying -> Informer]
  BY VaryingType DEF Monitor
<1> DEFINE t == EnabledInformers(r)
<1>2. /\ DOMAIN t.fixed = DOMAIN r.fixed /\ DOMAIN t.varying = DOMAIN r.varying
      /\ \A i \in DOMAIN r.fixed : t.fixed[i] = Enabled(r.fixed[i])
      /\ \A n \in DOMAIN r.varying : t.varying[n] = Enabled(r.varying[n])
  BY DEF EnabledInformers, Monitor
<1> HIDE DEF t
<1>3. \A i \in Static : Enabled(i).enabled
  BY DEF Static, Enabled
<1>4. \A i \in Informer : Enabled(i).enabled \/ Enabled(i).state = "failed"
  BY DEF Informer, Enabled
<1>5. \A i \in DOMAIN r.fixed : r.fixed[i] \in Static
  BY <1>1
<1>6. Loud(t)
  BY <1>1, <1>2, <1>3, <1>4, <1>5 DEF Loud
<1> QED
  BY <1>6 DEF t

\* What emits goes on to emit; a new namespace is in the window while its callback runs.
LEMMA StaysLoud ==
    ASSUME NEW r \in Monitor, Loud(r)
    PROVE  /\ \A t \in Opened(r) : Loud(t)
           /\ Loud(StartedMonitor(r)) /\ Loud(EnabledFuture(r)) /\ Loud(Cancelled(r)) /\ Loud(Stopped(r))
           /\ r.cb.pc = "poll" => Loud([r EXCEPT !.cb = NoCallback])
           /\ \A order : Loud(Listed(r, order))
           /\ \A n : Loud(Appeared(r, n)) /\ Loud(Disappeared(r, n)) /\ Loud(Removed(r, n))
           /\ Loud(Taken(r))
           /\ \A n, new : r.cb.pc = "idle" /\ n \notin DOMAIN r.varying => Loud(Stored(r, n, new))
<1>0. /\ r.fixed \in Seq(Static) /\ r.varying \in [DOMAIN r.varying -> Informer]
      /\ \A i \in DOMAIN r.fixed : r.fixed[i] \in Static
  <2>1. r.fixed \in Seq(Static) /\ r.varying \in [DOMAIN r.varying -> Informer]
    BY VaryingType DEF Monitor
  <2> QED
    BY <2>1
<1>1. ASSUME NEW t \in Opened(r) PROVE Loud(t)
  <2>1. \A i \in Static : Started(i).enabled = i.enabled
    BY DEF Static, Started
  <2>2. \A i \in Informer : Started(i).enabled = i.enabled /\ (i.state = "failed" => Started(i).state = "failed")
    BY DEF Informer, Started
  <2>3. CASE t = Restarted(r)
    BY <2>3 DEF Restarted, Monitor, Loud
  <2>4. ASSUME NEW i \in DOMAIN r.fixed, t = StartedFixed(r, i) PROVE Loud(t)
    <3>1. /\ t.fixed = [r.fixed EXCEPT ![i] = Started(r.fixed[i])]
          /\ t.varying = r.varying /\ t.cb = r.cb /\ t.missed = r.missed
      BY <2>4 DEF StartedFixed, Monitor
    <3> QED
      BY <1>0, <2>1, <3>1 DEF Loud
  <2>5. ASSUME NEW n \in DOMAIN r.varying, t = StartedVarying(r, n) PROVE Loud(t)
    <3>1. /\ t.varying = [r.varying EXCEPT ![n] = Started(r.varying[n])]
          /\ t.fixed = r.fixed /\ t.cb = r.cb /\ t.missed = r.missed
      BY <2>5 DEF StartedVarying, Monitor
    <3> QED
      BY <1>0, <2>2, <3>1 DEF Loud
  <2> QED
    BY <2>3, <2>4, <2>5 DEF Opened
<1>2. ASSUME NEW t, t.fixed = r.fixed, t.varying = r.varying, t.cb = r.cb, t.missed = r.missed PROVE Loud(t)
  BY <1>2 DEF Loud
<1>3. Loud(StartedMonitor(r)) /\ Loud(EnabledFuture(r)) /\ Loud(Cancelled(r)) /\ Loud(Taken(r)) /\ Loud(Stopped(r))
  <2>1. ASSUME NEW t \in {StartedMonitor(r), EnabledFuture(r), Cancelled(r), Taken(r), Stopped(r)}
        PROVE  t.fixed = r.fixed /\ t.varying = r.varying /\ t.cb = r.cb /\ t.missed = r.missed
    <3>1. CASE t = EnabledFuture(r)
      BY <3>1 DEF EnabledFuture, Monitor
    <3>2. CASE t = Cancelled(r)
      BY <3>2 DEF Cancelled, Monitor
    <3>3. CASE t = Taken(r)
      BY <3>3 DEF Taken, Monitor
    <3>4. CASE t = StartedMonitor(r)
      BY <3>4 DEF StartedMonitor, Monitor
    <3>5. CASE t = Stopped(r)
      BY <3>5 DEF Stopped, Monitor
    <3> QED
      BY <3>1, <3>2, <3>3, <3>4, <3>5
  <2> QED
    BY <1>2, <2>1
<1>4. ASSUME NEW order PROVE Loud(Listed(r, order))
  <2> DEFINE t == Listed(r, order)
  <2>1. t.fixed = r.fixed /\ t.varying = r.varying /\ t.cb = r.cb /\ t.missed = r.missed
    BY DEF Listed, Monitor
  <2> HIDE DEF t
  <2>2. Loud(t)
    BY <1>2, <2>1
  <2> QED
    BY <2>2 DEF t
<1>5. ASSUME NEW n PROVE Loud(Appeared(r, n)) /\ Loud(Disappeared(r, n))
  <2> DEFINE t == Appeared(r, n)
             d == Disappeared(r, n)
  <2>1. t.fixed = r.fixed /\ t.varying = r.varying /\ t.cb = r.cb /\ t.missed = r.missed
    BY DEF Appeared, Monitor
  <2>2. d.fixed = r.fixed /\ d.varying = r.varying /\ d.cb = r.cb /\ d.missed = r.missed
    BY DEF Disappeared, Monitor
  <2> HIDE DEF t, d
  <2>3. Loud(t) /\ Loud(d)
    BY <1>2, <2>1, <2>2
  <2> QED
    BY <2>3 DEF t, d
<1>6. ASSUME r.cb.pc = "poll" PROVE Loud([r EXCEPT !.cb = NoCallback])
  <2> DEFINE t == [r EXCEPT !.cb = NoCallback]
  <2>1. t.fixed = r.fixed /\ t.varying = r.varying /\ t.missed = r.missed
    BY DEF Monitor
  <2> HIDE DEF t
  <2>2. Loud(t)
    BY <1>6, <2>1 DEF Loud
  <2> QED
    BY <2>2 DEF t
<1>7. ASSUME NEW n PROVE Loud(Removed(r, n))
  <2> DEFINE t == Removed(r, n)
  <2>1. /\ t.fixed = r.fixed /\ t.cb = r.cb /\ t.missed = r.missed \ {n} /\ DOMAIN t.varying = DOMAIN r.varying \ {n}
        /\ \A x \in DOMAIN t.varying : t.varying[x] = r.varying[x] /\ x # n
    BY DEF Removed, Monitor
  <2> HIDE DEF t
  <2>2. Loud(t)
    BY <2>1 DEF Loud
  <2> QED
    BY <2>2 DEF t
<1>8. ASSUME NEW n, NEW new, r.cb.pc = "idle", n \notin DOMAIN r.varying PROVE Loud(Stored(r, n, new))
  <2> DEFINE t == Stored(r, n, new)
  <2>1. /\ t.fixed = r.fixed /\ t.cb.pc = "stored" /\ t.cb.ns = n /\ t.missed = r.missed
        /\ DOMAIN t.varying = DOMAIN r.varying \union {n}
        /\ \A x \in DOMAIN r.varying : t.varying[x] = r.varying[x]
    BY <1>8 DEF Stored, Monitor
  <2> HIDE DEF t
  <2>2. Loud(t)
    BY <1>8, <2>1 DEF Loud
  <2> QED
    BY <2>2 DEF t
<1> QED
  BY <1>1, <1>3, <1>4, <1>5, <1>6, <1>7, <1>8

\* The end of the callback: the informers of the namespace emit, have failed or missed the unlock.
LEMMA BegunLoud ==
    ASSUME NEW r \in Monitor, Loud(r), NEW u \in BOOLEAN, r.eventsEnabled \/ u,
           r.cb.pc = "stored", r.cb.ns \in DOMAIN r.varying
    PROVE  Loud(Begun(r, r.cb.ns, u))
<1> DEFINE n == r.cb.ns
           i == r.varying[n]
           j == IF r.eventsEnabled THEN Enabled(i) ELSE i
           t == Begun(r, n, u)
<1>1. r.varying \in [DOMAIN r.varying -> Informer] /\ i \in Informer
  BY VaryingType DEF Monitor
<1>2. /\ t.fixed = r.fixed /\ DOMAIN t.varying = DOMAIN r.varying
      /\ t.varying[n] = Started(j)
      /\ \A x \in DOMAIN r.varying : x # n => t.varying[x] = r.varying[x]
      /\ t.missed = IF u /\ ~i.enabled THEN r.missed \union {n} ELSE r.missed \ {n}
  BY DEF Begun, Monitor
<1>3. j \in Informer
  BY <1>1, InformerTypes
<1>4. j.enabled \/ j.state = "failed" \/ n \in t.missed
  <2>1. CASE r.eventsEnabled
    BY <1>1, <2>1 DEF Enabled, Informer
  <2>2. CASE ~r.eventsEnabled
    BY <1>2, <2>2
  <2> QED
    BY <2>1, <2>2
<1> HIDE DEF j, t
<1>5. t.varying[n].enabled \/ t.varying[n].state = "failed" \/ n \in t.missed
  BY <1>2, <1>3, <1>4 DEF Started, Informer
<1>6. \A x \in DOMAIN r.varying : x # n => (x \in t.missed <=> x \in r.missed)
  BY <1>2
<1>7. ASSUME NEW x \in DOMAIN r.varying, x # n
      PROVE  t.varying[x].enabled \/ t.varying[x].state = "failed" \/ x \in t.missed
  BY <1>2, <1>6, <1>7 DEF Loud
<1>8. \A k \in DOMAIN t.fixed : t.fixed[k].enabled
  BY <1>2 DEF Loud
<1>9. Loud(t)
  <2>1. ASSUME NEW x \in DOMAIN t.varying
        PROVE  t.varying[x].enabled \/ t.varying[x].state = "failed" \/ x \in t.missed
    BY <1>2, <1>5, <1>7
  <2> QED
    BY <1>8, <2>1 DEF Loud
<1> QED
  BY <1>9 DEF t

\* How the control of the worker goes on.
LEMMA Effects ==
    ASSUME TypeOK
    PROVE  /\ NothingUnderWay.pc = "idle" /\ NothingUnderWay.op = "none" /\ NothingUnderWay.mon = None
           /\ EnableKubernetesBindings => /\ worker'.pc = "check" /\ worker'.op = "enable"
                                          /\ worker'.todo = BindingSeq /\ worker'.mon = None
           /\ \A p, q : Goes(p, q) => /\ worker.pc = p /\ worker'.pc = q /\ worker'.op = worker.op
                                      /\ worker'.todo = worker.todo /\ worker'.mon = worker.mon
           /\ StartMonitor => \/ index[Head1] = None /\ worker' = NothingUnderWay
                              \/ /\ index[Head1] # None /\ worker'.pc = "run" /\ worker'.op = worker.op
                                 /\ worker'.todo = worker.todo /\ worker'.mon = index[Head1]
           /\ StartReturns => /\ worker'.pc = IF worker.op = "enable" THEN "sync" ELSE "unlock"
                              /\ worker'.op = worker.op /\ worker'.todo = worker.todo
           /\ EnableHandleEvent =>
                 /\ worker'.op = worker.op
                 /\ \/ Len(worker.todo) > 1 /\ worker'.pc = "check" /\ worker'.todo = Tail(worker.todo)
                    \/ ~(Len(worker.todo) > 1) /\ worker'.pc = "snapshot"
           /\ \A v : GiveSnapshot(v) => /\ worker'.op = worker.op /\ worker'.pc \in {"snapshot", "unlock"}
           /\ NextUnlock => worker' = NothingUnderWay \/ (worker'.pc = "unlock" /\ worker'.op = worker.op)
           /\ \A b : UpdateMonitor(b) => /\ worker'.pc = "stop" /\ worker'.op = "update"
                                         /\ worker'.todo = <<b>> /\ worker'.mon = index[b]
           /\ \A m : worker' = [worker EXCEPT !.pc = "flag", !.mon = m] =>
                 worker'.pc = "flag" /\ worker'.mon = m /\ worker'.op = worker.op
<1>1. worker = [pc |-> worker.pc, op |-> worker.op, todo |-> worker.todo, mon |-> worker.mon]
  BY DEF TypeOK, IsControl
<1>2. NothingUnderWay.pc = "idle" /\ NothingUnderWay.op = "none" /\ NothingUnderWay.mon = None
  BY DEF NothingUnderWay
<1>3. ASSUME EnableKubernetesBindings
      PROVE  worker'.pc = "check" /\ worker'.op = "enable" /\ worker'.todo = BindingSeq /\ worker'.mon = None
  <2>1. worker' = [pc |-> "check", op |-> "enable", todo |-> BindingSeq, mon |-> None]
    BY <1>3 DEF EnableKubernetesBindings, NothingUnderWay
  <2> QED
    BY <2>1
<1>4. ASSUME NEW p, NEW q, Goes(p, q)
      PROVE  /\ worker.pc = p /\ worker'.pc = q /\ worker'.op = worker.op
             /\ worker'.todo = worker.todo /\ worker'.mon = worker.mon
  BY <1>1, <1>4 DEF Goes
<1>5. ASSUME StartMonitor
      PROVE  \/ index[Head1] = None /\ worker' = NothingUnderWay
             \/ /\ index[Head1] # None /\ worker'.pc = "run" /\ worker'.op = worker.op
                /\ worker'.todo = worker.todo /\ worker'.mon = index[Head1]
  <2>1. CASE index[Head1] = None
    BY <1>5, <2>1 DEF StartMonitor
  <2>2. CASE index[Head1] # None
    <3>1. worker' = [worker EXCEPT !.pc = "run", !.mon = index[Head1]]
      BY <1>5, <2>2 DEF StartMonitor
    <3> QED
      BY <1>1, <2>2, <3>1
  <2> QED
    BY <2>1, <2>2
<1>6. ASSUME StartReturns
      PROVE  /\ worker'.pc = IF worker.op = "enable" THEN "sync" ELSE "unlock"
             /\ worker'.op = worker.op /\ worker'.todo = worker.todo
  BY <1>1, <1>6 DEF StartReturns
<1>7. ASSUME EnableHandleEvent
      PROVE  /\ worker'.op = worker.op
             /\ \/ Len(worker.todo) > 1 /\ worker'.pc = "check" /\ worker'.todo = Tail(worker.todo)
                \/ ~(Len(worker.todo) > 1) /\ worker'.pc = "snapshot"
  <2>1. CASE Len(worker.todo) > 1
    <3>1. worker' = [worker EXCEPT !.pc = "check", !.todo = Tail(worker.todo), !.mon = None]
      BY <1>7, <2>1 DEF EnableHandleEvent
    <3> QED
      BY <1>1, <2>1, <3>1
  <2>2. CASE ~(Len(worker.todo) > 1)
    <3>1. worker' = [worker EXCEPT !.pc = "snapshot", !.todo = SnapshotNames, !.mon = None]
      BY <1>7, <2>2 DEF EnableHandleEvent
    <3> QED
      BY <1>1, <2>2, <3>1
  <2> QED
    BY <2>1, <2>2
<1>8. ASSUME NEW v, GiveSnapshot(v) PROVE worker'.op = worker.op /\ worker'.pc \in {"snapshot", "unlock"}
  <2>1. \/ worker' = [worker EXCEPT !.pc = "snapshot", !.todo = Tail(worker.todo)]
        \/ worker' = [worker EXCEPT !.pc = "unlock", !.todo = BindingSeq]
    BY <1>8 DEF GiveSnapshot
  <2> QED
    BY <1>1, <2>1
<1>9. ASSUME NextUnlock PROVE worker' = NothingUnderWay \/ (worker'.pc = "unlock" /\ worker'.op = worker.op)
  <2>1. \/ worker' = NothingUnderWay
        \/ worker' = [worker EXCEPT !.pc = "unlock", !.todo = Tail(worker.todo), !.mon = None]
    BY <1>9 DEF NextUnlock
  <2> QED
    BY <1>1, <2>1
<1>10. ASSUME NEW b, UpdateMonitor(b)
       PROVE  worker'.pc = "stop" /\ worker'.op = "update" /\ worker'.todo = <<b>> /\ worker'.mon = index[b]
  <2>1. worker' = [pc |-> "stop", op |-> "update", todo |-> <<b>>, mon |-> index[b]]
    BY <1>10 DEF UpdateMonitor
  <2> QED
    BY <2>1
<1>11. ASSUME NEW m, worker' = [worker EXCEPT !.pc = "flag", !.mon = m]
       PROVE  worker'.pc = "flag" /\ worker'.mon = m /\ worker'.op = worker.op
  BY <1>1, <1>11
<1> QED
  BY <1>2, <1>3, <1>4, <1>5, <1>6, <1>7, <1>8, <1>9, <1>10, <1>11

\* The worker comes to the flag of a monitor only from the informers of that monitor, and to
\* the monitor of a snapshot only when the snapshot is not in the cache.
LEMMA PlaceFrame ==
    ASSUME TypeOK, [Next]_vars
    PROVE  /\ worker'.pc = "flag" => worker' = worker \/ UnlockEventsFor
           /\ worker'.pc = "get" => worker' = worker \/ SnapshotHas
<1> SUFFICES ASSUME worker'.pc \in {"flag", "get"}, worker' # worker
             PROVE  /\ worker'.pc = "flag" => UnlockEventsFor
                    /\ worker'.pc = "get" => SnapshotHas
  OBVIOUS
<1>1. /\ \A p, q : Goes(p, q) => worker'.pc = q
      /\ worker' # NothingUnderWay
      /\ \A v : ~GiveSnapshot(v)
      /\ ~NextUnlock /\ ~StartReturns /\ ~StartMonitor /\ ~EnableHandleEvent
  <2>1. /\ NothingUnderWay.pc = "idle" /\ NothingUnderWay.pc \notin {"flag", "get"}
        /\ \A p, q : Goes(p, q) => worker'.pc = q
    BY Effects
  <2>2. \A v : ~GiveSnapshot(v)
    BY Effects
  <2>3. ~NextUnlock
    BY <2>1, Effects
  <2>4. ~StartReturns
    <3>1. StartReturns => worker'.pc \in {"sync", "unlock"}
      BY Effects
    <3> QED
      BY <3>1
  <2>5. ~StartMonitor
    <3>1. StartMonitor => worker' = NothingUnderWay \/ worker'.pc = "run"
      BY Effects
    <3> QED
      BY <2>1, <3>1
  <2>6. ~EnableHandleEvent
    <3>1. EnableHandleEvent => worker'.pc \in {"check", "snapshot"}
      BY Effects
    <3> QED
      BY <3>1
  <2>7. worker' # NothingUnderWay
    BY <2>1
  <2> QED
    BY <2>1, <2>2, <2>3, <2>4, <2>5, <2>6, <2>7
<1>2. CASE EnableKubernetesBindings \/ \E b \in Bindings : UpdateMonitor(b)
  BY <1>2, Effects
<1>3. CASE \/ EnableCheck \/ SetLink \/ StartMonitor \/ Opens \/ PollEnds \/ StartNamespaceInformer
           \/ StartReturns \/ EnableHandleEvent
  <2>1. ~EnableCheck
    BY <1>1 DEF EnableCheck
  <2>2. ~SetLink /\ ~StartNamespaceInformer
    BY <1>1 DEF SetLink, StartNamespaceInformer
  <2>3. ~Opens /\ ~PollEnds
    <3>1. Opens \/ PollEnds => worker'.pc \in {"begin", "poll"}
      BY <1>1 DEF Opens, MonitorStart, StartStatic, StartVarying, PollEnds, ObjectsListed, PollCancelled
    <3> QED
      BY <3>1
  <2> QED
    BY <1>1, <1>3, <2>1, <2>2, <2>3
<1>4. CASE UseCache \/ SnapshotHas \/ SnapshotGet
  <2>1. ~UseCache
    BY <1>1 DEF UseCache
  <2>2. SnapshotHas => worker'.pc = "get"
    BY <1>1 DEF SnapshotHas
  <2>3. ~SnapshotGet
    BY <1>1 DEF SnapshotGet
  <2> QED
    BY <1>4, <2>1, <2>2, <2>3
<1>a. CASE UnlockEventsFor
  <2>1. worker' = [worker EXCEPT !.pc = "flag", !.mon = index[Head1]]
    BY <1>1, <1>a DEF UnlockEventsFor
  <2>2. worker'.pc = "flag"
    BY <2>1, Effects
  <2> QED
    BY <1>a, <2>2
<1>5. CASE EnableKubeEventCb \/ UpdateStop \/ UpdateAdd \/ UpdateSend
  <2>1. ~EnableKubeEventCb
    BY <1>1 DEF EnableKubeEventCb
  <2>2. ~UpdateStop /\ ~UpdateSend
    BY <1>1 DEF UpdateStop, UpdateSend
  <2>3. ~UpdateAdd
    BY <1>1 DEF UpdateAdd
  <2> QED
    BY <1>5, <2>1, <2>2, <2>3
<1>6. CASE \/ ReceiveEvent \/ DisableKubernetesBindings \/ OtherSteps \/ ClusterChanges \/ UNCHANGED vars
           \/ \E m \in DOMAIN mons : Namespace(m) \/ Callback(m)
  BY <1>6 DEF ReceiveEvent, DisableKubernetesBindings, OtherSteps, StopMonitor, MonitorStop, StopMonitorDelete,
              ClusterChanges, vars, Namespace, Callback, NamespaceList, NamespaceWatch, NamespaceInformerStop,
              OnAdd, OnAddStart, OnAddReturns, OnDelete, OnlyMonitors
<1> QED
  BY <1>2, <1>3, <1>4, <1>a, <1>5, <1>6 DEF Next, WorkerSteps, Opens, PollEnds

\* Every step keeps the informers of an unlocked monitor emitting, outside the window.
LEMMA LoudStep == TypeOK /\ Held /\ AllLive /\ AllLoud /\ [Next]_vars => AllLoud'
<1> SUFFICES ASSUME TypeOK, Held, AllLive, AllLoud, [Next]_vars PROVE AllLoud'
  OBVIOUS
<1> DEFINE At(m) == worker.pc = "flag" /\ worker.mon = m
<1>0. /\ \A m \in 1..Len(mons) : mons[m] \in Monitor /\ Lives(mons[m])
      /\ \A m \in 1..Len(mons) : mons[m].eventsEnabled \/ At(m) => Loud(mons[m])
      /\ Len(mons) \in Nat /\ DOMAIN mons = 1..Len(mons) /\ cluster \subseteq Namespaces
  BY MonsChange DEF AllLive, AllLoud
<1>1. CASE UnlockEventsFor
  <2>1. CASE mons' = mons /\ NextUnlock
    <3>1. worker'.pc # "flag"
      BY <2>1, Effects
    <3> QED
      BY <1>0, <2>1, <3>1 DEF AllLoud
  <2>2. CASE /\ index[Head1] \in 1..Len(mons)
             /\ worker' = [worker EXCEPT !.pc = "flag", !.mon = index[Head1]]
             /\ mons' = [mons EXCEPT ![index[Head1]] = EnabledInformers(mons[index[Head1]])]
    <3> DEFINE m == index[Head1]
               r == EnabledInformers(mons[m])
    <3>1. m \in 1..Len(mons) /\ worker'.mon = m /\ mons' = [mons EXCEPT ![m] = r]
      BY <2>2, Effects
    <3>2. r \in Monitor /\ Loud(r)
      BY <1>0, <3>1, MonitorTypes, Unlocked
    <3> HIDE DEF m, r
    <3>3. /\ DOMAIN mons' = 1..Len(mons) /\ mons'[m] = r
          /\ \A j \in 1..Len(mons) : j # m => mons'[j] = mons[j]
      BY <3>1, <3>2, Update
    <3>4. ASSUME NEW j \in 1..Len(mons), mons'[j].eventsEnabled \/ worker'.mon = j PROVE Loud(mons'[j])
      BY <1>0, <3>1, <3>2, <3>3, <3>4
    <3> QED
      BY <3>3, <3>4 DEF AllLoud
  <2> QED
    BY <1>1, <2>1, <2>2, MonsChange
<1>2. CASE ~UnlockEventsFor
  <2>0. worker'.pc = "flag" => worker' = worker
    BY <1>2, PlaceFrame
  <2>1. ASSUME NEW m \in 1..Len(mons), NEW r \in Monitor, mons' = [mons EXCEPT ![m] = r],
               r.eventsEnabled \/ At(m) => Loud(r)
        PROVE  AllLoud'
    <3>1. /\ DOMAIN mons' = 1..Len(mons) /\ mons'[m] = r
          /\ \A j \in 1..Len(mons) : j # m => mons'[j] = mons[j]
      BY <2>1, Update
    <3>2. ASSUME NEW j \in 1..Len(mons), mons'[j].eventsEnabled \/ (worker'.pc = "flag" /\ worker'.mon = j)
          PROVE  Loud(mons'[j])
      <4>1. mons'[j].eventsEnabled \/ At(j)
        BY <2>0, <3>2
      <4> HIDE DEF At
      <4> QED
        BY <1>0, <2>1, <3>1, <4>1
    <3> QED
      BY <3>1, <3>2 DEF AllLoud
  <2>2. ASSUME NEW m \in 1..Len(mons), NEW r \in Monitor, mons' = [mons EXCEPT ![m] = r],
               r.eventsEnabled = mons[m].eventsEnabled, Loud(mons[m]) => Loud(r)
        PROVE  AllLoud'
    BY <1>0, <2>1, <2>2
  <2>3. CASE mons' = mons
    BY <2>0, <2>3 DEF AllLoud
  <2>4. CASE (EnableCheck \/ UpdateAdd) /\ AddMonitor(Head1)
    <3>1. Head1 \in Bindings
      BY <2>4, MonsChange
    <3>2. /\ DOMAIN mons' = 1..(Len(mons) + 1)
          /\ \A j \in 1..Len(mons) : mons'[j] = mons[j]
          /\ mons'[Len(mons) + 1] \in CreateInformers(Head1)
      BY <2>4, <3>1, Added
    <3>3. ~mons'[Len(mons) + 1].eventsEnabled
      BY <1>0, <3>1, <3>2, NewMonitorType
    <3>4. worker'.pc # "flag"
      <4>1. worker.pc # "flag"
        BY <2>4 DEF EnableCheck, UpdateAdd, Goes
      <4> QED
        BY <2>0, <4>1
    <3>5. ASSUME NEW j \in 1..(Len(mons) + 1), mons'[j].eventsEnabled PROVE Loud(mons'[j])
      <4>1. j \in 1..Len(mons)
        BY <1>0, <3>3, <3>5
      <4> QED
        BY <1>0, <3>2, <3>5, <4>1
    <3> QED
      BY <3>2, <3>4, <3>5 DEF AllLoud
  <2>a. ASSUME NEW s \in Monitor
        PROVE  /\ StartedMonitor(s).eventsEnabled = s.eventsEnabled /\ Cancelled(s).eventsEnabled = s.eventsEnabled
               /\ \A t \in Opened(s) : t.eventsEnabled = s.eventsEnabled
    BY DEF StartedMonitor, Cancelled, Monitor, Opened, Restarted, StartedFixed, StartedVarying
  <2>b. CASE Opens
    <3>1. PICK r \in Opened(mons[worker.mon]) :
              worker.mon \in 1..Len(mons) /\ mons' = [mons EXCEPT ![worker.mon] = r]
      BY <2>b, MonsChange
    <3>2. /\ r \in Monitor /\ r.eventsEnabled = mons[worker.mon].eventsEnabled
          /\ Loud(mons[worker.mon]) => Loud(r)
      BY <1>0, <3>1, <2>a, MonitorTypes, StaysLoud
    <3> QED
      BY <2>2, <3>1, <3>2
  <2>5. CASE StartNamespaceInformer
    <3>1. /\ worker.mon \in 1..Len(mons)
          /\ mons' = [mons EXCEPT ![worker.mon] = StartedMonitor(mons[worker.mon])]
      BY <2>5, MonsChange
    <3> DEFINE r == StartedMonitor(mons[worker.mon])
    <3>2. r \in Monitor /\ r.eventsEnabled = mons[worker.mon].eventsEnabled
      BY <1>0, <3>1, <2>a, MonitorTypes
    <3>3. Loud(mons[worker.mon]) => Loud(r)
      BY <1>0, <3>1, StaysLoud
    <3>4. mons' = [mons EXCEPT ![worker.mon] = r]
      BY <3>1
    <3> HIDE DEF r
    <3> QED
      BY <2>2, <3>1, <3>2, <3>3, <3>4
  <2>6. CASE EnableKubeEventCb
    <3>1. /\ worker.mon \in 1..Len(mons) /\ worker.pc = "flag"
          /\ mons' = [mons EXCEPT ![worker.mon] = EnabledFuture(mons[worker.mon])]
      BY <2>6, MonsChange
    <3>2. EnabledFuture(mons[worker.mon]) \in Monitor /\ Loud(EnabledFuture(mons[worker.mon]))
      BY <1>0, <3>1, MonitorTypes, StaysLoud
    <3> QED
      BY <2>1, <3>1, <3>2
  <2>7. CASE UpdateStop \/ MonitorStop
    <3>1. mons' = mons \/ \E m \in 1..Len(mons) : mons' = [mons EXCEPT ![m] = Cancelled(mons[m])]
      BY <2>7, MonsChange
    <3>2. ASSUME NEW m \in 1..Len(mons)
          PROVE  /\ Cancelled(mons[m]) \in Monitor
                 /\ Cancelled(mons[m]).eventsEnabled = mons[m].eventsEnabled
                 /\ Loud(mons[m]) => Loud(Cancelled(mons[m]))
      BY <1>0, <2>a, MonitorTypes, StaysLoud
    <3>3. ASSUME NEW m \in 1..Len(mons), mons' = [mons EXCEPT ![m] = Cancelled(mons[m])] PROVE AllLoud'
      <4> DEFINE r == Cancelled(mons[m])
      <4>1. /\ r \in Monitor /\ mons' = [mons EXCEPT ![m] = r]
            /\ r.eventsEnabled = mons[m].eventsEnabled /\ (Loud(mons[m]) => Loud(r))
        BY <3>2, <3>3
      <4> HIDE DEF r
      <4> QED
        BY <2>2, <4>1
    <3> QED
      BY <2>3, <3>1, <3>3
  <2>8. ASSUME NEW m \in 1..Len(mons), Namespace(m) \/ Callback(m) PROVE AllLoud'
    <3>1. PICK r \in Monitor : mons' = [mons EXCEPT ![m] = r] /\ Same(r, mons[m])
      BY <1>0, <2>8, NamespaceStep
    <3>2. r = mons'[m] /\ r.eventsEnabled = mons[m].eventsEnabled
      BY <3>1, Update DEF Same
    <3>3. ASSUME NEW t, mons' = [mons EXCEPT ![m] = t] PROVE r = t
      BY <1>0, <3>2, <3>3
    <3>4. CASE Namespace(m)
      <4>1. \/ \E order : r = Listed(mons[m], order)
            \/ \E n : r = Appeared(mons[m], n)
            \/ \E n : r = Disappeared(mons[m], n)
            \/ r = Stopped(mons[m])
        <5>1. CASE NamespaceList(m)
          BY <3>3, <5>1 DEF NamespaceList
        <5>2. CASE NamespaceWatch(m)
          BY <3>3, <5>2 DEF NamespaceWatch
        <5>3. CASE NamespaceInformerStop(m)
          BY <3>3, <5>3 DEF NamespaceInformerStop
        <5> QED
          BY <3>4, <5>1, <5>2, <5>3 DEF Namespace
      <4>2. Loud(mons[m]) => Loud(r)
        BY <1>0, <4>1, StaysLoud
      <4> QED
        BY <2>2, <3>1, <3>2, <4>2
    <3>5. CASE OnAdd(m) \/ OnDelete(m)
      <4>1. \/ r = Taken(mons[m])
            \/ \E n : r = Removed(mons[m], n)
            \/ \E n, new : r = Stored(mons[m], n, new) /\ mons[m].cb.pc = "idle" /\ n \notin DOMAIN mons[m].varying
        <5>1. CASE OnAdd(m)
          BY <3>3, <5>1 DEF OnAdd, Notified
        <5>2. CASE OnDelete(m)
          BY <3>3, <5>2 DEF OnDelete
        <5> QED
          BY <3>5, <5>1, <5>2
      <4>2. Loud(mons[m]) => Loud(r)
        BY <1>0, <4>1, StaysLoud
      <4> QED
        BY <2>2, <3>1, <3>2, <4>2
    <3>6. CASE OnAddStart(m)
      <4> DEFINE u == At(m)
      <4>1. r = Begun(mons[m], mons[m].cb.ns, u) /\ mons[m].cb.pc = "stored"
        BY <3>3, <3>6 DEF OnAddStart
      <4>2. mons[m].cb.ns \in DOMAIN mons[m].varying
        BY <1>0, <4>1 DEF Lives
      <4>3. u \in BOOLEAN
        OBVIOUS
      <4>4. mons[m].eventsEnabled \/ u => Loud(mons[m])
        BY <1>0
      <4> HIDE DEF u
      <4>5. mons[m].eventsEnabled \/ u => Loud(r)
        BY <1>0, <4>1, <4>2, <4>3, <4>4, BegunLoud
      <4>6. r.eventsEnabled \/ At(m) => Loud(r)
        BY <3>2, <4>5 DEF u
      <4> QED
        BY <2>1, <3>1, <4>6
    <3>7. CASE OnAddReturns(m)
      <4>1. r = [mons[m] EXCEPT !.cb = NoCallback] /\ mons[m].cb.pc = "poll"
        BY <3>3, <3>7 DEF OnAddReturns
      <4>2. Loud(mons[m]) => Loud(r)
        BY <1>0, <4>1, StaysLoud
      <4> QED
        BY <2>2, <3>1, <3>2, <4>2
    <3> QED
      BY <2>8, <3>4, <3>5, <3>6, <3>7 DEF Callback
  <2> QED
    BY <1>0, <1>2, <2>3, <2>4, <2>b, <2>5, <2>6, <2>7, <2>8, MonsFrame
<1> QED
  BY <1>1, <1>2

-----------------------------------------------------------------------------
(* The tables of the controller and of the manager.                        *)

\* Monitors that differ in nothing these tables are about.
Alike(r, s) == r.id = s.id /\ r.started = s.started /\ r.cancelled = s.cancelled

\* What a step may do to the monitors there are: the binding stays, the worker starts the
\* monitor it holds, and the worker or the other goroutine cancels the one it holds.
LEMMA Kept ==
    ASSUME TypeOK, Held, AllLive, [Next]_vars, NEW j \in 1..Len(mons)
    PROVE  /\ mons'[j].id = mons[j].id
           /\ mons[j].started => mons'[j].started
           /\ mons'[j].started => mons[j].started \/ (StartNamespaceInformer /\ worker.mon = j)
           /\ StartNamespaceInformer /\ worker.mon = j => mons'[j].started
           /\ mons'[j].cancelled => \/ mons[j].cancelled
                                    \/ UpdateStop /\ worker.mon = j
                                    \/ MonitorStop /\ other.mon = j
<1>0. /\ \A m \in 1..Len(mons) : mons[m] \in Monitor
      /\ Len(mons) \in Nat /\ DOMAIN mons = 1..Len(mons) /\ cluster \subseteq Namespaces
  BY MonsChange
<1>1. ASSUME NEW s \in Monitor
      PROVE  /\ StartedMonitor(s) \in Monitor /\ StartedMonitor(s).id = s.id
             /\ StartedMonitor(s).started /\ StartedMonitor(s).cancelled = s.cancelled
             /\ \A t \in Opened(s) : /\ t \in Monitor /\ t.id = s.id /\ t.started = s.started
                                     /\ t.cancelled => s.cancelled
             /\ EnabledFuture(s) \in Monitor /\ Alike(EnabledFuture(s), s)
             /\ EnabledInformers(s) \in Monitor /\ Alike(EnabledInformers(s), s)
             /\ Cancelled(s) \in Monitor /\ Cancelled(s).id = s.id /\ Cancelled(s).started = s.started
  <2>1. /\ StartedMonitor(s) \in Monitor /\ EnabledFuture(s) \in Monitor
        /\ EnabledInformers(s) \in Monitor /\ Cancelled(s) \in Monitor
    BY <1>0, MonitorTypes
  <2>2. /\ StartedMonitor(s).id = s.id
        /\ StartedMonitor(s).started /\ StartedMonitor(s).cancelled = s.cancelled
    BY DEF StartedMonitor, Monitor
  <2>5. \A t \in Opened(s) : t.id = s.id /\ t.started = s.started /\ (t.cancelled => s.cancelled)
    BY DEF Monitor, Opened, Restarted, StartedFixed, StartedVarying
  <2>6. \A t \in Opened(s) : t \in Monitor
    BY <1>0, MonitorTypes
  <2>3. Alike(EnabledFuture(s), s) /\ Alike(EnabledInformers(s), s)
    BY DEF EnabledFuture, EnabledInformers, Monitor, Alike
  <2>4. Cancelled(s).id = s.id /\ Cancelled(s).started = s.started
    BY DEF Cancelled, Monitor
  <2> QED
    BY <2>1, <2>2, <2>3, <2>4, <2>5, <2>6
<1>2. ASSUME NEW m \in 1..Len(mons), NEW r \in Monitor, mons' = [mons EXCEPT ![m] = r]
      PROVE  mons'[j] = IF j = m THEN r ELSE mons[j]
  BY <1>2, Update
<1>3. CASE mons' = mons /\ ~StartNamespaceInformer
  BY <1>3
<1>4. CASE (EnableCheck \/ UpdateAdd) /\ AddMonitor(Head1)
  <2>1. mons'[j] = mons[j]
    BY <1>4, MonsChange, Added
  <2>2. ~StartNamespaceInformer
    BY <1>4 DEF EnableCheck, UpdateAdd, StartNamespaceInformer, Goes
  <2> QED
    BY <2>1, <2>2
<1>a. CASE Opens
  <2>1. PICK r \in Opened(mons[worker.mon]) :
            worker.mon \in 1..Len(mons) /\ mons' = [mons EXCEPT ![worker.mon] = r]
    BY <1>a, MonsChange
  <2>2. /\ r \in Monitor /\ r.id = mons[worker.mon].id /\ r.started = mons[worker.mon].started
        /\ r.cancelled => mons[worker.mon].cancelled
    BY <1>0, <1>1, <2>1
  <2>3. mons'[j] = IF j = worker.mon THEN r ELSE mons[j]
    BY <1>2, <2>1, <2>2
  <2>4. ~StartNamespaceInformer
    <3>1. Opens => worker'.pc \in {"begin", "poll"}
      BY Effects DEF Opens, MonitorStart, StartStatic, StartVarying
    <3>2. StartNamespaceInformer => worker'.pc = "synced"
      BY Effects DEF StartNamespaceInformer
    <3> QED
      BY <1>a, <3>1, <3>2
  <2> QED
    BY <2>2, <2>3, <2>4
<1>5. CASE StartNamespaceInformer
  <2> DEFINE m == worker.mon
             r == StartedMonitor(mons[m])
  <2>1. m \in 1..Len(mons) /\ mons' = [mons EXCEPT ![m] = r]
    BY <1>5, MonsChange
  <2>2. r \in Monitor /\ r.id = mons[m].id /\ r.started /\ r.cancelled = mons[m].cancelled
    BY <1>0, <1>1, <2>1
  <2> HIDE DEF r, m
  <2>3. mons'[j] = IF j = m THEN r ELSE mons[j]
    BY <1>2, <2>1, <2>2
  <2> QED
    BY <1>5, <2>2, <2>3 DEF m
<1>6. CASE (UnlockEventsFor \/ EnableKubeEventCb) /\ ~StartNamespaceInformer
  <2>1. \/ mons' = mons
        \/ \E m \in 1..Len(mons) : \E r \in {EnabledInformers(mons[m]), EnabledFuture(mons[m])} :
              mons' = [mons EXCEPT ![m] = r]
    BY <1>6, MonsChange
  <2>2. ASSUME NEW m \in 1..Len(mons), NEW r \in {EnabledInformers(mons[m]), EnabledFuture(mons[m])},
               mons' = [mons EXCEPT ![m] = r]
        PROVE  Alike(mons'[j], mons[j])
    <3>1. r \in Monitor /\ Alike(r, mons[m])
      BY <1>0, <1>1
    <3>2. mons'[j] = IF j = m THEN r ELSE mons[j]
      BY <1>2, <2>2, <3>1
    <3> QED
      BY <3>1, <3>2 DEF Alike
  <2>3. Alike(mons'[j], mons[j])
    BY <2>1, <2>2 DEF Alike
  <2> QED
    BY <1>6, <2>3 DEF Alike
<1>7. CASE UpdateStop \/ MonitorStop
  <2>1. \/ mons' = mons
        \/ \E m \in 1..Len(mons) : /\ mons' = [mons EXCEPT ![m] = Cancelled(mons[m])]
                                   /\ (UpdateStop /\ worker.mon = m) \/ (MonitorStop /\ other.mon = m)
    BY <1>7, MonsChange
  <2>2. ~StartNamespaceInformer
    <3>1. UpdateStop => ~StartNamespaceInformer
      BY DEF UpdateStop, StartNamespaceInformer, Goes
    <3>2. MonitorStop => ~StartNamespaceInformer
      <4>1. MonitorStop => worker' = worker
        BY DEF MonitorStop
      <4>2. StartNamespaceInformer => worker'.pc = "synced" /\ worker.pc = "begin"
        BY Effects DEF StartNamespaceInformer
      <4> QED
        BY <4>1, <4>2
    <3> QED
      BY <1>7, <3>1, <3>2
  <2>3. ASSUME NEW m \in 1..Len(mons), mons' = [mons EXCEPT ![m] = Cancelled(mons[m])]
        PROVE  /\ mons'[j].id = mons[j].id /\ mons'[j].started = mons[j].started
               /\ j # m => mons'[j] = mons[j]
    <3> DEFINE r == Cancelled(mons[m])
    <3>1. r \in Monitor /\ r.id = mons[m].id /\ r.started = mons[m].started /\ mons' = [mons EXCEPT ![m] = r]
      BY <1>0, <1>1, <2>3
    <3> HIDE DEF r
    <3>2. mons'[j] = IF j = m THEN r ELSE mons[j]
      BY <1>2, <3>1
    <3> QED
      BY <3>1, <3>2
  <2>4. CASE mons' = mons
    BY <2>2, <2>4
  <2>5. ASSUME NEW m \in 1..Len(mons), mons' = [mons EXCEPT ![m] = Cancelled(mons[m])],
               (UpdateStop /\ worker.mon = m) \/ (MonitorStop /\ other.mon = m)
        PROVE  /\ mons'[j].id = mons[j].id
               /\ mons[j].started => mons'[j].started
               /\ mons'[j].started => mons[j].started
               /\ mons'[j].cancelled => \/ mons[j].cancelled
                                        \/ UpdateStop /\ worker.mon = j
                                        \/ MonitorStop /\ other.mon = j
    BY <2>3, <2>5
  <2> QED
    BY <2>1, <2>2, <2>4, <2>5
<1>8. ASSUME NEW m \in DOMAIN mons, Namespace(m) \/ Callback(m), ~StartNamespaceInformer
      PROVE  Alike(mons'[j], mons[j])
  <2>1. PICK r \in Monitor : mons' = [mons EXCEPT ![m] = r] /\ Same(r, mons[m])
    BY <1>8, NamespaceStep
  <2>2. mons'[j] = IF j = m THEN r ELSE mons[j]
    BY <1>0, <1>2, <2>1
  <2> QED
    BY <2>1, <2>2 DEF Same, Alike
<1>9. CASE ~StartNamespaceInformer /\ \E m \in DOMAIN mons : Namespace(m) \/ Callback(m)
  <2>1. Alike(mons'[j], mons[j])
    BY <1>8, <1>9
  <2> QED
    BY <1>9, <2>1 DEF Alike
<1> QED
  BY <1>3, <1>4, <1>a, <1>5, <1>6, <1>7, <1>9, MonsFrame

\* How the control of the other goroutine goes on.
LEMMA OtherEffects ==
    ASSUME TypeOK
    PROVE  /\ DisableKubernetesBindings => other.pc = "idle" /\ other'.pc \in {"idle", "read"}
           /\ StopMonitor =>
                 /\ other.pc = "read"
                 /\ \/ other'.pc \in {"idle", "read"}
                    \/ /\ other'.pc = "cancel" /\ other'.todo = other.todo
                       /\ index[Head(other.todo)] # None /\ other'.mon = index[Head(other.todo)]
           /\ MonitorStop => /\ other.pc = "cancel" /\ other'.pc = "delete"
                             /\ other'.todo = other.todo /\ other'.mon = other.mon
           /\ StopMonitorDelete => other.pc = "delete" /\ other'.pc \in {"idle", "read"}
<1>1. other = [pc |-> other.pc, op |-> other.op, todo |-> other.todo, mon |-> other.mon]
  BY DEF TypeOK, IsControl
<1>2. \A ids : StopNext(ids).pc \in {"idle", "read"}
  BY DEF StopNext, NothingUnderWay
<1>3. DisableKubernetesBindings => other.pc = "idle" /\ other'.pc \in {"idle", "read"}
  BY <1>2 DEF DisableKubernetesBindings
<1>4. ASSUME StopMonitor
      PROVE  /\ other.pc = "read"
             /\ \/ other'.pc \in {"idle", "read"}
                \/ /\ other'.pc = "cancel" /\ other'.todo = other.todo
                   /\ index[Head(other.todo)] # None /\ other'.mon = index[Head(other.todo)]
  <2>1. CASE index[Head(other.todo)] = None
    BY <1>2, <1>4, <2>1 DEF StopMonitor
  <2>2. CASE index[Head(other.todo)] # None
    <3>1. other' = [other EXCEPT !.pc = "cancel", !.mon = index[Head(other.todo)]] /\ other.pc = "read"
      BY <1>4, <2>2 DEF StopMonitor
    <3> QED
      BY <1>1, <2>2, <3>1
  <2> QED
    BY <2>1, <2>2
<1>5. MonitorStop => /\ other.pc = "cancel" /\ other'.pc = "delete"
                     /\ other'.todo = other.todo /\ other'.mon = other.mon
  BY <1>1 DEF MonitorStop
<1>6. StopMonitorDelete => other.pc = "delete" /\ other'.pc \in {"idle", "read"}
  BY <1>2 DEF StopMonitorDelete
<1> QED
  BY <1>3, <1>4, <1>5, <1>6

\* The members of a list that goes on.
LEMMA HeadAndTail ==
    ASSUME NEW S, NEW s \in Seq(S), s # <<>>
    PROVE  /\ Head(s) \in Range(s)
           /\ \A x \in Range(s) : x = Head(s) \/ x \in Range(Tail(s))
           /\ Len(s) > 1 \/ \A x \in Range(s) : x = Head(s)
<1>1. /\ Len(s) \in Nat /\ Len(s) >= 1 /\ DOMAIN s = 1..Len(s) /\ Head(s) = s[1]
      /\ Tail(s) \in Seq(S) /\ Len(Tail(s)) = Len(s) - 1 /\ DOMAIN Tail(s) = 1..(Len(s) - 1)
      /\ \A i \in 1..(Len(s) - 1) : Tail(s)[i] = s[i + 1]
  OBVIOUS
<1>2. Head(s) \in Range(s)
  BY <1>1 DEF Range
<1>3. ASSUME NEW x \in Range(s) PROVE (x = Head(s) \/ x \in Range(Tail(s))) /\ (Len(s) > 1 \/ x = Head(s))
  <2>1. PICK i \in 1..Len(s) : x = s[i]
    BY <1>1 DEF Range
  <2>2. CASE i = 1
    BY <1>1, <2>1, <2>2
  <2>3. CASE i # 1
    <3>1. i - 1 \in 1..(Len(s) - 1) /\ (i - 1) + 1 = i /\ Len(s) > 1
      BY <1>1, <2>3
    <3>2. Tail(s)[i - 1] = x
      BY <1>1, <2>1, <3>1
    <3> QED
      BY <1>1, <3>1, <3>2 DEF Range
  <2> QED
    BY <2>2, <2>3
<1> QED
  BY <1>2, <1>3

\* The steps of the goroutines are different steps.
LEMMA Apart ==
    ASSUME TypeOK
    PROVE  /\ StartNamespaceInformer => worker.pc = "begin" /\ worker'.pc = "synced"
           /\ UpdateStop => worker.pc = "stop" /\ worker'.pc = "add"
           /\ MonitorStop => other.pc = "cancel" /\ other'.pc = "delete"
<1>1. StartNamespaceInformer => worker.pc = "begin" /\ worker'.pc = "synced"
  BY Effects DEF StartNamespaceInformer
<1>2. UpdateStop => worker.pc = "stop" /\ worker'.pc = "add"
  BY Effects DEF UpdateStop
<1> QED
  BY <1>1, <1>2, OtherEffects

\* What the proofs below use of the types and of the monitors.
LEMMA TableFacts ==
    ASSUME TypeOK, Held, AllLive, [Next]_vars
    PROVE  /\ Len(mons) \in Nat /\ None = 0
           /\ \A b \in Bindings : index[b] \in 0..Len(mons) /\ (index[b] # None => index[b] \in 1..Len(mons))
           /\ worker.mon \in 0..Len(mons) /\ (worker.mon # None => worker.mon \in 1..Len(mons))
           /\ other.mon \in 0..Len(mons) /\ (other.mon # None => other.mon \in 1..Len(mons))
           /\ \A j \in 1..Len(mons) : mons'[j].id = mons[j].id
           /\ (worker' = worker \/ worker.pc # "begin" \/ worker'.pc # "synced") =>
                 \A j \in 1..Len(mons) : mons'[j].started <=> mons[j].started
           /\ \A j \in 1..Len(mons) : mons[j].started => mons'[j].started
           /\ \A j \in 1..Len(mons) : mons'[j].cancelled =>
                 \/ mons[j].cancelled
                 \/ worker.pc = "stop" /\ worker'.pc = "add" /\ worker.mon = j
                 \/ other.pc = "cancel" /\ other'.pc = "delete" /\ other.mon = j
<1>1. /\ Len(mons) \in Nat /\ None = 0
      /\ \A b \in Bindings : index[b] \in 0..Len(mons)
      /\ worker.mon \in 0..Len(mons) /\ other.mon \in 0..Len(mons)
  BY DEF TypeOK, IsControl, None
<1>2. \A j \in 0..Len(mons) : j # None => j \in 1..Len(mons)
  BY <1>1
<1>3. \A j \in 1..Len(mons) : mons'[j].id = mons[j].id /\ (mons[j].started => mons'[j].started)
  BY Kept
<1>4. ASSUME worker' = worker \/ worker.pc # "begin" \/ worker'.pc # "synced", NEW j \in 1..Len(mons)
      PROVE  mons'[j].started <=> mons[j].started
  <2>1. ~StartNamespaceInformer
    BY <1>4, Apart
  <2> QED
    BY <2>1, Kept
<1>5. ASSUME NEW j \in 1..Len(mons), mons'[j].cancelled
      PROVE  \/ mons[j].cancelled
             \/ worker.pc = "stop" /\ worker'.pc = "add" /\ worker.mon = j
             \/ other.pc = "cancel" /\ other'.pc = "delete" /\ other.mon = j
  BY <1>5, Kept, Apart
<1> QED
  BY <1>1, <1>2, <1>3, <1>4, <1>5

\* Every step of the other goroutine keeps the tables in order.
LEMMA OtherTables ==
    ASSUME TypeOK, Held, Indexed, Enabling, AllLive, DisableKubernetesBindings \/ OtherSteps
    PROVE  Held' /\ Indexed' /\ Enabling'
<1>0. [Next]_vars
  BY DEF Next
<1>1. worker' = worker /\ Head1' = Head1 /\ infos' = infos
  BY DEF DisableKubernetesBindings, OtherSteps, StopMonitor, MonitorStop, StopMonitorDelete, Head1, hook
<1>2. /\ Len(mons) \in Nat /\ None = 0
      /\ \A b \in Bindings : index[b] # None => index[b] \in 1..Len(mons)
      /\ worker.mon # None => worker.mon \in 1..Len(mons)
      /\ other.mon # None => other.mon \in 1..Len(mons)
      /\ \A j \in 1..Len(mons) : mons'[j].id = mons[j].id /\ (mons'[j].started <=> mons[j].started)
      /\ \A j \in 1..Len(mons) : mons'[j].cancelled =>
            mons[j].cancelled \/ (other.pc = "cancel" /\ other'.pc = "delete" /\ other.mon = j)
  <2>1. worker.pc = "stop" => worker'.pc # "add"
    BY <1>1
  <2> QED
    BY <1>0, <1>1, <2>1, TableFacts
<1>3. /\ worker.pc \notin {"idle", "snapshot", "get"} => Head1 \in Bindings
      /\ other.pc # "idle" => Head(other.todo) \in Bindings
  BY HeadType
<1>4. \A b \in Bindings : index'[b] = index[b] \/ index'[b] = None
  <2>1. CASE StopMonitorDelete
    <3>1. other.pc = "delete" /\ index' = [index EXCEPT ![Head(other.todo)] = None] /\ index \in [Bindings -> 0..Len(mons)]
      BY <2>1 DEF StopMonitorDelete, TypeOK
    <3> QED
      BY <1>3, <3>1
  <2>2. CASE DisableKubernetesBindings \/ StopMonitor \/ MonitorStop
    BY <2>2 DEF DisableKubernetesBindings, StopMonitor, MonitorStop
  <2> QED
    BY <2>1, <2>2 DEF OtherSteps
<1>5. links' = links \/ links' = {}
  BY DEF DisableKubernetesBindings, OtherSteps, StopMonitor, MonitorStop, StopMonitorDelete
<1>6. overlap' \/ (other.pc # "idle" /\ overlap' = overlap)
  BY DEF DisableKubernetesBindings, OtherSteps, StopMonitor, MonitorStop, StopMonitorDelete
<1>7. Enabling'
  <2>1. ~(worker.op = "enable" /\ ~overlap')
    BY <1>6 DEF Enabling
  <2> QED
    BY <1>1, <2>1 DEF Enabling
<1>8. Held'
  <2>1. other'.pc = "cancel" => other'.mon # None /\ mons'[other'.mon].id = Head(other'.todo)
    <3>1. CASE StopMonitor
      <4>1. ASSUME other'.pc = "cancel"
            PROVE  /\ Head(other.todo) \in Bindings /\ other'.todo = other.todo
                   /\ index[Head(other.todo)] # None /\ other'.mon = index[Head(other.todo)]
        BY <1>3, <3>1, <4>1, OtherEffects
      <4> QED
        BY <1>2, <4>1 DEF Indexed
    <3>2. CASE DisableKubernetesBindings \/ MonitorStop \/ StopMonitorDelete
      BY <3>2, OtherEffects
    <3> QED
      BY <3>1, <3>2 DEF OtherSteps
  <2>2. /\ worker.pc \in {"run", "begin", "poll", "synced", "flag"} => worker.mon # None
        /\ worker.pc = "stop" /\ worker.mon # None => mons'[worker.mon].id = Head1
    BY <1>2 DEF Held
  <2>3. worker.pc \in {"run", "begin", "poll"} => ~mons'[worker.mon].started /\ index'[Head1] \in {None, worker.mon}
    BY <1>2, <1>3, <1>4 DEF Held
  <2>4. worker.pc \in {"link", "send", "start"} /\ index'[Head1] # None => ~mons'[index'[Head1]].started
    BY <1>2, <1>3, <1>4 DEF Held
  <2> QED
    BY <1>1, <2>1, <2>2, <2>3, <2>4 DEF Held
<1>9. Indexed'
  <2> SUFFICES ASSUME NEW b \in Bindings, index'[b] # None
               PROVE  /\ mons'[index'[b]].id = b
                      /\ mons'[index'[b]].cancelled => other'.pc = "delete" /\ Head(other'.todo) = b
                      /\ b \in links' /\ ~mons'[index'[b]].started =>
                            worker.pc \in {"link", "send", "start", "run", "begin", "poll"} /\ Head1 = b
    BY <1>1 DEF Indexed
  <2>1. index'[b] = index[b] /\ index[b] # None /\ index[b] \in 1..Len(mons)
    BY <1>2, <1>4
  <2>2. /\ mons[index[b]].id = b
        /\ mons[index[b]].cancelled => other.pc = "delete" /\ Head(other.todo) = b
        /\ b \in links /\ ~mons[index[b]].started =>
              worker.pc \in {"link", "send", "start", "run", "begin", "poll"} /\ Head1 = b
    BY <2>1 DEF Indexed
  <2>3. mons'[index'[b]].id = b
    BY <1>2, <2>1, <2>2
  <2>4. b \in links' /\ ~mons'[index'[b]].started =>
            worker.pc \in {"link", "send", "start", "run", "begin", "poll"} /\ Head1 = b
    BY <1>2, <1>5, <2>1, <2>2
  <2>5. ASSUME mons'[index'[b]].cancelled PROVE other'.pc = "delete" /\ Head(other'.todo) = b
    <3>1. mons[index[b]].cancelled \/ (other.pc = "cancel" /\ other'.pc = "delete" /\ other.mon = index[b])
      BY <1>2, <2>1, <2>5
    <3>2. CASE other.pc = "cancel"
      <4>1. other'.pc = "delete" /\ other.mon = index[b] /\ mons[other.mon].id = Head(other.todo)
        BY <2>2, <3>1, <3>2 DEF Held
      <4>2. other'.todo = other.todo
        BY <3>2, <4>1, OtherEffects DEF OtherSteps
      <4> QED
        BY <2>2, <4>1, <4>2
    <3>3. CASE other.pc # "cancel"
      <4>1. other.pc = "delete" /\ Head(other.todo) = b
        BY <2>2, <3>1, <3>3
      <4>2. StopMonitorDelete
        BY <4>1, OtherEffects DEF OtherSteps
      <4>3. index'[b] = None
        BY <4>1, <4>2 DEF StopMonitorDelete, TypeOK
      <4> QED
        BY <2>1, <4>3
    <3> QED
      BY <3>2, <3>3
  <2> QED
    BY <2>3, <2>4, <2>5
<1> QED
  BY <1>7, <1>8, <1>9

\* A step keeps Indexed when it keeps the index and the worker does not leave a monitor that is
\* linked and not started.
LEMMA IndexedStays ==
    ASSUME TypeOK, Held, Indexed, AllLive, [Next]_vars,
           index' = index, other' = other, worker' = worker \/ worker.pc # "stop",
           \A b \in links' : b \in links \/ (b = Head1' /\ worker'.pc \in {"link", "send", "start", "run", "begin", "poll"}),
           worker.pc \in {"link", "send", "start", "run", "begin", "poll"} =>
               \/ worker'.pc \in {"link", "send", "start", "run", "begin", "poll"} /\ Head1' = Head1
               \/ index[Head1] # None => mons'[index[Head1]].started
    PROVE  Indexed'
<1> SUFFICES ASSUME NEW b \in Bindings, index[b] # None
             PROVE  /\ mons'[index[b]].id = b
                    /\ mons'[index[b]].cancelled => other.pc = "delete" /\ Head(other.todo) = b
                    /\ b \in links' /\ ~mons'[index[b]].started =>
                          worker'.pc \in {"link", "send", "start", "run", "begin", "poll"} /\ Head1' = b
  BY DEF Indexed
<1>1. /\ index[b] \in 1..Len(mons)
      /\ \A j \in 1..Len(mons) : mons'[j].id = mons[j].id /\ (mons[j].started => mons'[j].started)
  BY TableFacts
<1>2. \A j \in 1..Len(mons) : mons'[j].cancelled => mons[j].cancelled
  <2>1. ~(worker.pc = "stop" /\ worker'.pc = "add") /\ ~(other.pc = "cancel" /\ other'.pc = "delete")
    OBVIOUS
  <2> QED
    BY <2>1, TableFacts
<1>3. /\ mons[index[b]].id = b
      /\ mons[index[b]].cancelled => other.pc = "delete" /\ Head(other.todo) = b
      /\ b \in links /\ ~mons[index[b]].started =>
            worker.pc \in {"link", "send", "start", "run", "begin", "poll"} /\ Head1 = b
  BY DEF Indexed
<1>4. mons'[index[b]].id = b /\ (mons'[index[b]].cancelled => other.pc = "delete" /\ Head(other.todo) = b)
  BY <1>1, <1>2, <1>3
<1>5. ASSUME b \in links', ~mons'[index[b]].started
      PROVE  worker'.pc \in {"link", "send", "start", "run", "begin", "poll"} /\ Head1' = b
  <2>1. ~mons[index[b]].started
    BY <1>1, <1>5
  <2>2. CASE b \in links
    <3>1. worker.pc \in {"link", "send", "start", "run", "begin", "poll"} /\ Head1 = b
      BY <1>3, <2>1, <2>2
    <3> QED
      BY <1>5, <3>1
  <2>3. CASE b \notin links
    BY <1>5, <2>3
  <2> QED
    BY <2>2, <2>3
<1> QED
  BY <1>4, <1>5

\* A binding that is in order stays so while nobody disables or updates it.
LEMMA GoodStays ==
    ASSUME TypeOK, Held, AllLive, [Next]_vars, NEW b \in Bindings, Good(b),
           index'[b] = index[b], links \subseteq links', infos \subseteq infos', other.pc = "idle",
           worker.pc # "stop"
    PROVE  Good(b)'
<1>1. /\ index[b] # None /\ index[b] \in 1..Len(mons)
      /\ \A j \in 1..Len(mons) : mons[j].started => mons'[j].started
  BY TableFacts DEF Good
<1>2. \A j \in 1..Len(mons) : mons'[j].cancelled => mons[j].cancelled
  <2>1. ~(worker.pc = "stop" /\ worker'.pc = "add") /\ ~(other.pc = "cancel" /\ other'.pc = "delete")
    OBVIOUS
  <2> QED
    BY <2>1, TableFacts
<1> QED
  BY <1>1, <1>2 DEF Good

\* Steps that leave the two goroutines and the tables alone.
LEMMA QuietTables ==
    ASSUME TypeOK, Held, Indexed, Enabling, AllLive, [Next]_vars, worker' = worker,
           UNCHANGED <<links, index, other, infos, overlap>>
    PROVE  Held' /\ Indexed' /\ Enabling'
<1>0. Head1' = Head1
  BY DEF Head1
<1>1. /\ worker.pc \notin {"idle", "snapshot", "get"} => Head1 \in Bindings
      /\ other.pc # "idle" => Head(other.todo) \in Bindings
  BY HeadType
<1>2. Indexed'
  BY <1>0, IndexedStays
<1>3. /\ \A b \in Bindings : index[b] # None => index[b] \in 1..Len(mons)
      /\ worker.mon # None => worker.mon \in 1..Len(mons)
      /\ other.mon # None => other.mon \in 1..Len(mons)
      /\ \A j \in 1..Len(mons) : mons'[j].id = mons[j].id /\ (mons'[j].started <=> mons[j].started)
  BY TableFacts
<1>4. \A j \in 1..Len(mons) : mons'[j].cancelled => mons[j].cancelled
  <2>1. ~(worker.pc = "stop" /\ worker'.pc = "add") /\ ~(other.pc = "cancel" /\ other'.pc = "delete")
    OBVIOUS
  <2> QED
    BY <2>1, TableFacts
<1>5. Held'
  <2>1. worker.pc = "stop" /\ worker.mon # None => mons'[worker.mon].id = Head1
    BY <1>3 DEF Held
  <2>2. worker.pc \in {"run", "begin", "poll"} => ~mons'[worker.mon].started /\ index[Head1] \in {None, worker.mon}
    BY <1>3 DEF Held
  <2>3. worker.pc \in {"link", "send", "start"} /\ index[Head1] # None => ~mons'[index[Head1]].started
    BY <1>1, <1>3 DEF Held
  <2>4. other.pc = "cancel" => other.mon # None /\ mons'[other.mon].id = Head(other.todo)
    BY <1>3 DEF Held
  <2> QED
    BY <1>0, <2>1, <2>2, <2>3, <2>4 DEF Held
<1>6. Enabling'
  <2>1. ASSUME worker.op = "enable", ~overlap
        PROVE  /\ \A b \in Bindings : Good(b) => Good(b)'
               /\ worker.pc \in {"synced", "sync"} => mons'[index[Head1]].started
    <3>1. other.pc = "idle"
      BY <2>1 DEF Enabling
    <3>2. worker.pc \in {"synced", "sync"} => mons'[index[Head1]].started
      BY <1>1, <1>3, <2>1 DEF Enabling
    <3>3. ASSUME NEW b \in Bindings, Good(b) PROVE Good(b)'
      BY <1>3, <1>4, <3>3 DEF Good
    <3> QED
      BY <3>2, <3>3
  <2> QED
    BY <1>0, <2>1 DEF Enabling
<1> QED
  BY <1>2, <1>5, <1>6

\* The part of Held that is about the worker suffices for its steps.
LEMMA HeldByWorker ==
    ASSUME TypeOK, Held, AllLive, [Next]_vars, other' = other,
           worker'.pc \in {"run", "begin", "poll", "synced", "flag"} => worker'.mon # None,
           worker'.pc = "stop" /\ worker'.mon # None => mons'[worker'.mon].id = Head1',
           worker'.pc \in {"run", "begin", "poll"} => ~mons'[worker'.mon].started /\ index'[Head1'] \in {None, worker'.mon},
           worker'.pc \in {"link", "send", "start"} /\ index'[Head1'] # None =>
               ~mons'[index'[Head1']].started
    PROVE  Held'
<1>1. other.pc = "cancel" => other.mon # None /\ mons'[other.mon].id = Head(other.todo)
  BY TableFacts DEF Held
<1> QED
  BY <1>1 DEF Held

\* While the worker is elsewhere, what was promised is kept.
LEMMA EnablingStays ==
    ASSUME TypeOK, Held, Enabling, AllLive, [Next]_vars, other' = other, overlap' = overlap,
           links' = links, index' = index, infos' = infos, worker'.op = worker.op,
           worker.pc \in {"snapshot", "get", "unlock", "flag"},
           worker'.pc \in {"unlock", "flag"} \/ (worker.pc \in {"snapshot", "get"} /\ worker'.pc \in {"snapshot", "get"})
    PROVE  Enabling'
<1>1. ASSUME worker.op = "enable", ~overlap, worker.pc \in {"snapshot", "get"}, NEW b \in Bindings
      PROVE  Good(b)'
  <2>1. Good(b) /\ other.pc = "idle"
    BY <1>1 DEF Enabling
  <2> QED
    BY <2>1, GoodStays
<1>2. worker.op = "enable" /\ ~overlap => other'.pc = "idle"
  BY DEF Enabling
<1>3. worker'.pc \in {"snapshot", "get"} => worker'.op = "enable"
  BY DEF Enabling
<1> QED
  BY <1>1, <1>2, <1>3 DEF Enabling

\* The calls that begin.
LEMMA CallTables ==
    ASSUME TypeOK, Held, Indexed, Enabling, AllLive,
           EnableKubernetesBindings \/ \E b \in Bindings : UpdateMonitor(b)
    PROVE  Held' /\ Indexed' /\ Enabling'
<1>0. [Next]_vars
  BY DEF Next
<1>1. UNCHANGED <<links, index, other>> /\ worker.pc = "idle"
  BY DEF EnableKubernetesBindings, UpdateMonitor
<1>2. Indexed'
  BY <1>0, <1>1, IndexedStays
<1>3. CASE EnableKubernetesBindings
  <2>1. worker'.pc = "check" /\ worker'.op = "enable" /\ worker'.todo = BindingSeq
    BY <1>3, Effects
  <2>2. Held'
    BY <1>0, <1>1, <2>1, HeldByWorker
  <2>3. ~overlap' => other'.pc = "idle"
    BY <1>1, <1>3 DEF EnableKubernetesBindings
  <2>4. \A b \in Bindings : b \in Range(worker'.todo)
    BY <2>1 DEF Bindings
  <2>5. Enabling'
    BY <2>1, <2>3, <2>4 DEF Enabling
  <2> QED
    BY <1>2, <2>2, <2>5
<1>4. ASSUME NEW b \in Bindings, UpdateMonitor(b) PROVE Held' /\ Enabling'
  <2>1. worker'.pc = "stop" /\ worker'.op = "update" /\ worker'.todo = <<b>> /\ worker'.mon = index[b]
    BY <1>4, Effects
  <2>2. Head1' = b
    BY <2>1 DEF Head1
  <2>3. index[b] # None => mons'[index[b]].id = b
    <3>1. index[b] # None => index[b] \in 1..Len(mons) /\ mons'[index[b]].id = mons[index[b]].id
      BY <1>0, TableFacts
    <3> QED
      BY <3>1 DEF Indexed
  <2>4. Held'
    BY <1>0, <1>1, <2>1, <2>2, <2>3, HeldByWorker
  <2>5. Enabling'
    BY <2>1 DEF Enabling
  <2> QED
    BY <2>4, <2>5
<1> QED
  BY <1>2, <1>3, <1>4

\* Taking the snapshots and unlocking.
LEMMA SnapshotTables ==
    ASSUME TypeOK, Held, Indexed, Enabling, AllLive,
           UseCache \/ SnapshotHas \/ SnapshotGet \/ UnlockEventsFor \/ EnableKubeEventCb
    PROVE  Held' /\ Indexed' /\ Enabling'
<1>0. [Next]_vars
  BY DEF Next, WorkerSteps
<1>1. UNCHANGED <<links, index, other, overlap>> /\ worker.pc \in {"snapshot", "get", "unlock", "flag"}
  BY DEF UseCache, SnapshotHas, SnapshotGet, UnlockEventsFor, EnableKubeEventCb
<1>2. Indexed'
  BY <1>0, <1>1, IndexedStays
<1>3. CASE worker' = NothingUnderWay
  <2>1. worker'.pc = "idle" /\ worker'.op = "none"
    BY <1>3, Effects
  <2>2. Held'
    BY <1>0, <1>1, <2>1, HeldByWorker
  <2>3. Enabling'
    BY <2>1 DEF Enabling
  <2> QED
    BY <1>2, <2>2, <2>3
<1>4. CASE worker' # NothingUnderWay
  <2>1. CASE UseCache \/ SnapshotHas \/ SnapshotGet
    <3>1. \/ \E v : GiveSnapshot(v)
          \/ Goes("snapshot", "get")
      <4>1. CASE UseCache
        BY <4>1 DEF UseCache
      <4>2. CASE SnapshotHas
        BY <4>2 DEF SnapshotHas
      <4>3. CASE SnapshotGet
        BY <1>4, <4>3 DEF SnapshotGet
      <4> QED
        BY <2>1, <4>1, <4>2, <4>3
    <3>2. worker'.op = worker.op /\ worker'.pc \in {"snapshot", "get", "unlock"}
      BY <3>1, Effects
    <3>3. infos' = infos /\ worker.pc \in {"snapshot", "get"}
      BY <2>1 DEF UseCache, SnapshotHas, SnapshotGet
    <3>4. Held'
      BY <1>0, <1>1, <3>2, HeldByWorker
    <3>5. Enabling'
      BY <1>0, <1>1, <3>2, <3>3, EnablingStays
    <3> QED
      BY <1>2, <3>4, <3>5
  <2>2. CASE UnlockEventsFor \/ EnableKubeEventCb
    <3>1. CASE NextUnlock
      <4>1. worker'.pc = "unlock" /\ worker'.op = worker.op
        BY <1>4, <3>1, Effects
      <4>2. Held'
        BY <1>0, <1>1, <4>1, HeldByWorker
      <4>3. infos' = infos
        BY <1>4, <3>1 DEF NextUnlock, hook
      <4>4. Enabling'
        BY <1>0, <1>1, <4>1, <4>3, EnablingStays
      <4> QED
        BY <1>2, <4>2, <4>4
    <3>2. CASE ~NextUnlock
      <4>1. UnlockEventsFor /\ worker.pc = "unlock" /\ index[Head1] # None /\ infos' = infos
        BY <2>2, <3>2 DEF UnlockEventsFor, EnableKubeEventCb, hook
      <4>2. worker' = [worker EXCEPT !.pc = "flag", !.mon = index[Head1]]
        BY <3>2, <4>1 DEF UnlockEventsFor
      <4>3. worker'.pc = "flag" /\ worker'.mon = index[Head1] /\ worker'.op = worker.op
        BY <4>2, Effects
      <4>4. Held'
        BY <1>0, <1>1, <4>1, <4>3, HeldByWorker
      <4>5. Enabling'
        BY <1>0, <1>1, <4>1, <4>3, EnablingStays
      <4> QED
        BY <1>2, <4>4, <4>5
    <3> QED
      BY <3>1, <3>2
  <2> QED
    BY <2>1, <2>2
<1> QED
  BY <1>3, <1>4

\* What is known of the worker between its calls is kept when it gives up.
LEMMA GivesUp ==
    ASSUME TypeOK, Held, Enabling, AllLive, [Next]_vars, other' = other, worker' = NothingUnderWay
    PROVE  Held' /\ Enabling'
<1>1. worker'.pc = "idle" /\ worker'.op = "none"
  BY Effects
<1>2. Held'
  BY <1>1, HeldByWorker
<1>3. Enabling'
  BY <1>1 DEF Enabling
<1> QED
  BY <1>2, <1>3

\* Linking and starting a monitor.
LEMMA StartTables ==
    ASSUME TypeOK, Held, Indexed, Enabling, AllLive,
           \/ SetLink \/ StartMonitor \/ Opens \/ PollEnds
           \/ StartNamespaceInformer \/ StartReturns \/ UpdateSend
    PROVE  Held' /\ Indexed' /\ Enabling'
<1>0. [Next]_vars
  BY DEF Next, WorkerSteps, Opens, PollEnds
<1>1. /\ UNCHANGED <<index, other, overlap, infos>> /\ worker.pc \in {"link", "start", "run", "begin", "poll", "synced", "send"}
      /\ links \subseteq links'
  BY DEF SetLink, StartMonitor, Opens, MonitorStart, StartStatic, StartVarying, PollEnds, ObjectsListed,
         PollCancelled, StartNamespaceInformer, StartReturns, UpdateSend, Goes, hook
<1>2. Head1 \in Bindings
  BY <1>1, HeadType
<1>3. /\ index[Head1] # None => index[Head1] \in 1..Len(mons)
      /\ worker.mon # None => worker.mon \in 1..Len(mons)
      /\ (worker.pc # "begin" \/ worker'.pc # "synced") => \A j \in 1..Len(mons) : mons'[j].started <=> mons[j].started
      /\ \A j \in 1..Len(mons) : mons[j].started => mons'[j].started
  BY <1>0, <1>2, TableFacts
<1>4. ASSUME worker.op = "enable", ~overlap, NEW b \in Bindings, b \notin Range(worker.todo),
             worker.pc \in {"link", "start", "run", "begin", "poll", "synced"}
      PROVE  Good(b)'
  <2>1. Good(b) /\ other.pc = "idle"
    BY <1>4 DEF Enabling
  <2> QED
    BY <1>0, <1>1, <2>1, GoodStays
<1>5. worker.op = "enable" /\ ~overlap => other'.pc = "idle"
  BY <1>1 DEF Enabling
<1>6. CASE SetLink
  <2>1. /\ worker.pc = "link" /\ worker'.pc = "start" /\ worker'.op = worker.op
        /\ worker'.todo = worker.todo /\ Head1' = Head1 /\ links' = links \union {Head1}
    BY <1>6, Effects DEF SetLink, Head1
  <2>2. Indexed'
    BY <1>0, <1>1, <2>1, IndexedStays
  <2>3. Held'
    BY <1>0, <1>1, <1>3, <2>1, HeldByWorker DEF Held
  <2>4. worker.op = "enable" /\ ~overlap => index[Head1] # None
    BY <2>1 DEF Enabling
  <2>5. Enabling'
    BY <1>1, <1>4, <1>5, <2>1, <2>4 DEF Enabling
  <2> QED
    BY <2>2, <2>3, <2>5
<1>7. CASE StartMonitor
  <2>1. worker.pc = "start" /\ links' = links
    BY <1>7 DEF StartMonitor
  <2>2. CASE worker' = NothingUnderWay /\ index[Head1] = None
    <3>1. Indexed'
      BY <1>0, <1>1, <2>1, <2>2, IndexedStays
    <3> QED
      BY <1>0, <1>1, <2>2, <3>1, GivesUp
  <2>3. CASE /\ index[Head1] # None /\ worker'.pc = "run" /\ worker'.op = worker.op
             /\ worker'.todo = worker.todo /\ worker'.mon = index[Head1]
    <3>1. Head1' = Head1
      BY <2>3 DEF Head1
    <3>2. Indexed'
      BY <1>0, <1>1, <2>1, <2>3, <3>1, IndexedStays
    <3>3. ~mons'[index[Head1]].started
      BY <1>3, <2>1, <2>3 DEF Held
    <3>4. Held'
      BY <1>0, <1>1, <2>3, <3>1, <3>3, HeldByWorker
    <3>5. worker.op = "enable" /\ ~overlap => Head1 \in links
      BY <2>1 DEF Enabling
    <3>6. Enabling'
      BY <1>1, <1>4, <1>5, <2>1, <2>3, <3>1, <3>5 DEF Enabling
    <3> QED
      BY <3>2, <3>4, <3>6
  <2> QED
    BY <1>7, <2>2, <2>3, Effects
<1>a. CASE Opens \/ PollEnds
  <2>1. /\ worker.pc \in {"run", "begin", "poll"} /\ worker'.pc \in {"begin", "poll"} /\ worker'.op = worker.op
        /\ worker'.todo = worker.todo /\ worker'.mon = worker.mon /\ links' = links
    <3>1. \E p \in {"run", "begin", "poll"}, q \in {"begin", "poll"} : Goes(p, q)
      BY <1>a DEF Opens, MonitorStart, StartStatic, StartVarying, PollEnds, ObjectsListed, PollCancelled
    <3>2. links' = links
      BY <1>a DEF Opens, MonitorStart, StartStatic, StartVarying, PollEnds, ObjectsListed, PollCancelled
    <3> QED
      BY <3>1, <3>2, Effects
  <2>2. Head1' = Head1
    BY <2>1 DEF Head1
  <2>3. /\ worker.mon # None /\ worker.mon \in 1..Len(mons) /\ index[Head1] \in {None, worker.mon}
        /\ ~mons'[worker.mon].started
    BY <1>3, <2>1 DEF Held
  <2>4. Indexed'
    BY <1>0, <1>1, <2>1, <2>2, IndexedStays
  <2>5. Held'
    BY <1>0, <1>1, <2>1, <2>2, <2>3, HeldByWorker
  <2>6. worker.op = "enable" /\ ~overlap => Head1 \in links /\ index[Head1] = worker.mon
    BY <2>1 DEF Enabling
  <2>7. Enabling'
    BY <1>1, <1>4, <1>5, <2>1, <2>2, <2>3, <2>6 DEF Enabling
  <2> QED
    BY <2>4, <2>5, <2>7
<1>8. CASE StartNamespaceInformer
  <2>1. /\ worker.pc = "begin" /\ worker'.pc = "synced" /\ worker'.op = worker.op
        /\ worker'.todo = worker.todo /\ worker'.mon = worker.mon /\ Head1' = Head1 /\ links' = links
    BY <1>8, Effects DEF StartNamespaceInformer, Head1
  <2>2. worker.mon # None /\ worker.mon \in 1..Len(mons) /\ index[Head1] \in {None, worker.mon}
    BY <1>3, <2>1 DEF Held
  <2>3. mons'[worker.mon].started
    BY <1>0, <1>8, <2>2, Kept
  <2>4. Indexed'
    BY <1>0, <1>1, <2>1, <2>2, <2>3, IndexedStays
  <2>5. Held'
    BY <1>0, <1>1, <2>1, <2>2, HeldByWorker
  <2>6. worker.op = "enable" /\ ~overlap => Head1 \in links /\ index[Head1] = worker.mon
    BY <2>1 DEF Enabling
  <2>7. Enabling'
    BY <1>1, <1>4, <1>5, <2>1, <2>2, <2>3, <2>6 DEF Enabling
  <2> QED
    BY <2>4, <2>5, <2>7
<1>9. CASE StartReturns
  <2>1. /\ worker.pc = "synced" /\ links' = links /\ worker'.op = worker.op
        /\ worker'.todo = worker.todo /\ Head1' = Head1
        /\ worker'.pc = IF worker.op = "enable" THEN "sync" ELSE "unlock"
    BY <1>9, Effects DEF StartReturns, Head1
  <2>2. Indexed'
    BY <1>0, <1>1, <2>1, IndexedStays
  <2>3. worker'.pc \in {"sync", "unlock"}
    BY <2>1
  <2>4. Held'
    BY <1>0, <1>1, <2>3, HeldByWorker
  <2>5. CASE worker.op = "enable"
    <3>1. worker'.pc = "sync"
      BY <2>1, <2>5
    <3>2. ~overlap => /\ index[Head1] # None /\ Head1 \in links
                      /\ mons'[index[Head1]].started
      BY <1>3, <2>1, <2>5 DEF Enabling
    <3>3. Enabling'
      BY <1>1, <1>4, <1>5, <2>1, <2>5, <3>1, <3>2 DEF Enabling
    <3> QED
      BY <2>2, <2>4, <3>3
  <2>6. CASE worker.op # "enable"
    <3>1. worker'.pc = "unlock"
      BY <2>1, <2>6
    <3>2. Enabling'
      BY <2>1, <2>6, <3>1 DEF Enabling
    <3> QED
      BY <2>2, <2>4, <3>2
  <2> QED
    BY <2>5, <2>6
<1>10. CASE UpdateSend
  <2>1. /\ worker.pc = "send" /\ worker'.pc = "start" /\ worker'.op = worker.op
        /\ worker'.todo = worker.todo /\ Head1' = Head1 /\ links' = links
    BY <1>10, Effects DEF UpdateSend, Head1
  <2>2. Indexed'
    BY <1>0, <1>1, <2>1, IndexedStays
  <2>3. Held'
    BY <1>0, <1>1, <1>3, <2>1, HeldByWorker DEF Held
  <2>4. worker.op = "update"
    BY <2>1 DEF Enabling
  <2>5. Enabling'
    BY <2>1, <2>4 DEF Enabling
  <2> QED
    BY <2>2, <2>3, <2>5
<1> QED
  BY <1>6, <1>7, <1>a, <1>8, <1>9, <1>10

\* The Synchronization of a binding, after which the next one comes.
LEMMA HandleTables ==
    ASSUME TypeOK, Held, Indexed, Enabling, AllLive, EnableHandleEvent
    PROVE  Held' /\ Indexed' /\ Enabling'
<1>0. [Next]_vars
  BY DEF Next, WorkerSteps
<1>1. /\ UNCHANGED <<index, links, other, overlap>> /\ worker.pc = "sync"
      /\ infos' = infos \union (links \intersect {Head1})
  BY DEF EnableHandleEvent
<1>2. /\ worker'.op = worker.op
      /\ \/ Len(worker.todo) > 1 /\ worker'.pc = "check" /\ worker'.todo = Tail(worker.todo)
         \/ ~(Len(worker.todo) > 1) /\ worker'.pc = "snapshot"
  BY Effects
<1>3. worker.op = "enable" /\ Head1 \in Bindings
  BY <1>1, HeadType DEF Enabling
<1>4. Indexed'
  BY <1>0, <1>1, IndexedStays
<1>5. Held'
  BY <1>0, <1>1, <1>2, HeldByWorker
<1>6. ASSUME ~overlap, NEW b \in Bindings, b = Head1 \/ b \notin Range(worker.todo) PROVE Good(b)'
  <2>1. other.pc = "idle"
    BY <1>3, <1>6 DEF Enabling
  <2>2. CASE b \notin Range(worker.todo)
    <3>1. Good(b)
      BY <1>1, <1>3, <1>6, <2>2 DEF Enabling
    <3> QED
      BY <1>0, <1>1, <2>1, <3>1, GoodStays
  <2>3. CASE b = Head1
    <3>1. index[b] # None /\ b \in links /\ mons[index[b]].started
      BY <1>1, <1>3, <1>6, <2>3 DEF Enabling
    <3>2. ~mons[index[b]].cancelled
      BY <2>1, <3>1 DEF Indexed
    <3>3. mons'[index[b]].started /\ ~mons'[index[b]].cancelled
      BY <1>0, <1>1, <2>1, <3>1, <3>2, TableFacts
    <3> QED
      BY <1>1, <2>3, <3>1, <3>3 DEF Good
  <2> QED
    BY <1>6, <2>2, <2>3
<1>7. /\ \A x \in Range(worker.todo) : x = Head1 \/ x \in Range(Tail(worker.todo))
      /\ Len(worker.todo) > 1 \/ \A x \in Range(worker.todo) : x = Head1
  <2>1. worker.todo \in Seq(Bindings) /\ worker.todo # <<>>
    BY <1>1 DEF TypeOK, IsControl
  <2> QED
    BY <2>1, HeadAndTail DEF Head1
<1>8. Enabling'
  <2>1. ~overlap => other'.pc = "idle"
    BY <1>1, <1>3 DEF Enabling
  <2>2. CASE Len(worker.todo) > 1
    <3>1. worker'.pc = "check" /\ worker'.todo = Tail(worker.todo)
      BY <1>2, <2>2
    <3>2. ~overlap => \A b \in Bindings : b \notin Range(worker'.todo) => Good(b)'
      BY <1>6, <1>7, <3>1
    <3> QED
      BY <1>1, <1>2, <1>3, <2>1, <3>1, <3>2 DEF Enabling
  <2>3. CASE ~(Len(worker.todo) > 1)
    <3>1. worker'.pc = "snapshot"
      BY <1>2, <2>3
    <3>2. ~overlap => \A b \in Bindings : Good(b)'
      BY <1>6, <1>7, <2>3
    <3> QED
      BY <1>1, <1>2, <1>3, <2>1, <3>1, <3>2 DEF Enabling
  <2> QED
    BY <2>2, <2>3
<1> QED
  BY <1>4, <1>5, <1>8

\* Looking for the monitor of a binding, and adding one.
LEMMA AddTables ==
    ASSUME TypeOK, Held, Indexed, Enabling, AllLive, EnableCheck \/ UpdateAdd
    PROVE  Held' /\ Indexed' /\ Enabling'
<1>0. [Next]_vars
  BY DEF Next, WorkerSteps
<1>1. UNCHANGED <<links, other, overlap, infos>> /\ worker.pc \in {"check", "add"}
  BY DEF EnableCheck, UpdateAdd, Goes, hook
<1>2. Head1 \in Bindings
  BY <1>1, HeadType
<1>3. CASE worker' = NothingUnderWay /\ index' = index
  <2>1. Indexed'
    BY <1>0, <1>1, <1>3, IndexedStays
  <2> QED
    BY <1>0, <1>1, <1>3, <2>1, GivesUp
<1>4. ASSUME worker.op = "enable", ~overlap, worker.pc = "check", NEW b \in Bindings, b \notin Range(worker.todo),
             index'[b] = index[b]
      PROVE  Good(b)'
  <2>1. Good(b) /\ other.pc = "idle"
    BY <1>4 DEF Enabling
  <2> QED
    BY <1>0, <1>1, <1>4, <2>1, GoodStays
<1>5. CASE EnableCheck /\ Goes("check", "sync") /\ Head1 \in links /\ index[Head1] # None /\ index' = index
  <2>1. /\ worker.pc = "check" /\ worker'.pc = "sync" /\ worker'.op = worker.op
        /\ worker'.todo = worker.todo /\ Head1' = Head1
    BY <1>5, Effects DEF Head1
  <2>2. Indexed'
    BY <1>0, <1>1, <1>5, IndexedStays
  <2>3. Held'
    BY <1>0, <1>1, <2>1, HeldByWorker
  <2>4. mons'[index[Head1]].started
    <3>1. mons[index[Head1]].started
      BY <1>2, <1>5, <2>1 DEF Indexed
    <3> QED
      BY <1>0, <1>2, <1>5, <3>1, TableFacts
  <2>5. worker.op = "enable" /\ (~overlap => other.pc = "idle")
    BY <2>1 DEF Enabling
  <2>6. Enabling'
    BY <1>1, <1>4, <1>5, <2>1, <2>4, <2>5 DEF Enabling
  <2> QED
    BY <2>2, <2>3, <2>6
<1>6. CASE AddMonitor(Head1) /\ (Goes("check", "link") \/ Goes("add", "send"))
  <2>1. /\ worker'.op = worker.op /\ worker'.todo = worker.todo /\ Head1' = Head1
        /\ \/ worker.pc = "check" /\ worker'.pc = "link"
           \/ worker.pc = "add" /\ worker'.pc = "send"
    <3>1. \A p, q : Goes(p, q) =>
              worker.pc = p /\ worker'.pc = q /\ worker'.op = worker.op /\ worker'.todo = worker.todo
      BY Effects
    <3>2. /\ worker'.op = worker.op /\ worker'.todo = worker.todo
          /\ \/ worker.pc = "check" /\ worker'.pc = "link"
             \/ worker.pc = "add" /\ worker'.pc = "send"
      BY <1>6, <3>1
    <3> QED
      BY <3>2 DEF Head1
  <2>2. /\ Len(mons) \in Nat
        /\ mons'[Len(mons) + 1] \in CreateInformers(Head1)
        /\ index'[Head1] = Len(mons) + 1
        /\ \A c \in Bindings : c # Head1 => index'[c] = index[c]
    BY <1>2, <1>6, Added
  <2> DEFINE k == Len(mons) + 1
  <2>3. mons'[k].id = Head1 /\ ~mons'[k].started /\ ~mons'[k].cancelled
    BY <1>2, <2>2, NewMonitorType DEF TypeOK
  <2>4. k # None /\ index'[Head1] = k
    BY <2>2 DEF None
  <2> HIDE DEF k
  <2>5. Held'
    BY <1>0, <1>1, <2>1, <2>3, <2>4, HeldByWorker
  <2>6. Indexed'
    <3> SUFFICES ASSUME NEW b \in Bindings, index'[b] # None
                 PROVE  /\ mons'[index'[b]].id = b
                        /\ mons'[index'[b]].cancelled => other.pc = "delete" /\ Head(other.todo) = b
                        /\ b \in links /\ ~mons'[index'[b]].started => Head1 = b
      BY <1>1, <2>1 DEF Indexed
    <3>1. CASE b = Head1
      BY <2>3, <2>4, <3>1
    <3>2. CASE b # Head1
      <4>1. index'[b] = index[b] /\ index[b] # None
        BY <2>2, <3>2
      <4>2. index[b] \in 1..Len(mons) /\ mons'[index[b]].id = mons[index[b]].id
            /\ (mons'[index[b]].started <=> mons[index[b]].started)
        BY <1>0, <2>1, <4>1, TableFacts
      <4>3. mons'[index[b]].cancelled => mons[index[b]].cancelled
        <5>1. ~(worker.pc = "stop" /\ worker'.pc = "add") /\ ~(other.pc = "cancel" /\ other'.pc = "delete")
          BY <1>1
        <5> QED
          BY <1>0, <4>2, <5>1, TableFacts
      <4> QED
        BY <1>1, <4>1, <4>2, <4>3 DEF Indexed
    <3> QED
      BY <3>1, <3>2
  <2>7. Enabling'
    <3>1. CASE worker.pc = "check"
      <4>1. worker.op = "enable" /\ (~overlap => other.pc = "idle") /\ worker'.pc = "link"
        BY <2>1, <3>1 DEF Enabling
      <4>2. Head1 \in Range(worker.todo)
        <5>1. worker.todo \in Seq(Bindings) /\ worker.todo # <<>>
          BY <3>1 DEF TypeOK, IsControl
        <5> QED
          BY <5>1, HeadAndTail DEF Head1
      <4>3. ~overlap => \A b \in Bindings : b \notin Range(worker.todo) => Good(b)'
        BY <1>4, <2>2, <3>1, <4>1, <4>2
      <4> QED
        BY <1>1, <2>1, <2>4, <4>1, <4>3 DEF Enabling
    <3>2. CASE worker.pc = "add"
      <4>1. worker'.op = "update" /\ worker'.pc = "send"
        BY <2>1, <3>2 DEF Enabling
      <4> QED
        BY <4>1 DEF Enabling
    <3> QED
      BY <2>1, <3>1, <3>2
  <2> QED
    BY <2>5, <2>6, <2>7
<1>7. CASE EnableCheck
  BY <1>3, <1>5, <1>6, <1>7 DEF EnableCheck
<1>8. CASE UpdateAdd
  BY <1>3, <1>6, <1>8 DEF UpdateAdd
<1> QED
  BY <1>7, <1>8

\* Stopping the monitor that is replaced.
LEMMA StopTables ==
    ASSUME TypeOK, Held, Indexed, Enabling, AllLive, UpdateStop
    PROVE  Held' /\ Indexed' /\ Enabling'
<1>0. [Next]_vars
  BY DEF Next, WorkerSteps
<1>1. /\ worker.pc = "stop" /\ worker'.pc = "add" /\ worker'.op = worker.op
      /\ UNCHANGED <<links, other, overlap, infos>>
  BY Effects DEF UpdateStop, hook
<1>2. Head1 \in Bindings
  BY <1>1, HeadType
<1>3. Held'
  BY <1>0, <1>1, HeldByWorker
<1>4. Enabling'
  <2>1. worker.op = "update"
    BY <1>1 DEF Enabling
  <2> QED
    BY <1>1, <2>1 DEF Enabling
<1>5. /\ \A c \in Bindings : index'[c] = index[c] \/ index'[c] = None
      /\ worker.mon # None => index'[Head1] = None
  <2>1. index \in [Bindings -> 0..Len(mons)]
    BY DEF TypeOK
  <2>2. CASE worker.mon = None
    BY <2>2 DEF UpdateStop
  <2>3. CASE worker.mon # None
    <3>1. index' = [index EXCEPT ![Head1] = None]
      BY <2>3 DEF UpdateStop
    <3> QED
      BY <1>2, <2>1, <3>1
  <2> QED
    BY <2>2, <2>3
<1>6. Indexed'
  <2> SUFFICES ASSUME NEW b \in Bindings, index'[b] # None
               PROVE  /\ mons'[index'[b]].id = b
                      /\ mons'[index'[b]].cancelled => other.pc = "delete" /\ Head(other.todo) = b
                      /\ b \in links => mons'[index'[b]].started
    BY <1>1 DEF Indexed
  <2>1. index'[b] = index[b] /\ index[b] # None
    BY <1>5
  <2>2. /\ index[b] \in 1..Len(mons) /\ mons'[index[b]].id = mons[index[b]].id
        /\ (mons'[index[b]].started <=> mons[index[b]].started)
    BY <1>0, <1>1, <2>1, TableFacts
  <2>3. mons'[index[b]].cancelled => mons[index[b]].cancelled \/ worker.mon = index[b]
    <3>1. ~(other.pc = "cancel" /\ other'.pc = "delete")
      BY <1>1
    <3> QED
      BY <1>0, <2>2, <3>1, TableFacts
  <2>4. mons[index[b]].id = b
    BY <2>1 DEF Indexed
  <2>5. worker.mon # index[b]
    <3>1. ASSUME worker.mon = index[b] PROVE FALSE
      <4>1. worker.mon # None /\ mons[worker.mon].id = Head1
        BY <1>1, <2>1, <3>1 DEF Held
      <4> QED
        BY <1>5, <2>1, <2>4, <3>1, <4>1
    <3> QED
      BY <3>1
  <2> QED
    BY <1>1, <2>1, <2>2, <2>3, <2>4, <2>5 DEF Indexed
<1> QED
  BY <1>3, <1>4, <1>6

\* Every step keeps the tables in order.
LEMMA TablesStep ==
    TypeOK /\ Held /\ Indexed /\ Enabling /\ AllLive /\ [Next]_vars => Held' /\ Indexed' /\ Enabling'
<1> SUFFICES ASSUME TypeOK, Held, Indexed, Enabling, AllLive, [Next]_vars PROVE Held' /\ Indexed' /\ Enabling'
  OBVIOUS
<1>1. CASE WorkerSteps \/ ObjectsListed
  BY <1>1, StartTables, HandleTables, SnapshotTables, AddTables, StopTables DEF WorkerSteps, Opens, PollEnds
<1>2. CASE EnableKubernetesBindings \/ \E b \in Bindings : UpdateMonitor(b)
  BY <1>2, CallTables
<1>3. CASE DisableKubernetesBindings \/ OtherSteps
  BY <1>3, OtherTables
<1>4. CASE \/ ReceiveEvent \/ ClusterChanges \/ UNCHANGED vars
           \/ \E m \in DOMAIN mons : Namespace(m) \/ Callback(m)
  <2>1. worker' = worker /\ UNCHANGED <<links, index, other, infos, overlap>>
    <3>1. CASE ReceiveEvent \/ ClusterChanges \/ UNCHANGED vars
      BY <3>1 DEF ReceiveEvent, ClusterChanges, vars, hook
    <3>2. CASE \E m \in DOMAIN mons : Namespace(m) \/ Callback(m)
      BY <3>2, NamespaceStep DEF OnlyMonitors, hook
    <3> QED
      BY <1>4, <3>1, <3>2
  <2> QED
    BY <2>1, QuietTables
<1> QED
  BY <1>1, <1>2, <1>3, <1>4 DEF Next

-----------------------------------------------------------------------------
(* Snapshots.                                                              *)

\* A snapshot that is stored in the cache and given.
LEMMA CachedGrows ==
    ASSUME Cached, NEW v, From \notin DOMAIN cache, worker'.pc # "get",
           cache' = [f \in DOMAIN cache \union {From} |-> IF f = From THEN v ELSE cache[f]],
           given' = given \union {<<Head1[1], From, v>>}
    PROVE  Cached'
<1>1. ASSUME NEW x \in given' PROVE x[2] \in DOMAIN cache' /\ cache'[x[2]] = x[3]
  <2>1. CASE x \in given
    <3>1. x[2] \in DOMAIN cache /\ cache[x[2]] = x[3] /\ x[2] # From
      BY <2>1 DEF Cached
    <3> QED
      BY <3>1
  <2>2. CASE x = <<Head1[1], From, v>>
    <3>1. x[2] = From /\ x[3] = v
      BY <2>2
    <3> HIDE DEF From
    <3> QED
      BY <3>1
  <2> QED
    BY <2>1, <2>2
<1> QED
  BY <1>1 DEF Cached

LEMMA CachedStep == TypeOK /\ Cached /\ [Next]_vars => Cached'
<1> SUFFICES ASSUME TypeOK, Cached, [Next]_vars PROVE Cached'
  OBVIOUS
<1>1. CASE given' = given /\ cache' = cache /\ (worker' = worker \/ worker'.pc # "get")
  <2>1. worker' = worker => From' = From
    BY DEF From, Head1
  <2> QED
    BY <1>1, <2>1 DEF Cached
<1>2. CASE given' = {} /\ worker'.pc # "get"
  BY <1>2 DEF Cached
<1>3. CASE UseCache
  <2>1. From \in DOMAIN cache /\ given' = given \union {<<Head1[1], From, cache[From]>>} /\ cache' = cache
    BY <1>3 DEF UseCache, GiveSnapshot
  <2>2. worker'.pc # "get"
    BY <1>3, Effects DEF UseCache
  <2>3. ASSUME NEW x \in given' PROVE x[2] \in DOMAIN cache /\ cache[x[2]] = x[3]
    <3>1. x \in given \/ (x[2] = From /\ x[3] = cache[From])
      BY <2>1, <2>3
    <3> QED
      BY <2>1, <3>1 DEF Cached
  <2> QED
    BY <2>1, <2>2, <2>3 DEF Cached
<1>4. CASE SnapshotHas
  <2>0. From \notin DOMAIN cache
    BY <1>4 DEF SnapshotHas
  <2>1. CASE index[From] # None
    <3>1. given' = given /\ cache' = cache /\ Goes("snapshot", "get")
      BY <1>4, <2>1 DEF SnapshotHas
    <3>2. worker'.todo = worker.todo
      BY <3>1, Effects
    <3>3. From' = From
      BY <3>2 DEF From, Head1
    <3> QED
      BY <2>0, <3>1, <3>3 DEF Cached
  <2>2. CASE index[From] = None
    <3>1. /\ cache' = [f \in DOMAIN cache \union {From} |-> IF f = From THEN {} ELSE cache[f]]
          /\ GiveSnapshot({})
      BY <1>4, <2>2 DEF SnapshotHas
    <3>2. given' = given \union {<<Head1[1], From, {}>>} /\ worker'.pc # "get"
      BY <3>1, Effects DEF GiveSnapshot
    <3> QED
      BY <2>0, <3>1, <3>2, CachedGrows
  <2> QED
    BY <2>1, <2>2
<1>5. CASE SnapshotGet
  <2>0. From \notin DOMAIN cache
    BY <1>5 DEF SnapshotGet, Cached
  <2>1. CASE index[From] = None
    <3>1. given' = given /\ cache' = cache /\ worker'.pc # "get"
      BY <1>5, <2>1, Effects DEF SnapshotGet
    <3> QED
      BY <1>1, <3>1
  <2>2. CASE index[From] # None
    <3> DEFINE v == Snapshot(index[From])
    <3>1. /\ cache' = [f \in DOMAIN cache \union {From} |-> IF f = From THEN v ELSE cache[f]]
          /\ GiveSnapshot(v)
      BY <1>5, <2>2 DEF SnapshotGet
    <3> HIDE DEF v
    <3>2. given' = given \union {<<Head1[1], From, v>>} /\ worker'.pc # "get"
      BY <3>1, Effects DEF GiveSnapshot
    <3> QED
      BY <2>0, <3>1, <3>2, CachedGrows
  <2> QED
    BY <2>1, <2>2
<1>6. CASE EnableKubernetesBindings
  BY <1>2, <1>6, Effects DEF EnableKubernetesBindings
<1>7. CASE UnlockEventsFor \/ EnableKubeEventCb
  <2>1. (given' = given /\ cache' = cache) \/ given' = {}
    BY <1>7 DEF UnlockEventsFor, EnableKubeEventCb, NextUnlock, hook
  <2>2. ~SnapshotHas
    BY <1>7 DEF UnlockEventsFor, EnableKubeEventCb, SnapshotHas
  <2>3. worker'.pc = "get" => worker' = worker
    BY <2>2, PlaceFrame
  <2>4. worker'.pc # "get"
    BY <1>7, <2>3 DEF UnlockEventsFor, EnableKubeEventCb
  <2> QED
    BY <1>1, <1>2, <2>1, <2>4
<1>8. CASE \/ EnableCheck \/ SetLink \/ StartMonitor \/ Opens \/ PollEnds \/ StartNamespaceInformer
           \/ StartReturns \/ EnableHandleEvent
           \/ UpdateStop \/ UpdateAdd \/ UpdateSend \/ \E b \in Bindings : UpdateMonitor(b)
  <2>1. given' = given /\ cache' = cache /\ worker.pc \notin {"get", "snapshot"}
    BY <1>8 DEF EnableCheck, SetLink, StartMonitor, Opens, MonitorStart, StartStatic, StartVarying, PollEnds,
                ObjectsListed, PollCancelled, StartNamespaceInformer, StartReturns, EnableHandleEvent,
                UpdateStop, UpdateAdd, UpdateSend, UpdateMonitor, Goes, hook
  <2>2. ~SnapshotHas
    BY <2>1 DEF SnapshotHas
  <2> QED
    BY <1>1, <2>1, <2>2, PlaceFrame
<1>9. CASE \/ ReceiveEvent \/ DisableKubernetesBindings \/ OtherSteps \/ ClusterChanges \/ UNCHANGED vars
           \/ \E m \in DOMAIN mons : Namespace(m) \/ Callback(m)
  <2>1. given' = given /\ cache' = cache /\ worker' = worker
    BY <1>9 DEF ReceiveEvent, DisableKubernetesBindings, OtherSteps, StopMonitor, MonitorStop, StopMonitorDelete,
                ClusterChanges, vars, Namespace, Callback, NamespaceList, NamespaceWatch, NamespaceInformerStop,
                OnAdd, OnAddStart, OnAddReturns, OnDelete, OnlyMonitors, hook
  <2> QED
    BY <1>1, <2>1
<1> QED
  BY <1>3, <1>4, <1>5, <1>6, <1>7, <1>8, <1>9 DEF Next, WorkerSteps, Opens, PollEnds

-----------------------------------------------------------------------------
(* Theorems.                                                               *)

LEMMA InitIInv == Init => IInv
<1> SUFFICES ASSUME Init PROVE IInv
  OBVIOUS
<1>1. /\ worker.pc = "idle" /\ worker.op = "none" /\ other.pc = "idle"
      /\ mons = <<>> /\ given = {} /\ \A b \in Bindings : index[b] = None
  BY DEF Init, NothingUnderWay
<1>2. DOMAIN mons = {}
  BY <1>1
<1>3. Held /\ Indexed /\ Enabling /\ Cached
  BY <1>1 DEF Held, Indexed, Enabling, Cached
<1>4. AllLive /\ AllFollow /\ AllLoud
  BY <1>2 DEF AllLive, AllFollow, AllLoud
<1> QED
  BY <1>3, <1>4, InitTypeOK DEF IInv

\* The inductive invariant of enabling, updating and disabling kubernetes bindings while
\* namespaces come and go: in particular what every goroutine holds stays well formed, and a
\* monitor that is in the index belongs to its binding and is cancelled only while StopMonitor
\* is between Stop and the deletion.
THEOREM KubeMonitorsInvariant == Spec => []IInv
<1>1. IInv /\ [Next]_vars => IInv'
  BY TypeStep, TablesStep, FollowStep, LoudStep, CachedStep DEF IInv
<1> QED
  BY <1>1, InitIInv, PTL DEF Spec

\* EnableKubernetesBindings is self-healing: when it returns and nobody disabled bindings
\* meanwhile, every binding has its link, a running monitor in the index and its
\* Synchronization, whatever failed updates and earlier calls left behind.
THEOREM EnableRepairsBindings == Spec => []EnableRepairs
<1>1. IInv => EnableRepairs
  BY DEF IInv, Enabling, EnableRepairs, Good
<1> QED
  BY <1>1, KubeMonitorsInvariant, PTL

\* UpdateSnapshots gives the contexts of one run that include the same binding the same
\* snapshot of it, though the monitors change between the reads.
THEOREM SnapshotsAgree == Spec => []ConsistentSnapshots
<1>1. IInv => ConsistentSnapshots
  BY DEF IInv, Cached, ConsistentSnapshots
<1> QED
  BY <1>1, KubeMonitorsInvariant, PTL

\* When the callbacks of a monitor have caught up, informers run for exactly the namespaces
\* its namespace informer knows and those that were gone when it listed, except the ones
\* whose informers could not be created.
THEOREM InformersFollowNamespaces == Spec => []NamespacesFollow
<1>1. IInv => NamespacesFollow
  <2> SUFFICES ASSUME IInv, NEW m \in DOMAIN mons, CaughtUp(mons[m])
               PROVE  Served(mons[m]) = (mons[m].store \union mons[m].gone) \ NotCreated(mons[m])
    BY DEF NamespacesFollow
  <2>1. mons[m] \in Monitor /\ Lives(mons[m]) /\ Follows(mons[m])
    BY DEF IInv, TypeOK, AllLive, AllFollow
  <2>2. /\ mons[m].listed /\ mons[m].started /\ ~mons[m].stopped
        /\ mons[m].notif = <<>> /\ mons[m].cb.pc = "idle"
    BY <2>1 DEF CaughtUp, Lives
  <2>3. /\ DOMAIN mons[m].varying \subseteq Namespaces
        /\ mons[m].varying \in [DOMAIN mons[m].varying -> Informer]
        /\ mons[m].store \subseteq Namespaces /\ mons[m].gone \subseteq Namespaces
    BY <2>1, VaryingType DEF Monitor
  <2>4. \A n \in Namespaces : n \in DOMAIN mons[m].varying <=> n \in mons[m].store \union mons[m].gone
    BY <2>1, <2>2 DEF Follows, Waits
  <2>5. DOMAIN mons[m].varying = mons[m].store \union mons[m].gone
    BY <2>3, <2>4
  \* Every entry was started or is an empty one.
  <2>6. \A n \in DOMAIN mons[m].varying : mons[m].varying[n].state \in {"started", "failed"}
    <3>1. mons[m].cancelNs = DOMAIN mons[m].varying
      BY <2>1, <2>2 DEF Follows
    <3> QED
      BY <2>1, <2>3, <3>1 DEF Lives, Informer
  <2> QED
    BY <2>5, <2>6 DEF Served, NotCreated
<1> QED
  BY <1>1, KubeMonitorsInvariant, PTL

\* Once EnableKubeEventCb has unlocked a monitor, every informer of it emits events, except one
\* that was stored behind its walk and read the flag before it was set.
THEOREM SilenceIsBounded == Spec => []SilentOnlyInWindow
<1>1. IInv => SilentOnlyInWindow
  BY DEF IInv, AllLoud, Loud, SilentOnlyInWindow
<1> QED
  BY <1>1, KubeMonitorsInvariant, PTL
=============================================================================
