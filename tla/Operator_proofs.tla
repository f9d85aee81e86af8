--------------------------- MODULE Operator_proofs --------------------------
(***************************************************************************)
(* Proofs about Operator, for any hooks, bindings, webhooks and any number *)
(* of events: bindings wait for the hooks with onStartup, tasks find their *)
(* queues, cron serves the links, and a Shutdown in time leaves nothing    *)
(* that runs hooks or serves requests.                                     *)
(***************************************************************************)
EXTENDS Operator, FiniteSetTheorems, TLAPS

AllStarted == \A i \in DOMAIN StartupHooks : StartupHooks[i] \in done

\* A worker at a task has one; it replays events for a Synchronization.
WorkersHaveTasks ==
    \A q \in DOMAIN queues :
        /\ worker[q] \in {"run", "replay"} => queues[q] # <<>>
        /\ worker[q] = "replay" => Head(queues[q]).kind = "Synchronization"

\* The main queue exists when Start has passed "main_queue" (6), those of hooks when it has passed
\* "hook_queues" (7); the handler runs when it has passed "handler" (9).
StartInOrder ==
    /\ step > 6 => Main \in DOMAIN queues
    /\ step > 7 => HookQueues \subseteq DOMAIN queues
    /\ handler.at # "off" => step > 9

\* The runs of onStartup from hook k + 1 on are at the head of the main queue.
StartupLeft(k) ==
    /\ \A i \in 1..k : StartupHooks[i] \in done
    /\ Len(queues[Main]) >= Len(StartupHooks) - k
    /\ \A i \in 1..(Len(StartupHooks) - k) : queues[Main][i].kind = "OnStartup"
                                             /\ queues[Main][i].hook = StartupHooks[k + i]

\* Until the hooks with onStartup have all succeeded, those that have not are at the head of
\* the main queue and nothing else can run.
StartupInOrder ==
    /\ Main \in DOMAIN queues => \E k \in 0..Len(StartupHooks) : StartupLeft(k)
    /\ ~AllStarted =>
          /\ \A q \in DOMAIN queues \ {Main} : queues[q] = <<>>
          /\ handler.tasks = <<>> /\ kubeCh = <<>> /\ scheduleCh = <<>>
          /\ informer = {} /\ \A b \in DOMAIN KubeBindings : monitor[b].at = "none"
          /\ DOMAIN entries = {} /\ \A c \in Crontabs : jobs[c] = 0

\* A server does not listen any more after its part of doShutdown.
Closed(s, place) == step > place => s \notin servers /\ (~late => s \notin requests)

\* Each part of doShutdown in time leaves its goroutines ended: cron (13), the handler (14), the
\* queues (16), the servers (17 to 20), the metric loops (21).
StoppedInOrder ==
    /\ step <= 10 => cron = "new"
    /\ stopped => cron = "stopped"
    /\ ~late => /\ step > 13 => stopped
                /\ step > 14 => handler.at = "done"
                /\ step > 16 => QueuesStopped
                /\ step > 21 => wg = 0
    /\ Closed("admission", 17) /\ Closed("conversion", 18) /\ Closed("debug", 19) /\ Closed("api", 20)

IInv == TypeOK /\ WorkersHaveTasks /\ StartInOrder /\ TasksHaveQueues /\ StartupInOrder
        /\ StoppedInOrder /\ CronServesLinks


-----------------------------------------------------------------------------
(* The program of the main goroutine.                                      *)

\* Where the elements of two sequences are in their concatenation.
LEMMA Joined ==
    ASSUME NEW S, NEW b \in Seq(S), NEW c \in Seq(S)
    PROVE  /\ b \o c \in Seq(S) /\ Len(b \o c) = Len(b) + Len(c)
           /\ \A i \in 1..Len(b) : (b \o c)[i] = b[i]
           /\ \A i \in 1..Len(c) : (b \o c)[Len(b) + i] = c[i]
  OBVIOUS

\* The places of the program.
LEMMA Places ==
    /\ Len(Program) = 22
    /\ \A i \in 1..4 : Program[i] = BuildOrder[i]
    /\ \A i \in 1..6 : Program[4 + i] = StartOrder[i]
    /\ Program[11] = "serve"
    /\ \A i \in 1..10 : Program[11 + i] = ShutdownOrder[i]
    /\ Program[22] = "returned"
<1> DEFINE one == <<"serve">>
           last == <<"returned">>
           p1 == BuildOrder \o StartOrder
           p2 == p1 \o one
           p3 == p2 \o ShutdownOrder
<1>1. Program = p3 \o last
  BY DEF Program
<1>2. Len(BuildOrder) = 4 /\ Len(StartOrder) = 6 /\ Len(ShutdownOrder) = 10
  BY DEF BuildOrder, StartOrder, ShutdownOrder
<1>3. \E S : /\ BuildOrder \in Seq(S) /\ StartOrder \in Seq(S) /\ ShutdownOrder \in Seq(S)
             /\ <<"serve">> \in Seq(S) /\ <<"returned">> \in Seq(S)
  <2> DEFINE S == {"build_debug", "assemble", "build_admission", "build_conversion", "api", "main_queue",
                    "hook_queues", "metrics", "handler", "schedule", "serve", "cancel", "stop_schedule",
                    "stop_handler", "stop_kube", "stop_queues", "stop_admission", "stop_conversion",
                    "stop_debug", "stop_api", "stop_metrics", "returned"}
  <2>1. BuildOrder \in Seq(S) 
    BY DEF BuildOrder
  <2>2. StartOrder \in Seq(S) 
    BY DEF StartOrder
  <2>3. ShutdownOrder \in Seq(S) 
    BY DEF ShutdownOrder
  <2>4. <<"serve">> \in Seq(S) /\ <<"returned">> \in Seq(S)
    OBVIOUS
  <2> QED
    BY <2>1, <2>2, <2>3, <2>4
<1>4. Len(one) = 1 /\ one[1] = "serve" /\ Len(last) = 1 /\ last[1] = "returned"
  OBVIOUS
<1>5. PICK S : /\ BuildOrder \in Seq(S) /\ StartOrder \in Seq(S) /\ ShutdownOrder \in Seq(S)
      /\ one \in Seq(S) /\ last \in Seq(S)
  BY <1>3
<1> HIDE DEF one, last
<1>6. /\ p1 \in Seq(S) /\ Len(p1) = 10
      /\ \A i \in 1..4 : p1[i] = BuildOrder[i]
      /\ \A i \in 1..6 : p1[4 + i] = StartOrder[i]
  <2>1. /\ p1 \in Seq(S) /\ Len(p1) = Len(BuildOrder) + Len(StartOrder)
        /\ \A i \in 1..Len(BuildOrder) : p1[i] = BuildOrder[i]
        /\ \A i \in 1..Len(StartOrder) : p1[Len(BuildOrder) + i] = StartOrder[i]
    BY <1>5, Joined
  <2> HIDE DEF p1
  <2> QED
    BY <2>1, <1>2
<1> HIDE DEF p1
<1>7. /\ p2 \in Seq(S) /\ Len(p2) = 11
      /\ \A i \in 1..10 : p2[i] = p1[i]
      /\ p2[11] = "serve"
  <2>0. p1 \in Seq(S) /\ one \in Seq(S)
    BY <1>5, <1>6
  <2>1. /\ p2 \in Seq(S) /\ Len(p2) = Len(p1) + Len(one)
        /\ \A i \in 1..Len(p1) : p2[i] = p1[i]
        /\ \A i \in 1..Len(one) : p2[Len(p1) + i] = one[i]
    BY <2>0, Joined
  <2> HIDE DEF p2
  <2>2. p2[10 + 1] = one[1]
    BY <2>1, <1>4, <1>6
  <2> QED
    BY <2>1, <2>2, <1>6, <1>4
<1> HIDE DEF p2
<1>8. /\ p3 \in Seq(S) /\ Len(p3) = 21
      /\ \A i \in 1..11 : p3[i] = p2[i]
      /\ \A i \in 1..10 : p3[11 + i] = ShutdownOrder[i]
  <2>0. p2 \in Seq(S) /\ ShutdownOrder \in Seq(S)
    BY <1>5, <1>7
  <2>1. /\ p3 \in Seq(S) /\ Len(p3) = Len(p2) + Len(ShutdownOrder)
        /\ \A i \in 1..Len(p2) : p3[i] = p2[i]
        /\ \A i \in 1..Len(ShutdownOrder) : p3[Len(p2) + i] = ShutdownOrder[i]
    BY <2>0, Joined
  <2> HIDE DEF p3
  <2> QED
    BY <2>1, <1>2, <1>7
<1> HIDE DEF p3
<1>9. /\ Len(Program) = 22
      /\ \A i \in 1..21 : Program[i] = p3[i]
      /\ Program[22] = "returned"
  <2>0. p3 \in Seq(S) /\ last \in Seq(S)
    BY <1>5, <1>8
  <2>1. /\ Len(Program) = Len(p3) + Len(last)
        /\ \A i \in 1..Len(p3) : Program[i] = p3[i]
        /\ \A i \in 1..Len(last) : Program[Len(p3) + i] = last[i]
    BY <2>0, <1>1, Joined
  <2>2. Program[21 + 1] = last[1]
    BY <2>1, <1>4, <1>8
  <2> QED
    BY <2>1, <2>2, <1>8, <1>4
<1> QED
  BY <1>6, <1>7, <1>8, <1>9

\* The names of the places.
LEMMA Names ==
    /\ Program[1] = "build_debug"
    /\ Program[2] = "assemble"
    /\ Program[3] = "build_admission"
    /\ Program[4] = "build_conversion"
    /\ Program[5] = "api"
    /\ Program[6] = "main_queue"
    /\ Program[7] = "hook_queues"
    /\ Program[8] = "metrics"
    /\ Program[9] = "handler"
    /\ Program[10] = "schedule"
    /\ Program[11] = "serve"
    /\ Program[12] = "cancel"
    /\ Program[13] = "stop_schedule"
    /\ Program[14] = "stop_handler"
    /\ Program[15] = "stop_kube"
    /\ Program[16] = "stop_queues"
    /\ Program[17] = "stop_admission"
    /\ Program[18] = "stop_conversion"
    /\ Program[19] = "stop_debug"
    /\ Program[20] = "stop_api"
    /\ Program[21] = "stop_metrics"
    /\ Program[22] = "returned"
<1>1. /\ Program[1] = "build_debug"
      /\ Program[2] = "assemble"
      /\ Program[3] = "build_admission"
      /\ Program[4] = "build_conversion"
  BY Places DEF BuildOrder
<1>2. /\ Program[5] = "api"
      /\ Program[6] = "main_queue"
      /\ Program[7] = "hook_queues"
      /\ Program[8] = "metrics"
      /\ Program[9] = "handler"
      /\ Program[10] = "schedule"
  BY Places DEF StartOrder
<1>3. /\ Program[12] = "cancel"
      /\ Program[13] = "stop_schedule"
      /\ Program[14] = "stop_handler"
      /\ Program[15] = "stop_kube"
      /\ Program[16] = "stop_queues"
      /\ Program[17] = "stop_admission"
      /\ Program[18] = "stop_conversion"
      /\ Program[19] = "stop_debug"
      /\ Program[20] = "stop_api"
      /\ Program[21] = "stop_metrics"
  BY Places DEF ShutdownOrder
<1> QED
  BY <1>1, <1>2, <1>3, Places

\* The main goroutine is at an action's place when step has its number.
LEMMA AtSteps ==
    ASSUME step \in 0..Len(Program)
    PROVE  /\ step \in 0..22
           /\ at = "build_debug" <=> step = 1
           /\ at = "assemble" <=> step = 2
           /\ at = "build_admission" <=> step = 3
           /\ at = "build_conversion" <=> step = 4
           /\ at = "api" <=> step = 5
           /\ at = "main_queue" <=> step = 6
           /\ at = "hook_queues" <=> step = 7
           /\ at = "metrics" <=> step = 8
           /\ at = "handler" <=> step = 9
           /\ at = "schedule" <=> step = 10
           /\ at = "serve" <=> step = 11
           /\ at = "cancel" <=> step = 12
           /\ at = "stop_schedule" <=> step = 13
           /\ at = "stop_handler" <=> step = 14
           /\ at = "stop_kube" <=> step = 15
           /\ at = "stop_queues" <=> step = 16
           /\ at = "stop_admission" <=> step = 17
           /\ at = "stop_conversion" <=> step = 18
           /\ at = "stop_debug" <=> step = 19
           /\ at = "stop_api" <=> step = 20
           /\ at = "stop_metrics" <=> step = 21
           /\ at = "returned" <=> step = 22
<1>1. step \in 0..22
  BY Places
<1>2. /\ step = 0 => at = "failed"
      /\ step = 1 => at = "build_debug"
      /\ step = 2 => at = "assemble"
      /\ step = 3 => at = "build_admission"
      /\ step = 4 => at = "build_conversion"
      /\ step = 5 => at = "api"
      /\ step = 6 => at = "main_queue"
      /\ step = 7 => at = "hook_queues"
  BY Names DEF at
<1>3. /\ step = 8 => at = "metrics"
      /\ step = 9 => at = "handler"
      /\ step = 10 => at = "schedule"
      /\ step = 11 => at = "serve"
      /\ step = 12 => at = "cancel"
      /\ step = 13 => at = "stop_schedule"
      /\ step = 14 => at = "stop_handler"
      /\ step = 15 => at = "stop_kube"
  BY Names DEF at
<1>4. /\ step = 16 => at = "stop_queues"
      /\ step = 17 => at = "stop_admission"
      /\ step = 18 => at = "stop_conversion"
      /\ step = 19 => at = "stop_debug"
      /\ step = 20 => at = "stop_api"
      /\ step = 21 => at = "stop_metrics"
      /\ step = 22 => at = "returned"
  BY Names DEF at
<1>5. \/ step = 0 \/ step = 1 \/ step = 2 \/ step = 3 \/ step = 4 \/ step = 5 \/ step = 6 \/ step = 7
      \/ step = 8 \/ step = 9 \/ step = 10 \/ step = 11 \/ step = 12 \/ step = 13 \/ step = 14
      \/ step = 15 \/ step = 16 \/ step = 17 \/ step = 18 \/ step = 19 \/ step = 20 \/ step = 21 \/ step = 22
  BY <1>1
<1> QED
  BY <1>1, <1>2, <1>3, <1>4, <1>5

-----------------------------------------------------------------------------
(* Tasks.                                                                  *)

\* A function on the first n numbers is a sequence.
LEMMA ListType ==
    ASSUME NEW R, NEW n \in Nat, NEW f \in [1..n -> R]
    PROVE  f \in Seq(R)
  OBVIOUS

\* An order of a finite set is a sequence of its members.
LEMMA OrderType ==
    ASSUME NEW S, IsFiniteSet(S), NEW s \in SetToSeqs(S)
    PROVE  Cardinality(S) \in Nat /\ s \in [1..Cardinality(S) -> S]
<1>1. Cardinality(S) \in Nat
  BY FS_CardinalityType
<1> QED
  BY <1>1 DEF SetToSeqs

\* Some bindings of a list are a finite set.
LEMMA FiniteBindings ==
    ASSUME NEW list, IsList(list), NEW S \in SUBSET DOMAIN list
    PROVE  IsFiniteSet(S)
<1>1. Len(list) \in Nat /\ S \in SUBSET (1..Len(list))
  BY DEF IsList
<1>2. IsFiniteSet(1..Len(list))
  BY <1>1, FS_Interval
<1> QED
  BY <1>1, <1>2, FS_Subset

\* Tasks made of bindings and of hooks.
LEMMA TaskTypes ==
    /\ \A b \in DOMAIN KubeBindings : SyncRun(b) \in Task /\ KubeRun(b) \in Task
                                      /\ EnableKube(KubeBindings[b].hook) \in Task
    /\ \A b \in DOMAIN ScheduleBindings : ScheduleRun(b) \in Task
                                          /\ EnableSchedule(ScheduleBindings[b].hook) \in Task
    /\ \A i \in DOMAIN StartupHooks : OnStartup(StartupHooks[i]) \in Task
<1>1. ASSUME NEW b \in DOMAIN KubeBindings
      PROVE  SyncRun(b) \in Task /\ KubeRun(b) \in Task /\ EnableKube(KubeBindings[b].hook) \in Task
  <2>1. KubeBindings[b].hook \in HookNames /\ b \in Nat
    BY BindingsAssumption DEF IsList
  <2> QED
    BY <2>1 DEF SyncRun, KubeRun, EnableKube, Task
<1>2. ASSUME NEW b \in DOMAIN ScheduleBindings
      PROVE  ScheduleRun(b) \in Task /\ EnableSchedule(ScheduleBindings[b].hook) \in Task
  <2>1. ScheduleBindings[b].hook \in HookNames /\ b \in Nat
    BY BindingsAssumption DEF IsList
  <2> QED
    BY <2>1 DEF ScheduleRun, EnableSchedule, Task
<1>3. ASSUME NEW i \in DOMAIN StartupHooks PROVE OnStartup(StartupHooks[i]) \in Task
  BY BindingsAssumption DEF OnStartup, Task
<1> QED
  BY <1>1, <1>2, <1>3

\* The tasks of a crontab are for queues of hooks.
LEMMA ScheduleTasksType ==
    ASSUME links \subseteq DOMAIN ScheduleBindings, NEW c, NEW tasks \in ScheduleTasks(c)
    PROVE  tasks \in Seq([queue : HookQueues, task : Task])
<1> DEFINE S == {b \in links : ScheduleBindings[b].crontab = c}
<1>1. PICK bs \in SetToSeqs(S) :
          tasks = [i \in DOMAIN bs |-> [queue |-> ScheduleBindings[bs[i]].queue, task |-> ScheduleRun(bs[i])]]
  BY DEF ScheduleTasks
<1>2. S \in SUBSET DOMAIN ScheduleBindings
  OBVIOUS
<1>3. IsFiniteSet(S)
  BY <1>2, BindingsAssumption, FiniteBindings
<1> HIDE DEF S
<1>4. Cardinality(S) \in Nat /\ bs \in [1..Cardinality(S) -> S]
  BY <1>3, OrderType
<1>5. \A b \in S : [queue |-> ScheduleBindings[b].queue, task |-> ScheduleRun(b)] \in [queue : HookQueues, task : Task]
  BY <1>2, TaskTypes DEF HookQueues
<1>6. \A i \in 1..Cardinality(S) :
          [queue |-> ScheduleBindings[bs[i]].queue, task |-> ScheduleRun(bs[i])] \in [queue : HookQueues, task : Task]
  BY <1>4, <1>5
<1>7. tasks = [i \in 1..Cardinality(S) |-> [queue |-> ScheduleBindings[bs[i]].queue, task |-> ScheduleRun(bs[i])]]
  BY <1>1, <1>4
<1> DEFINE R == [queue : HookQueues, task : Task]
<1>8. tasks \in [1..Cardinality(S) -> R]
  BY <1>6, <1>7
<1> HIDE DEF R
<1>9. tasks \in Seq(R)
  BY <1>4, <1>8, ListType
<1> QED
  BY <1>9 DEF R

\* The head tasks of a result are tasks, and only a task that enables bindings has some.
LEMMA HeadTasksType ==
    ASSUME NEW t, NEW ts \in HeadTasks(t)
    PROVE  ts \in Seq(Task) /\ (t.kind # "EnableKubernetesBindings" => ts = <<>>)
<1>1. CASE t.kind = "EnableKubernetesBindings"
  <2> DEFINE S == {b \in DOMAIN KubeBindings : KubeBindings[b].hook = t.hook}
  <2>1. PICK bs \in SetToSeqs(S) : ts = [i \in DOMAIN bs |-> SyncRun(bs[i])]
    BY <1>1 DEF HeadTasks
  <2>2. S \in SUBSET DOMAIN KubeBindings
    OBVIOUS
  <2>3. IsFiniteSet(S)
    BY <2>2, BindingsAssumption, FiniteBindings
  <2> HIDE DEF S
  <2>4. Cardinality(S) \in Nat /\ bs \in [1..Cardinality(S) -> S]
    BY <2>3, OrderType
  <2>5. \A b \in S : SyncRun(b) \in Task
    BY <2>2, TaskTypes
  <2> QED
    BY <1>1, <2>1, <2>4, <2>5
<1>2. CASE t.kind # "EnableKubernetesBindings"
  BY <1>2 DEF HeadTasks
<1> QED
  BY <1>1, <1>2

\* The main queue begins with the runs of onStartup.
LEMMA BootstrapType ==
    ASSUME NEW m \in BootstrapMainQueue
    PROVE  /\ m \in Seq(Task) /\ Len(m) >= Len(StartupHooks)
           /\ \A i \in 1..Len(StartupHooks) : m[i] = OnStartup(StartupHooks[i])
<1> DEFINE K == {EnableKube(KubeBindings[b].hook) : b \in DOMAIN KubeBindings}
           C == {EnableSchedule(ScheduleBindings[b].hook) : b \in DOMAIN ScheduleBindings}
<1>1. IsFiniteSet(K \cup C)
  <2>1. IsFiniteSet(DOMAIN KubeBindings) /\ IsFiniteSet(DOMAIN ScheduleBindings)
    BY BindingsAssumption, FiniteBindings
  <2>2. [b \in DOMAIN KubeBindings |-> EnableKube(KubeBindings[b].hook)] \in Surjection(DOMAIN KubeBindings, K)
    BY DEF Surjection
  <2>3. [b \in DOMAIN ScheduleBindings |-> EnableSchedule(ScheduleBindings[b].hook)]
            \in Surjection(DOMAIN ScheduleBindings, C)
    BY DEF Surjection
  <2> HIDE DEF K, C
  <2>4. IsFiniteSet(K)
    BY <2>1, <2>2, FS_Surjection
  <2>5. IsFiniteSet(C)
    BY <2>1, <2>3, FS_Surjection
  <2> QED
    BY <2>4, <2>5, FS_Union
<1>2. PICK ts \in SetToSeqs(K \cup C) : m = StartupTasks \o ts
  <2>1. PICK ts \in EnableTasks : m = StartupTasks \o ts
    BY DEF BootstrapMainQueue
  <2>2. ts \in SetToSeqs(K \cup C)
    BY DEF EnableTasks
  <2> QED
    BY <2>1, <2>2
<1>3. \A t \in K \cup C : t \in Task
  BY TaskTypes
<1> HIDE DEF K, C
<1>4. Cardinality(K \cup C) \in Nat /\ ts \in [1..Cardinality(K \cup C) -> K \cup C]
  BY <1>1, OrderType
<1>5. ts \in Seq(Task)
  <2>1. ts \in [1..Cardinality(K \cup C) -> Task]
    BY <1>3, <1>4
  <2> QED
    BY <1>4, <2>1, ListType
<1>6. /\ StartupTasks \in Seq(Task) /\ Len(StartupTasks) = Len(StartupHooks)
      /\ \A i \in 1..Len(StartupHooks) : StartupTasks[i] = OnStartup(StartupHooks[i])
  <2>1. Len(StartupHooks) \in Nat /\ DOMAIN StartupHooks = 1..Len(StartupHooks)
    BY BindingsAssumption DEF IsList
  <2>2. \A i \in 1..Len(StartupHooks) : OnStartup(StartupHooks[i]) \in Task
    BY <2>1, TaskTypes
  <2>3. StartupTasks = [i \in 1..Len(StartupHooks) |-> OnStartup(StartupHooks[i])]
    BY <2>1 DEF StartupTasks
  <2> QED
    BY <2>1, <2>2, <2>3
<1>7. /\ m \in Seq(Task) /\ Len(m) = Len(StartupTasks) + Len(ts)
      /\ \A i \in 1..Len(StartupTasks) : m[i] = StartupTasks[i]
  BY <1>2, <1>5, <1>6, Joined
<1> QED
  BY <1>5, <1>6, <1>7

-----------------------------------------------------------------------------
(* Steps of the main goroutine.                                            *)

\* NewShellOperator and Start: each action at its place.
LEMMA StartSteps ==
    ASSUME MainType
    PROVE  /\ Build => /\ step \in 1..4 /\ step' \in {0, step + 1} /\ late' = late /\ wg' = wg
                       /\ servers' \subseteq servers \cup {"debug", "admission", "conversion"}
           /\ StartAPI => step = 5 /\ step' = 6
           /\ StartMain => step = 6 /\ step' = 7
           /\ InitAndStartHookQueues => step = 7 /\ step' = 8
           /\ RunMetrics => step = 8 /\ step' = 9
           /\ StartHandler => step = 9 /\ step' = 10
           /\ StartSchedule => step = 10 /\ step' = 11
           /\ BeginShutdown => step \in 11..12 /\ step' = step + 1
<1> USE DEF MainType, Advance
<1>1. ASSUME Build
      PROVE  /\ step \in 1..4 /\ step' \in {0, step + 1} /\ late' = late /\ wg' = wg
             /\ servers' \subseteq servers \cup {"debug", "admission", "conversion"}
  <2>0. step \in 0..22
    BY AtSteps
  <2>1. CASE BuildDebug
    <3>1. step = 1
      BY <2>1, AtSteps DEF BuildDebug
    <3> QED
      BY <2>1, <3>1 DEF BuildDebug
  <2>2. CASE Assemble
    <3>1. step = 2
      BY <2>2, AtSteps DEF Assemble
    <3> QED
      BY <2>2, <3>1 DEF Assemble
  <2>3. CASE BuildWebhooks("admission", "build_admission")
    <3>1. step = 3
      <4>1. at = "build_admission"
        BY <2>3 DEF BuildWebhooks
      <4> QED
        BY <4>1, AtSteps
    <3> QED
      BY <2>3, <3>1 DEF BuildWebhooks
  <2>4. CASE BuildWebhooks("conversion", "build_conversion")
    <3>1. step = 4
      <4>1. at = "build_conversion"
        BY <2>4 DEF BuildWebhooks
      <4> QED
        BY <4>1, AtSteps
    <3> QED
      BY <2>4, <3>1 DEF BuildWebhooks
  <2> QED
    BY <1>1, <2>1, <2>2, <2>3, <2>4 DEF Build
<1>2. StartAPI => step = 5 /\ step' = 6
  BY AtSteps DEF StartAPI
<1>3. ASSUME StartMain PROVE step = 6 /\ step' = 7
  <2>1. at = "main_queue" /\ step' = step + 1
    BY <1>3 DEF StartMain
  <2>2. step = 6
    BY <2>1, AtSteps
  <2> QED
    BY <2>1, <2>2
<1>4. ASSUME InitAndStartHookQueues PROVE step = 7 /\ step' = 8
  <2>1. at = "hook_queues" /\ step' = step + 1
    BY <1>4 DEF InitAndStartHookQueues
  <2>2. step = 7
    BY <2>1, AtSteps
  <2> QED
    BY <2>1, <2>2
<1>5. RunMetrics => step = 8 /\ step' = 9
  BY AtSteps DEF RunMetrics
<1>6. StartHandler => step = 9 /\ step' = 10
  BY AtSteps DEF StartHandler
<1>7. StartSchedule => step = 10 /\ step' = 11
  BY AtSteps DEF StartSchedule
<1>8. BeginShutdown => step \in 11..12 /\ step' = step + 1
  <2>1. at = "serve" \/ at = "cancel" => step = 11 \/ step = 12
    BY AtSteps
  <2> QED
    BY <2>1 DEF BeginShutdown
<1> QED
  BY <1>1, <1>2, <1>3, <1>4, <1>5, <1>6, <1>7, <1>8

\* A part of doShutdown is in time only if its goroutines have ended.
LEMMA ShutdownSteps ==
    ASSUME MainType, Shutdown
    PROVE  /\ step \in 13..21 /\ step' = step + 1 /\ wg' = wg
           /\ servers' \subseteq servers /\ late' \in BOOLEAN
           /\ ~late' => /\ ~late
                        /\ step = 13 => stopped
                        /\ step = 14 => handler.at = "done"
                        /\ step = 16 => QueuesStopped
                        /\ step = 17 => "admission" \notin requests
                        /\ step = 18 => "conversion" \notin requests
                        /\ step = 19 => "debug" \notin requests
                        /\ step = 20 => "api" \notin requests
                        /\ step = 21 => wg = 0
           /\ step = 17 => "admission" \notin servers'
           /\ step = 18 => "conversion" \notin servers'
           /\ step = 19 => "debug" \notin servers'
           /\ step = 20 => "api" \notin servers'
<1> USE DEF MainType, Advance
<1>1. CASE StopSchedule
  <2>1. at = "stop_schedule"
    BY <1>1 DEF StopSchedule
  <2>2. step = 13
    BY <2>1, AtSteps
  <2>3. late' \in BOOLEAN /\ (~late' => ~late /\ stopped)
    BY <1>1, Zenon DEF StopSchedule
  <2>4. step' = step + 1 /\ wg' = wg /\ servers' = servers
    BY <1>1 DEF StopSchedule
  <2> QED
    BY <2>2, <2>3, <2>4
<1>2. CASE BoundedWait("stop_handler", handler.at = "done")
  <2>1. at = "stop_handler"
    BY <1>2 DEF BoundedWait
  <2>2. step = 14
    BY <2>1, AtSteps
  <2>3. late' \in BOOLEAN /\ (~late' => ~late /\ handler.at = "done")
    BY <1>2, Zenon DEF BoundedWait
  <2>4. step' = step + 1 /\ wg' = wg /\ servers' = servers
    BY <1>2 DEF BoundedWait
  <2> QED
    BY <2>2, <2>3, <2>4
<1>3. CASE StopKube
  <2>1. at = "stop_kube"
    BY <1>3 DEF StopKube
  <2>2. step = 15
    BY <2>1, AtSteps
  <2> QED
    BY <1>3, <2>2 DEF StopKube
<1>4. CASE BoundedWait("stop_queues", QueuesStopped)
  <2>1. at = "stop_queues"
    BY <1>4 DEF BoundedWait
  <2>2. step = 16
    BY <2>1, AtSteps
  <2>3. late' \in BOOLEAN /\ (~late' => ~late /\ QueuesStopped)
    BY <1>4, Zenon DEF BoundedWait
  <2>4. step' = step + 1 /\ wg' = wg /\ servers' = servers
    BY <1>4 DEF BoundedWait
  <2> QED
    BY <2>2, <2>3, <2>4
<1>5. CASE StopServer("admission", "stop_admission")
  <2>1. at = "stop_admission"
    BY <1>5 DEF StopServer
  <2>2. step = 17
    BY <2>1, AtSteps
  <2>3. late' \in BOOLEAN /\ (~late' => ~late /\ "admission" \notin requests)
    BY <1>5, Zenon DEF StopServer
  <2>4. step' = step + 1 /\ wg' = wg /\ servers' = servers \ {"admission"}
    BY <1>5 DEF StopServer
  <2> QED
    BY <2>2, <2>3, <2>4
<1>6. CASE StopServer("conversion", "stop_conversion")
  <2>1. at = "stop_conversion"
    BY <1>6 DEF StopServer
  <2>2. step = 18
    BY <2>1, AtSteps
  <2>3. late' \in BOOLEAN /\ (~late' => ~late /\ "conversion" \notin requests)
    BY <1>6, Zenon DEF StopServer
  <2>4. step' = step + 1 /\ wg' = wg /\ servers' = servers \ {"conversion"}
    BY <1>6 DEF StopServer
  <2> QED
    BY <2>2, <2>3, <2>4
<1>7. CASE StopServer("debug", "stop_debug")
  <2>1. at = "stop_debug"
    BY <1>7 DEF StopServer
  <2>2. step = 19
    BY <2>1, AtSteps
  <2>3. late' \in BOOLEAN /\ (~late' => ~late /\ "debug" \notin requests)
    BY <1>7, Zenon DEF StopServer
  <2>4. step' = step + 1 /\ wg' = wg /\ servers' = servers \ {"debug"}
    BY <1>7 DEF StopServer
  <2> QED
    BY <2>2, <2>3, <2>4
<1>8. CASE StopServer("api", "stop_api")
  <2>1. at = "stop_api"
    BY <1>8 DEF StopServer
  <2>2. step = 20
    BY <2>1, AtSteps
  <2>3. late' \in BOOLEAN /\ (~late' => ~late /\ "api" \notin requests)
    BY <1>8, Zenon DEF StopServer
  <2>4. step' = step + 1 /\ wg' = wg /\ servers' = servers \ {"api"}
    BY <1>8 DEF StopServer
  <2> QED
    BY <2>2, <2>3, <2>4
<1>9. CASE BoundedWait("stop_metrics", wg = 0)
  <2>1. at = "stop_metrics"
    BY <1>9 DEF BoundedWait
  <2>2. step = 21
    BY <2>1, AtSteps
  <2>3. late' \in BOOLEAN /\ (~late' => ~late /\ wg = 0)
    BY <1>9, Zenon DEF BoundedWait
  <2>4. step' = step + 1 /\ wg' = wg /\ servers' = servers
    BY <1>9 DEF BoundedWait
  <2> QED
    BY <2>2, <2>3, <2>4
<1> QED
  BY <1>1, <1>2, <1>3, <1>4, <1>5, <1>6, <1>7, <1>8, <1>9 DEF Shutdown, StopWebhooks, StopDebug, StopMetrics

-----------------------------------------------------------------------------
(* Steps of the workers.                                                   *)

\* What every step of a worker leaves alone.
LEMMA WorkerFrame ==
    ASSUME NEW q \in DOMAIN worker, WorkerSucceeds(q) \/ TaskFails(q)
    PROVE  UNCHANGED <<step, late, servers, wg, cancelled, requests, handler, scheduleCh, strayed, informer,
                       cron, stopped, jobs, budget>>
  BY DEF WorkerSucceeds, TaskFails, Wait, EnableKubernetesBindings, EnableScheduleBindings, RunHook,
         RunSynchronization, Replay, mainVars, eventVars, kubeVars, cronVars

\* A result that is applied replaces the head of the queue with its head tasks.
LEMMA Applied ==
    ASSUME QueuesType, NEW q \in DOMAIN queues, queues[q] # <<>>, ApplyResult(q)
    PROVE  /\ queues' \in [DOMAIN queues -> Seq(Task)]
           /\ worker' \in [DOMAIN queues -> {"wait", "run", "replay", "stopped"}]
           /\ \A p \in DOMAIN queues \ {q} : queues'[p] = queues[p] /\ worker'[p] = worker[p]
           /\ worker'[q] \in {"wait", "stopped"}
           /\ \/ queues' = queues
              \/ \E ts \in HeadTasks(Head(queues[q])) : queues'[q] = ts \o Tail(queues[q])
<1> USE DEF QueuesType
<1>1. CASE UNCHANGED queues /\ worker' = [worker EXCEPT ![q] = "stopped"]
  BY <1>1
<1>2. CASE /\ worker' = [worker EXCEPT ![q] = "wait"]
           /\ \E ts \in HeadTasks(Head(queues[q])) : queues' = [queues EXCEPT ![q] = ts \o Tail(queues[q])]
  <2>1. PICK ts \in HeadTasks(Head(queues[q])) : queues' = [queues EXCEPT ![q] = ts \o Tail(queues[q])]
    BY <1>2
  <2>2. ts \in Seq(Task)
    BY HeadTasksType
  <2>3. queues[q] \in Seq(Task)
    OBVIOUS
  <2>4. ts \o Tail(queues[q]) \in Seq(Task)
    BY <2>2, <2>3
  <2>5. queues' \in [DOMAIN queues -> Seq(Task)] /\ queues'[q] = ts \o Tail(queues[q])
        /\ \A p \in DOMAIN queues \ {q} : queues'[p] = queues[p]
    BY <2>1, <2>4
  <2> QED
    BY <1>2, <2>5
<1> QED
  BY <1>1, <1>2 DEF ApplyResult

\* A step of a worker changes its own queue, only by applying a result, and no other.
LEMMA WorkerEffect ==
    ASSUME QueuesType, WorkersHaveTasks, NEW q \in DOMAIN queues, WorkerSucceeds(q) \/ TaskFails(q)
    PROVE  /\ queues' \in [DOMAIN queues -> Seq(Task)]
           /\ worker' \in [DOMAIN queues -> {"wait", "run", "replay", "stopped"}]
           /\ \A p \in DOMAIN queues \ {q} : queues'[p] = queues[p] /\ worker'[p] = worker[p]
           /\ worker[q] # "stopped"
           /\ worker'[q] \in {"run", "replay"} => queues' = queues /\ queues[q] # <<>>
           /\ worker'[q] = "replay" => Head(queues[q]).kind = "Synchronization"
           /\ \/ queues' = queues
              \/ /\ worker[q] \in {"run", "replay"}
                 /\ \E ts \in HeadTasks(Head(queues[q])) : queues'[q] = ts \o Tail(queues[q])
<1> USE DEF QueuesType, WorkersHaveTasks
<1>1. CASE Wait(q)
  BY <1>1 DEF Wait, WaitForTask
<1>2. CASE TaskFails(q)
  BY <1>2 DEF TaskFails
<1>3. CASE RunSynchronization(q)
  BY <1>3 DEF RunSynchronization
<1>4. ASSUME worker[q] \in {"run", "replay"}, ApplyResult(q)
      PROVE  /\ queues' \in [DOMAIN queues -> Seq(Task)]
             /\ worker' \in [DOMAIN queues -> {"wait", "run", "replay", "stopped"}]
             /\ \A p \in DOMAIN queues \ {q} : queues'[p] = queues[p] /\ worker'[p] = worker[p]
             /\ worker'[q] \in {"wait", "stopped"}
             /\ \/ queues' = queues
                \/ \E ts \in HeadTasks(Head(queues[q])) : queues'[q] = ts \o Tail(queues[q])
  BY <1>4, Applied
<1>5. CASE (worker[q] = "run" \/ worker[q] = "replay") /\ ApplyResult(q)
  BY <1>4, <1>5
<1>6. CASE Replay(q)
  <2>1. CASE UNCHANGED <<worker, queues>>
    BY <2>1, <1>6 DEF Replay
  <2> QED
    BY <2>1, <1>5, <1>6 DEF Replay
<1>7. CASE EnableKubernetesBindings(q) \/ EnableScheduleBindings(q) \/ RunHook(q)
  BY <1>5, <1>7 DEF EnableKubernetesBindings, EnableScheduleBindings, RunHook
<1> QED
  BY <1>1, <1>2, <1>3, <1>6, <1>7 DEF WorkerSucceeds

-----------------------------------------------------------------------------
(* Each part of the invariant is kept by every step.                       *)

\* Steps that change no queue and no worker.
LEMMA QueueFrame ==
    ASSUME [Next]_vars
    PROVE  \/ UNCHANGED <<queues, worker>>
           \/ StartMain \/ InitAndStartHookQueues \/ AddTailTasks
           \/ \E q \in DOMAIN worker : WorkerSucceeds(q) \/ TaskFails(q)
  BY DEF Next, vars, MainStep, HandlerStep, Build, StartAPI, RunMetrics, StartHandler, StartSchedule, BeginShutdown,
         Shutdown, Signal, EndLoop, StopCron, Request, Respond, Fire, JobSends, KubeEvent, InformerSends,
         TakeSchedule, TakeKube, HandlerEnds, DisableScheduleBindings, queueVars

LEMMA AddTailEffect ==
    ASSUME QueuesType, EventsType, AddTailTasks
    PROVE  /\ worker' = worker
           /\ queues' \in [DOMAIN queues -> Seq(Task)]
           /\ \/ queues' = queues
              \/ /\ handler.tasks # <<>>
                 /\ \E q \in DOMAIN queues, t \in Task :
                       /\ queues'[q] = Append(queues[q], t)
                       /\ \A p \in DOMAIN queues \ {q} : queues'[p] = queues[p]
<1> USE DEF QueuesType, EventsType
<1>1. CASE queues' = queues
  BY <1>1 DEF AddTailTasks
<1>2. CASE queues' # queues
  <2> DEFINE t == Head(handler.tasks)
  <2>1. /\ handler.tasks # <<>> /\ worker' = worker /\ t.queue \in DOMAIN queues
        /\ queues' = [queues EXCEPT ![t.queue] = Append(queues[t.queue], t.task)]
    BY <1>2 DEF AddTailTasks
  <2>2. t \in [queue : HookQueues, task : Task]
    <3> DEFINE R == [queue : HookQueues, task : Task]
    <3>1. handler.tasks \in Seq(R)
      OBVIOUS
    <3> HIDE DEF R
    <3>2. t \in R
      BY <2>1, <3>1
    <3> QED
      BY <3>2 DEF R
  <2>3. t.task \in Task
    BY <2>2
  <2> HIDE DEF t
  <2>4. queues[t.queue] \in Seq(Task)
    BY <2>1
  <2>5. Append(queues[t.queue], t.task) \in Seq(Task)
    BY <2>3, <2>4
  <2> QED
    BY <2>1, <2>3, <2>5
<1> QED
  BY <1>1, <1>2

\* A queue with one more task at its end keeps its head.
LEMMA HeadStays ==
    ASSUME NEW S, NEW s \in Seq(S), NEW t \in S
    PROVE  /\ Append(s, t) # <<>>
           /\ s # <<>> => Head(Append(s, t)) = Head(s)
<1> DEFINE a == Append(s, t)
<1>1. a \in Seq(S) /\ Len(a) = Len(s) + 1 /\ \A i \in 1..Len(s) : a[i] = s[i]
  OBVIOUS
<1>2. Len(s) \in Nat /\ (s # <<>> => Len(s) >= 1)
  OBVIOUS
<1> HIDE DEF a
<1>3. a # <<>>
  BY <1>1, <1>2
<1>4. Head(a) = a[1] /\ Head(s) = s[1]
  BY <1>1
<1>5. s # <<>> => a[1] = s[1]
  BY <1>1, <1>2
<1> QED
  BY <1>3, <1>4, <1>5 DEF a

LEMMA QueuesStep ==
    ASSUME IInv, [Next]_vars
    PROVE  QueuesType' /\ WorkersHaveTasks'
<1> USE DEF IInv, TypeOK
<1>1. CASE UNCHANGED <<queues, worker>>
  BY <1>1 DEF QueuesType, WorkersHaveTasks
<1>2. CASE StartMain
  <2>1. queues' \in [{Main} -> BootstrapMainQueue] /\ worker' = [q \in {Main} |-> "wait"]
    BY <1>2 DEF StartMain
  <2>2. queues' \in [{Main} -> Seq(Task)]
    BY <2>1, BootstrapType
  <2> QED
    BY <2>1, <2>2 DEF QueuesType, WorkersHaveTasks
<1>3. CASE InitAndStartHookQueues
  <2> DEFINE D == DOMAIN queues \cup HookQueues
  <2>1. /\ queues' = [q \in D |-> IF q \in DOMAIN queues THEN queues[q] ELSE <<>>]
        /\ worker' = [q \in D |-> IF q \in DOMAIN queues THEN worker[q] ELSE "wait"]
    BY <1>3 DEF InitAndStartHookQueues
  <2>2. <<>> \in Seq(Task)
    OBVIOUS
  <2>3. DOMAIN queues \subseteq D
    OBVIOUS
  <2> HIDE DEF D
  <2>4. queues' \in [D -> Seq(Task)]
    BY <2>1, <2>2 DEF QueuesType
  <2>5. worker' \in [D -> {"wait", "run", "replay", "stopped"}]
    BY <2>1 DEF QueuesType
  <2> QED
    BY <2>1, <2>4, <2>5 DEF QueuesType, WorkersHaveTasks
<1>4. CASE AddTailTasks
  <2>1. CASE queues' = queues
    BY <1>4, <2>1, AddTailEffect DEF QueuesType, WorkersHaveTasks
  <2>2. CASE queues' # queues
    <3>1. worker' = worker /\ queues' \in [DOMAIN queues -> Seq(Task)]
      BY <1>4, AddTailEffect
    <3>2. PICK q \in DOMAIN queues, t \in Task :
              /\ queues'[q] = Append(queues[q], t)
              /\ \A p \in DOMAIN queues \ {q} : queues'[p] = queues[p]
      BY <1>4, <2>2, AddTailEffect
    <3>3. queues[q] \in Seq(Task)
      BY DEF QueuesType
    <3>4. queues'[q] # <<>> /\ (queues[q] # <<>> => Head(queues'[q]) = Head(queues[q]))
      BY <3>2, <3>3, HeadStays
    <3> QED
      BY <3>1, <3>2, <3>4 DEF QueuesType, WorkersHaveTasks
  <2> QED
    BY <2>1, <2>2
<1>5. ASSUME NEW q \in DOMAIN worker, WorkerSucceeds(q) \/ TaskFails(q)
      PROVE  QueuesType' /\ WorkersHaveTasks'
  <2>1. q \in DOMAIN queues
    BY DEF QueuesType
  <2> QED
    BY <1>5, <2>1, WorkerEffect DEF QueuesType, WorkersHaveTasks
<1> QED
  BY <1>1, <1>2, <1>3, <1>4, <1>5, QueueFrame

\* Which steps change the variables of the main goroutine.
LEMMA MainFrame ==
    ASSUME [Next]_vars
    PROVE  \/ UNCHANGED <<step, late, servers, wg, cancelled, requests>>
           \/ MainStep /\ UNCHANGED <<cancelled, requests>>
           \/ Signal \/ EndLoop
           \/ \E s \in servers : Request(s)
           \/ \E s \in requests : Respond(s)
<1>1. ASSUME NEW q \in DOMAIN worker, WorkerSucceeds(q) \/ TaskFails(q)
      PROVE  UNCHANGED <<step, late, servers, wg, cancelled, requests>>
  BY <1>1, WorkerFrame
<1>2. MainStep => UNCHANGED <<cancelled, requests>>
  BY DEF MainStep, Build, StartAPI, StartMain, InitAndStartHookQueues, RunMetrics, StartHandler, StartSchedule,
         BeginShutdown, Shutdown
<1> QED
  BY <1>1, <1>2 DEF Next, vars, HandlerStep, StopCron, Fire, JobSends, KubeEvent, InformerSends,
         TakeSchedule, TakeKube, HandlerEnds, AddTailTasks, DisableScheduleBindings, mainVars

LEMMA MainTypeStep ==
    ASSUME IInv, [Next]_vars
    PROVE  MainType'
<1> USE DEF IInv, TypeOK
<1>0. Len(Program) = 22 /\ MainType
  BY Places
<1>1. CASE MainStep /\ UNCHANGED <<cancelled, requests>>
  <2> SUFFICES step' \in 0..22 /\ late' \in BOOLEAN /\ servers' \subseteq {"debug", "admission", "conversion", "api"}
               /\ wg' \in 0..2
    BY <1>0, <1>1 DEF MainType
  <2>1. CASE Build
    <3>1. /\ step \in 1..4 /\ step' \in {0, step + 1} /\ late' = late /\ wg' = wg
          /\ servers' \subseteq servers \cup {"debug", "admission", "conversion"}
      BY <1>0, <2>1, StartSteps
    <3> QED
      BY <1>0, <3>1 DEF MainType
  <2>2. CASE Shutdown
    <3>1. step \in 13..21 /\ step' = step + 1 /\ wg' = wg /\ servers' \subseteq servers /\ late' \in BOOLEAN
      BY <1>0, <2>2, ShutdownSteps
    <3> QED
      BY <1>0, <3>1 DEF MainType
  <2>3. CASE StartAPI
    BY <1>0, <2>3, StartSteps DEF MainType, StartAPI
  <2>4. CASE StartMain
    <3>1. UNCHANGED <<late, servers, wg>> /\ step' = 7
      BY <1>0, <2>4, StartSteps DEF StartMain
    <3> QED
      BY <1>0, <3>1 DEF MainType
  <2>5. CASE InitAndStartHookQueues
    <3>1. UNCHANGED <<late, servers, wg>> /\ step' = 8
      BY <1>0, <2>5, StartSteps DEF InitAndStartHookQueues
    <3> QED
      BY <1>0, <3>1 DEF MainType
  <2>6. CASE RunMetrics
    BY <1>0, <2>6, StartSteps DEF MainType, RunMetrics
  <2>7. CASE StartHandler \/ StartSchedule \/ BeginShutdown
    <3>1. UNCHANGED <<late, servers, wg>> /\ step' \in 10..13
      BY <1>0, <2>7, StartSteps DEF StartHandler, StartSchedule, BeginShutdown
    <3> QED
      BY <1>0, <3>1 DEF MainType
  <2> QED
    BY <1>1, <2>1, <2>2, <2>3, <2>4, <2>5, <2>6, <2>7 DEF MainStep
<1>2. CASE Signal
  BY <1>0, <1>2 DEF MainType, Signal, mainVars
<1>3. CASE EndLoop
  BY <1>0, <1>3 DEF MainType, EndLoop
<1>4. CASE \E s \in servers : Request(s)
  BY <1>0, <1>4 DEF MainType, Request, mainVars
<1>5. CASE \E s \in requests : Respond(s)
  BY <1>0, <1>5 DEF MainType, Respond, mainVars
<1>6. CASE UNCHANGED <<step, late, servers, wg, cancelled, requests>>
  BY <1>0, <1>6 DEF MainType
<1> QED
  BY <1>1, <1>2, <1>3, <1>4, <1>5, <1>6, MainFrame

\* The head of a queue is a task; a Synchronization is of a kubernetes binding.
LEMMA HeadType ==
    ASSUME QueuesType, NEW q \in DOMAIN queues, queues[q] # <<>>
    PROVE  /\ Head(queues[q]) \in Task
           /\ Head(queues[q]).kind = "Synchronization" => Head(queues[q]).b \in DOMAIN KubeBindings
<1>1. queues[q] \in Seq(Task)
  BY DEF QueuesType
<1> DEFINE t == Head(queues[q])
<1>2. t \in Task
  BY <1>1
<1> HIDE DEF t
<1>3. t.kind = "Synchronization" => t.b \in DOMAIN KubeBindings
  BY <1>2 DEF Task
<1> QED
  BY <1>2, <1>3 DEF t

\* Which steps change the handler and the channels.
LEMMA EventsFrame ==
    ASSUME [Next]_vars
    PROVE  \/ UNCHANGED <<handler, kubeCh, scheduleCh>>
           \/ StartHandler \/ TakeSchedule \/ TakeKube \/ HandlerEnds \/ AddTailTasks
           \/ \E c \in Crontabs : JobSends(c)
           \/ \E b \in DOMAIN KubeBindings : InformerSends(b)
           \/ \E q \in DOMAIN worker : Replay(q)
  BY DEF Next, vars, MainStep, HandlerStep, Build, StartAPI, StartMain, InitAndStartHookQueues, RunMetrics,
         StartSchedule, BeginShutdown, Shutdown, Signal, EndLoop, StopCron, Request, Respond, Fire, KubeEvent,
         DisableScheduleBindings, WorkerSucceeds, TaskFails, Wait, EnableKubernetesBindings,
         EnableScheduleBindings, RunHook, RunSynchronization, eventVars

LEMMA EventsStep ==
    ASSUME IInv, [Next]_vars
    PROVE  EventsType'
<1> USE DEF IInv, TypeOK
<1> DEFINE R == [queue : HookQueues, task : Task]
           A == {"off", "select", "tail", "done"}
<1>0. /\ handler \in [at : A, tasks : Seq(R)]
      /\ kubeCh \in Seq(DOMAIN KubeBindings) /\ scheduleCh \in Seq(Crontabs)
  BY DEF EventsType
<1> SUFFICES /\ handler' \in [at : A, tasks : Seq(R)]
             /\ kubeCh' \in Seq(DOMAIN KubeBindings) /\ scheduleCh' \in Seq(Crontabs)
  BY DEF EventsType
<1>t. \A b \in DOMAIN KubeBindings : [queue |-> KubeBindings[b].queue, task |-> KubeRun(b)] \in R
  BY TaskTypes DEF HookQueues
<1>s. ASSUME NEW c, NEW tasks \in ScheduleTasks(c) PROVE tasks \in Seq(R)
  BY ScheduleTasksType DEF CronType
<1> HIDE DEF R
<1>1. CASE UNCHANGED <<handler, kubeCh, scheduleCh>>
  BY <1>0, <1>1
<1>2. CASE StartHandler
  BY <1>0, <1>2 DEF StartHandler
<1>3. CASE TakeSchedule
  <2>1. scheduleCh' \in Seq(Crontabs) /\ kubeCh' = kubeCh
    BY <1>0, <1>3 DEF TakeSchedule
  <2>2. CASE HandlerPanic
    BY <1>0, <2>1, <2>2 DEF HandlerPanic, HandlerTakes
  <2>3. CASE \E tasks \in ScheduleTasks(Head(scheduleCh)) : HandlerTakes(tasks)
    <3>1. PICK tasks \in ScheduleTasks(Head(scheduleCh)) : HandlerTakes(tasks)
      BY <2>3
    <3>2. tasks \in Seq(R)
      BY <1>s
    <3> QED
      BY <1>0, <2>1, <3>1, <3>2 DEF HandlerTakes
  <2> QED
    BY <1>3, <2>2, <2>3 DEF TakeSchedule
<1>4. CASE TakeKube
  <2>1. kubeCh' \in Seq(DOMAIN KubeBindings) /\ scheduleCh' = scheduleCh
    BY <1>0, <1>4 DEF TakeKube
  <2>2. CASE HandlerPanic
    BY <1>0, <2>1, <2>2 DEF HandlerPanic, HandlerTakes
  <2>3. CASE HandlerTakes(<<[queue |-> KubeBindings[Head(kubeCh)].queue, task |-> KubeRun(Head(kubeCh))]>>)
    <3> DEFINE r == [queue |-> KubeBindings[Head(kubeCh)].queue, task |-> KubeRun(Head(kubeCh))]
    <3>1. Head(kubeCh) \in DOMAIN KubeBindings
      BY <1>0, <1>4 DEF TakeKube
    <3>2. r \in R
      BY <1>t, <3>1
    <3>3. HandlerTakes(<<r>>)
      BY <2>3
    <3> HIDE DEF r
    <3> QED
      BY <1>0, <2>1, <3>2, <3>3 DEF HandlerTakes
  <2> QED
    BY <1>4, <2>2, <2>3 DEF TakeKube
<1>5. CASE HandlerEnds
  BY <1>0, <1>5 DEF HandlerEnds
<1>6. CASE AddTailTasks
  <2>1. UNCHANGED <<kubeCh, scheduleCh>>
    BY <1>6 DEF AddTailTasks
  <2>2. CASE handler' = [handler EXCEPT !.at = "select"]
    BY <1>0, <2>1, <2>2
  <2>3. CASE handler.tasks # <<>> /\ handler' = [handler EXCEPT !.tasks = Tail(@)]
    <3>1. Tail(handler.tasks) \in Seq(R)
      BY <1>0, <2>3
    <3> QED
      BY <1>0, <2>1, <2>3, <3>1
  <2> QED
    BY <1>6, <2>2, <2>3 DEF AddTailTasks
<1>7. ASSUME NEW c \in Crontabs, JobSends(c)
      PROVE  handler' = handler /\ kubeCh' = kubeCh /\ scheduleCh' \in Seq(Crontabs)
  BY <1>0, <1>7 DEF JobSends
<1>8. ASSUME NEW b \in DOMAIN KubeBindings, InformerSends(b)
      PROVE  handler' = handler /\ scheduleCh' = scheduleCh /\ kubeCh' \in Seq(DOMAIN KubeBindings)
  BY <1>0, <1>8 DEF InformerSends
<1>9. ASSUME NEW q \in DOMAIN worker, Replay(q)
      PROVE  handler' = handler /\ scheduleCh' = scheduleCh /\ kubeCh' \in Seq(DOMAIN KubeBindings)
  <2>1. q \in DOMAIN queues /\ worker[q] = "replay"
    BY <1>9 DEF QueuesType, Replay
  <2>2. Head(queues[q]).b \in DOMAIN KubeBindings
    BY <2>1, HeadType DEF WorkersHaveTasks
  <2>3. kubeCh' = kubeCh \/ kubeCh' = <<Head(queues[q]).b>>
    BY <1>9 DEF Replay
  <2>4. handler' = handler /\ scheduleCh' = scheduleCh
    BY <1>9 DEF Replay
  <2>5. \A b \in DOMAIN KubeBindings : <<b>> \in Seq(DOMAIN KubeBindings)
    OBVIOUS
  <2> QED
    BY <1>0, <2>2, <2>3, <2>4, <2>5
<1> QED
  BY <1>0, <1>1, <1>2, <1>3, <1>4, <1>5, <1>6, <1>7, <1>8, <1>9, EventsFrame

\* Which steps change monitors and informers.
LEMMA KubeFrame ==
    ASSUME [Next]_vars
    PROVE  \/ UNCHANGED <<monitor, informer>>
           \/ \E b \in DOMAIN KubeBindings : KubeEvent(b) \/ InformerSends(b)
           \/ \E q \in DOMAIN worker : EnableKubernetesBindings(q) \/ RunSynchronization(q) \/ Replay(q)
  BY DEF Next, vars, MainStep, HandlerStep, Build, StartAPI, StartMain, InitAndStartHookQueues, RunMetrics,
         StartHandler, StartSchedule, BeginShutdown, Shutdown, Signal, EndLoop, StopCron, Request, Respond, Fire,
         JobSends, TakeSchedule, TakeKube, HandlerEnds, AddTailTasks, DisableScheduleBindings, WorkerSucceeds,
         TaskFails, Wait, EnableScheduleBindings, RunHook, kubeVars

LEMMA KubeStep ==
    ASSUME IInv, [Next]_vars
    PROVE  KubeType'
<1> USE DEF IInv, TypeOK
<1> DEFINE M == [at : {"none", "buffers", "enabled"}, buf : Nat]
           D == DOMAIN KubeBindings
<1>0. monitor \in [D -> M] /\ informer \subseteq D
  BY DEF KubeType
<1> SUFFICES monitor' \in [D -> M] /\ informer' \subseteq D
  BY DEF KubeType
<1> HIDE DEF D
<1>1. CASE UNCHANGED <<monitor, informer>>
  BY <1>0, <1>1
<1>2. ASSUME NEW b \in D, KubeEvent(b) PROVE monitor' \in [D -> M] /\ informer' \subseteq D
  <2>1. monitor[b] \in M /\ monitor[b].buf + 1 \in Nat
    BY <1>0
  <2> QED
    BY <1>0, <1>2, <2>1 DEF KubeEvent
<1>3. ASSUME NEW b \in D, InformerSends(b) PROVE monitor' \in [D -> M] /\ informer' \subseteq D
  BY <1>0, <1>3 DEF InformerSends
<1>4. ASSUME NEW q \in DOMAIN worker, EnableKubernetesBindings(q) PROVE monitor' \in [D -> M] /\ informer' \subseteq D
  <2>1. [at |-> "buffers", buf |-> 0] \in M
    OBVIOUS
  <2> HIDE DEF M
  <2> QED
    BY <1>0, <1>4, <2>1 DEF EnableKubernetesBindings
<1>5. ASSUME NEW q \in DOMAIN worker, RunSynchronization(q) PROVE monitor' \in [D -> M] /\ informer' \subseteq D
  <2> DEFINE b == Head(queues[q]).b
  <2>1. monitor' = [monitor EXCEPT ![b].at = "enabled"] /\ informer' = informer
    BY <1>5 DEF RunSynchronization
  <2>2. q \in DOMAIN queues /\ queues[q] # <<>> /\ Head(queues[q]).kind = "Synchronization"
    BY <1>5 DEF QueuesType, WorkersHaveTasks, RunSynchronization
  <2>3. b \in D
    BY <2>2, HeadType DEF D
  <2> HIDE DEF b
  <2> QED
    BY <1>0, <2>1, <2>3
<1>6. ASSUME NEW q \in DOMAIN worker, Replay(q) PROVE monitor' \in [D -> M] /\ informer' \subseteq D
  <2> DEFINE b == Head(queues[q]).b
  <2>1. /\ informer' = informer
        /\ monitor' = monitor \/ (monitor[b].buf > 0 /\ monitor' = [monitor EXCEPT ![b].buf = @ - 1])
    BY <1>6 DEF Replay
  <2>2. q \in DOMAIN queues /\ worker[q] = "replay"
    BY <1>6 DEF QueuesType, Replay
  <2>3. b \in D
    BY <2>2, HeadType DEF D, WorkersHaveTasks
  <2> HIDE DEF b
  <2>4. monitor[b] \in M /\ (monitor[b].buf > 0 => monitor[b].buf - 1 \in Nat)
    BY <1>0, <2>3
  <2> QED
    BY <1>0, <2>1, <2>3, <2>4
<1> QED
  BY <1>1, <1>2, <1>3, <1>4, <1>5, <1>6, KubeFrame DEF D

\* Which steps change the schedule.
LEMMA CronFrame ==
    ASSUME [Next]_vars
    PROVE  \/ UNCHANGED <<links, entries, jobs>>
           \/ \E c \in Crontabs : Fire(c) \/ JobSends(c)
           \/ \E q \in DOMAIN worker : EnableScheduleBindings(q)
           \/ \E h \in HookNames : DisableScheduleBindings(h)
  BY DEF Next, vars, MainStep, HandlerStep, Build, StartAPI, StartMain, InitAndStartHookQueues, RunMetrics,
         StartHandler, StartSchedule, BeginShutdown, Shutdown, Signal, EndLoop, StopCron, Request, Respond,
         KubeEvent, InformerSends, TakeSchedule, TakeKube, HandlerEnds, AddTailTasks, WorkerSucceeds,
         TaskFails, Wait, EnableKubernetesBindings, RunHook, RunSynchronization, Replay, cronVars

\* Entries es serve the links ls and no others.
Serves(es, ls) ==
    /\ DOMAIN es = {ScheduleBindings[b].crontab : b \in ls}
    /\ \A c \in DOMAIN es : es[c] = {b \in ls : ScheduleBindings[b].crontab = c}

\* Adding users to the entries that serve some links serves the links and the users.
LEMMA EntriesAdded ==
    ASSUME NEW es, NEW ls, NEW bs, Serves(es, ls)
    PROVE  Serves(EntriesWith(es, bs), ls \cup bs)
<1>0. /\ DOMAIN es = {ScheduleBindings[b].crontab : b \in ls}
      /\ \A c \in DOMAIN es : es[c] = {b \in ls : ScheduleBindings[b].crontab = c}
  BY DEF Serves
<1>1. DOMAIN EntriesWith(es, bs) = {ScheduleBindings[b].crontab : b \in ls \cup bs}
  BY <1>0 DEF EntriesWith
<1>2. ASSUME NEW c \in DOMAIN EntriesWith(es, bs)
      PROVE  EntriesWith(es, bs)[c] = {b \in ls \cup bs : ScheduleBindings[b].crontab = c}
  <2>1. EntriesWith(es, bs)[c] = (IF c \in DOMAIN es THEN es[c] ELSE {})
                                 \cup {b \in bs : ScheduleBindings[b].crontab = c}
    BY DEF EntriesWith
  <2>2. CASE c \in DOMAIN es
    BY <1>0, <2>1, <2>2
  <2>3. CASE c \notin DOMAIN es
    <3>1. \A b \in ls : ScheduleBindings[b].crontab # c
      BY <1>0, <2>3
    <3> QED
      BY <2>1, <2>3, <3>1
  <2> QED
    BY <2>2, <2>3
<1> QED
  BY <1>1, <1>2 DEF Serves

\* Removing users keeps the crontabs that others use.
LEMMA EntriesRemoved ==
    ASSUME NEW es, NEW ls, NEW bs, Serves(es, ls)
    PROVE  Serves(EntriesAfterRemove(es, bs), ls \ bs)
<1>0. /\ DOMAIN es = {ScheduleBindings[b].crontab : b \in ls}
      /\ \A c \in DOMAIN es : es[c] = {b \in ls : ScheduleBindings[b].crontab = c}
  BY DEF Serves
<1>1. DOMAIN EntriesAfterRemove(es, bs) = {c \in DOMAIN es : es[c] \ bs # {}}
  BY DEF EntriesAfterRemove
<1>2. ASSUME NEW c \in DOMAIN EntriesAfterRemove(es, bs)
      PROVE  EntriesAfterRemove(es, bs)[c] = {b \in ls \ bs : ScheduleBindings[b].crontab = c}
  <2>1. c \in DOMAIN es /\ EntriesAfterRemove(es, bs)[c] = es[c] \ bs
    BY <1>1 DEF EntriesAfterRemove
  <2> QED
    BY <1>0, <2>1
<1>3. ASSUME NEW b \in ls \ bs PROVE ScheduleBindings[b].crontab \in DOMAIN EntriesAfterRemove(es, bs)
  BY <1>0, <1>1
<1>4. ASSUME NEW c \in DOMAIN EntriesAfterRemove(es, bs)
      PROVE  \E b \in ls \ bs : ScheduleBindings[b].crontab = c
  <2>1. c \in DOMAIN es /\ es[c] \ bs # {}
    BY <1>1
  <2> QED
    BY <1>0, <2>1
<1>5. DOMAIN EntriesAfterRemove(es, bs) = {ScheduleBindings[b].crontab : b \in ls \ bs}
  <2> DEFINE D == DOMAIN EntriesAfterRemove(es, bs)
  <2>1. \A b \in ls \ bs : ScheduleBindings[b].crontab \in D
    BY <1>3
  <2>2. \A c \in D : \E b \in ls \ bs : ScheduleBindings[b].crontab = c
    BY <1>4
  <2> HIDE DEF D
  <2>3. D = {ScheduleBindings[b].crontab : b \in ls \ bs}
    BY <2>1, <2>2
  <2> QED
    BY <2>3 DEF D
<1> QED
  BY <1>2, <1>5 DEF Serves

\* The schedule: links and jobs of bindings that exist, entries for the links and for no others.
LEMMA CronStep ==
    ASSUME IInv, [Next]_vars
    PROVE  CronType' /\ CronServesLinks'
<1> USE DEF IInv, TypeOK
<1>1. CASE UNCHANGED <<links, entries, jobs>>
  BY <1>1 DEF CronType, CronServesLinks
<1>2. ASSUME NEW c \in Crontabs, Fire(c) \/ JobSends(c) PROVE CronType' /\ CronServesLinks'
  <2>1. jobs' \in [Crontabs -> Nat]
    <3>1. jobs[c] \in Nat /\ jobs \in [Crontabs -> Nat]
      BY DEF CronType
    <3>2. CASE Fire(c)
      BY <3>1, <3>2 DEF Fire
    <3>3. CASE JobSends(c)
      BY <3>1, <3>3 DEF JobSends
    <3> QED
      BY <1>2, <3>2, <3>3
  <2>2. UNCHANGED <<links, entries>>
    BY <1>2 DEF Fire, JobSends
  <2> QED
    BY <2>1, <2>2 DEF CronType, CronServesLinks
<1>3. ASSUME NEW q \in DOMAIN worker, EnableScheduleBindings(q) PROVE CronType' /\ CronServesLinks'
  <2> DEFINE bs == {b \in DOMAIN ScheduleBindings : ScheduleBindings[b].hook = Head(queues[q]).hook}
  <2>1. links' = links \cup bs /\ entries' = EntriesWith(entries, bs) /\ jobs' = jobs
    BY <1>3 DEF EnableScheduleBindings
  <2>2. bs \subseteq DOMAIN ScheduleBindings
    OBVIOUS
  <2> HIDE DEF bs
  <2>3. CronType'
    BY <2>1, <2>2 DEF CronType
  <2>4. CronServesLinks'
    <3>1. Serves(entries, links)
      BY DEF CronServesLinks, Serves
    <3>2. Serves(entries', links')
      BY <2>1, <3>1, EntriesAdded
    <3> QED
      BY <3>2 DEF CronServesLinks, Serves
  <2> QED
    BY <2>3, <2>4
<1>4. ASSUME NEW h \in HookNames, DisableScheduleBindings(h) PROVE CronType' /\ CronServesLinks'
  <2> DEFINE bs == {b \in DOMAIN ScheduleBindings : ScheduleBindings[b].hook = h}
  <2>1. links' = links \ bs /\ entries' = EntriesAfterRemove(entries, bs) /\ jobs' = jobs
    BY <1>4 DEF DisableScheduleBindings
  <2> HIDE DEF bs
  <2>2. CronType'
    BY <2>1 DEF CronType
  <2>3. CronServesLinks'
    <3>1. Serves(entries, links)
      BY DEF CronServesLinks, Serves
    <3>2. Serves(entries', links')
      BY <2>1, <3>1, EntriesRemoved
    <3> QED
      BY <3>2 DEF CronServesLinks, Serves
  <2> QED
    BY <2>2, <2>3
<1> QED
  BY <1>1, <1>2, <1>3, <1>4, CronFrame

\* Where the main goroutine goes.
LEMMA Forward ==
    ASSUME MainType, [Next]_vars
    PROVE  \/ step' = step
           \/ Build /\ step' \in 0..5
           \/ StartMain /\ step' = 7
           \/ InitAndStartHookQueues /\ step' = 8
           \/ StartHandler /\ step' = 10
           \/ step \in {5, 8} \cup (10..22) /\ step' = step + 1 /\ UNCHANGED <<queues, worker, handler>>
<1>1. CASE Build
  <2>1. step \in 1..4 /\ step' \in {0, step + 1}
    BY <1>1, StartSteps
  <2> QED
    BY <1>1, <2>1
<1>2. CASE Shutdown
  <2>1. step \in 13..21 /\ step' = step + 1
    BY <1>2, ShutdownSteps
  <2> QED
    BY <1>2, <2>1 DEF Shutdown, queueVars, eventVars
<1>3. CASE StartAPI \/ RunMetrics \/ StartSchedule \/ BeginShutdown
  <2>1. step \in {5, 8} \cup (10..12) /\ step' = step + 1
    BY <1>3, StartSteps
  <2> QED
    BY <1>3, <2>1 DEF StartAPI, RunMetrics, StartSchedule, BeginShutdown, queueVars, eventVars
<1>4. CASE StartMain \/ InitAndStartHookQueues \/ StartHandler
  BY <1>4, StartSteps
<1>5. CASE MainStep
  BY <1>1, <1>2, <1>3, <1>4, <1>5 DEF MainStep
<1> QED
  BY <1>5, MainFrame DEF Signal, EndLoop, Request, Respond, mainVars

\* Queues exist once they have been started.
LEMMA QueuesStay ==
    ASSUME IInv, [Next]_vars
    PROVE  \/ StartMain
           \/ InitAndStartHookQueues /\ DOMAIN queues' = DOMAIN queues \cup HookQueues
           \/ DOMAIN queues' = DOMAIN queues
<1> USE DEF IInv, TypeOK
<1>1. CASE InitAndStartHookQueues
  BY <1>1 DEF InitAndStartHookQueues
<1>2. CASE AddTailTasks
  BY <1>2, AddTailEffect
<1>3. ASSUME NEW q \in DOMAIN worker, WorkerSucceeds(q) \/ TaskFails(q) PROVE DOMAIN queues' = DOMAIN queues
  <2>1. q \in DOMAIN queues
    BY DEF QueuesType
  <2> QED
    BY <1>3, <2>1, WorkerEffect
<1> QED
  BY <1>1, <1>2, <1>3, QueueFrame

\* The loop of the handler runs only after Start has started it.
LEMMA HandlerFrame ==
    ASSUME EventsType, [Next]_vars
    PROVE  \/ StartHandler
           \/ handler'.at = handler.at
           \/ handler.at = "select" /\ handler'.at \in {"tail", "done"}
           \/ handler.at = "tail" /\ handler'.at \in {"select", "tail"}
<1>0. handler.at \in {"off", "select", "tail", "done"} /\ handler = [at |-> handler.at, tasks |-> handler.tasks]
  BY DEF EventsType
<1>1. CASE TakeSchedule \/ TakeKube
  BY <1>1 DEF TakeSchedule, TakeKube, HandlerPanic, HandlerTakes
<1>2. CASE HandlerEnds
  BY <1>2 DEF HandlerEnds
<1>3. CASE AddTailTasks
  <2>1. handler.at = "tail" /\ (handler' = [handler EXCEPT !.at = "select"] \/ handler' = [handler EXCEPT !.tasks = Tail(@)])
    BY <1>3 DEF AddTailTasks
  <2> QED
    BY <1>0, <2>1
<1>4. ASSUME NEW c \in Crontabs, JobSends(c) PROVE handler' = handler
  BY <1>4 DEF JobSends
<1>5. ASSUME NEW b \in DOMAIN KubeBindings, InformerSends(b) PROVE handler' = handler
  BY <1>5 DEF InformerSends
<1>6. ASSUME NEW q \in DOMAIN worker, Replay(q) PROVE handler' = handler
  BY <1>6 DEF Replay
<1> QED
  BY <1>1, <1>2, <1>3, <1>4, <1>5, <1>6, EventsFrame

LEMMA StartInOrderStep ==
    ASSUME IInv, [Next]_vars
    PROVE  StartInOrder'
<1> USE DEF IInv, TypeOK
<1>0. step \in 0..22
  BY AtSteps DEF MainType
<1>1. step' > 7 => HookQueues \subseteq DOMAIN queues'
  <2>1. StartMain => step' = 7
    BY StartSteps
  <2>2. CASE InitAndStartHookQueues /\ DOMAIN queues' = DOMAIN queues \cup HookQueues
    BY <2>2
  <2>3. CASE DOMAIN queues' = DOMAIN queues
    <3>1. step' > 7 /\ ~InitAndStartHookQueues => step > 7
      <4>1. StartHandler => step = 9
        BY StartSteps
      <4> QED
        BY <1>0, <4>1, Forward
    <3>2. InitAndStartHookQueues => HookQueues \subseteq DOMAIN queues'
      BY DEF InitAndStartHookQueues
    <3> QED
      BY <2>3, <3>1, <3>2 DEF StartInOrder
  <2> QED
    BY <2>1, <2>2, <2>3, QueuesStay
<1>2. handler'.at # "off" => step' > 9
  <2>1. StartHandler => step' = 10
    BY StartSteps
  <2>2. CASE ~StartHandler
    <3>1. handler'.at # "off" => handler.at # "off"
      BY <2>2, HandlerFrame
    <3>2. step > 9 => step' > 9
      <4>1. Build => step \in 1..4
        BY StartSteps
      <4>2. (StartMain => step = 6) /\ (InitAndStartHookQueues => step = 7)
        BY StartSteps
      <4> QED
        BY <1>0, <2>1, <4>1, <4>2, Forward
    <3> QED
      BY <3>1, <3>2 DEF StartInOrder
  <2> QED
    BY <2>1, <2>2
<1>3. step' > 6 => Main \in DOMAIN queues'
  <2>1. CASE StartMain
    BY <2>1 DEF StartMain
  <2>2. CASE ~StartMain
    <3>1. step' > 6 => step > 6
      <4>1. (InitAndStartHookQueues => step = 7) /\ (StartHandler => step = 9)
        BY StartSteps
      <4> QED
        BY <1>0, <2>2, <4>1, Forward
    <3> QED
      BY <2>2, <3>1, QueuesStay DEF StartInOrder
  <2> QED
    BY <2>1, <2>2
<1> QED
  BY <1>1, <1>2, <1>3 DEF StartInOrder

LEMMA TasksHaveQueuesStep ==
    ASSUME IInv, [Next]_vars
    PROVE  TasksHaveQueues'
<1> USE DEF IInv, TypeOK
<1>1. strayed' = strayed \/ AddTailTasks
  <2>1. ASSUME NEW q \in DOMAIN worker, WorkerSucceeds(q) \/ TaskFails(q) PROVE strayed' = strayed
    BY <2>1, WorkerFrame
  <2> QED
    BY <2>1 DEF Next, vars, MainStep, HandlerStep, Build, StartAPI, StartMain, InitAndStartHookQueues, RunMetrics,
         StartHandler, StartSchedule, BeginShutdown, Shutdown, Signal, EndLoop, StopCron, Request, Respond, Fire,
         JobSends, KubeEvent, InformerSends, TakeSchedule, TakeKube, HandlerEnds, DisableScheduleBindings, eventVars
<1>2. CASE AddTailTasks
  <2> DEFINE R == [queue : HookQueues, task : Task]
  <2>1. handler.tasks \in Seq(R)
    BY DEF EventsType
  <2>2. \A t \in R : t.queue \in HookQueues
    OBVIOUS
  <2> HIDE DEF R
  <2>3. handler.tasks # <<>> => Head(handler.tasks).queue \in HookQueues
    BY <2>1, <2>2
  <2>4. HookQueues \subseteq DOMAIN queues
    <3>1. step \in 0..22
      BY AtSteps DEF MainType
    <3>2. handler.at # "off"
      BY <1>2 DEF AddTailTasks
    <3> QED
      BY <3>1, <3>2 DEF StartInOrder
  <2> QED
    BY <1>2, <2>3, <2>4 DEF AddTailTasks, TasksHaveQueues
<1> QED
  BY <1>1, <1>2 DEF TasksHaveQueues

\* The scheduler is started by Start and stopped by its helper, once.
LEMMA CronRuns ==
    ASSUME IInv, [Next]_vars
    PROVE  /\ step' <= 10 => cron' = "new"
           /\ stopped' => cron' = "stopped"
           /\ stopped => stopped'
<1> USE DEF IInv, TypeOK
<1>0. step \in 0..22
  BY AtSteps DEF MainType
<1>1. CASE StartSchedule
  <2>1. step = 10 /\ step' = 11 /\ stopped' = stopped
    BY <1>1, StartSteps DEF StartSchedule
  <2>2. ~stopped
    BY <2>1 DEF StoppedInOrder
  <2> QED
    BY <2>1, <2>2
<1>2. CASE StopCron
  <2>1. cron = "run" /\ cron' = "stopped" /\ step' = step
    BY <1>2 DEF StopCron, mainVars
  <2>2. step > 10
    BY <1>0, <2>1 DEF StoppedInOrder
  <2>3. stopped'
    BY <1>2 DEF StopCron
  <2> QED
    BY <1>0, <2>1, <2>2, <2>3
<1>3. CASE UNCHANGED <<cron, stopped>> /\ ~StartSchedule
  <2>1. step' <= 10 => step <= 10
    <3>1. Build => step \in 1..4
      BY StartSteps
    <3>2. (StartMain => step = 6) /\ (InitAndStartHookQueues => step = 7) /\ (StartHandler => step = 9)
      BY StartSteps
    <3> QED
      BY <1>0, <3>1, <3>2, Forward
  <2> QED
    BY <1>3, <2>1 DEF StoppedInOrder
<1>4. ASSUME NEW q \in DOMAIN worker, WorkerSucceeds(q) \/ TaskFails(q) PROVE UNCHANGED <<cron, stopped>>
  BY <1>4, WorkerFrame
<1>5. StartSchedule \/ StopCron \/ UNCHANGED <<cron, stopped>>
  BY <1>4 DEF Next, vars, MainStep, HandlerStep, Build, StartAPI, StartMain, InitAndStartHookQueues, RunMetrics,
         StartHandler, BeginShutdown, Shutdown, Signal, EndLoop, Request, Respond, Fire,
         JobSends, KubeEvent, InformerSends, TakeSchedule, TakeKube, HandlerEnds, AddTailTasks,
         DisableScheduleBindings, cronVars
<1> QED
  BY <1>1, <1>2, <1>3, <1>5

\* What has been stopped stays so.
LEMMA StaysStopped ==
    ASSUME IInv, [Next]_vars
    PROVE  /\ step > 13 /\ handler.at = "done" => handler'.at = "done"
           /\ step > 13 /\ QueuesStopped => QueuesStopped'
           /\ step > 13 /\ wg = 0 => wg' = 0
<1> USE DEF IInv, TypeOK
<1>0. step \in 0..22
  BY AtSteps DEF MainType
<1>1. ASSUME step > 13 PROVE ~StartMain /\ ~InitAndStartHookQueues /\ ~StartHandler /\ ~RunMetrics /\ ~Build
  BY <1>0, <1>1, StartSteps
<1>2. ASSUME step > 13, handler.at = "done" PROVE handler'.at = "done"
  BY <1>1, <1>2, HandlerFrame
<1>3. ASSUME step > 13, QueuesStopped PROVE QueuesStopped'
  <2>1. ASSUME NEW q \in DOMAIN worker, WorkerSucceeds(q) \/ TaskFails(q) PROVE FALSE
    <3>1. q \in DOMAIN queues /\ worker[q] = "stopped"
      BY <1>3 DEF QueuesType, QueuesStopped
    <3> QED
      BY <2>1, <3>1, WorkerEffect
  <2>2. AddTailTasks => worker' = worker
    BY DEF AddTailTasks
  <2>3. worker' = worker
    BY <1>1, <1>3, <2>1, <2>2, QueueFrame
  <2> QED
    BY <1>3, <2>3 DEF QueuesStopped
<1>4. ASSUME step > 13, wg = 0 PROVE wg' = 0
  <2>1. MainStep => wg' = wg
    <3>1. Shutdown => wg' = wg
      BY ShutdownSteps
    <3>2. StartAPI \/ StartSchedule \/ BeginShutdown => wg' = wg
      BY DEF StartAPI, StartSchedule, BeginShutdown
    <3> QED
      BY <1>1, <1>4, <3>1, <3>2 DEF MainStep
  <2>2. ~EndLoop
    BY <1>4 DEF EndLoop
  <2> QED
    BY <1>4, <2>1, <2>2, MainFrame DEF Signal, Request, Respond, mainVars
<1> QED
  BY <1>2, <1>3, <1>4

\* What a step that is not a part of doShutdown does to servers and requests.
LEMMA ServersStay ==
    ASSUME IInv, [Next]_vars
    PROVE  \/ Shutdown /\ requests' = requests
           \/ step' <= 13
           \/ /\ UNCHANGED <<step, late, servers>>
              /\ \A s \in requests' : s \in requests \/ s \in servers
<1> USE DEF IInv, TypeOK
<1>1. CASE MainStep /\ UNCHANGED requests
  <2>1. Build => step' <= 13
    <3>1. Build => step \in 1..4 /\ step' \in {0, step + 1}
      BY StartSteps
    <3> QED
      BY <3>1
  <2>2. BeginShutdown => step' <= 13
    <3>1. BeginShutdown => step \in 11..12 /\ step' = step + 1
      BY StartSteps
    <3> QED
      BY <3>1
  <2>3. StartAPI \/ StartMain \/ InitAndStartHookQueues \/ RunMetrics \/ StartHandler \/ StartSchedule => step' <= 13
    BY StartSteps
  <2> QED
    BY <1>1, <2>1, <2>2, <2>3 DEF MainStep
<1>2. CASE \E s \in servers : Request(s)
  BY <1>2 DEF Request, mainVars
<1>3. CASE \E s \in requests : Respond(s)
  BY <1>3 DEF Respond, mainVars
<1> QED
  BY <1>1, <1>2, <1>3, MainFrame DEF Signal, EndLoop, mainVars

LEMMA StoppedInOrderStep ==
    ASSUME IInv, [Next]_vars
    PROVE  StoppedInOrder'
<1> USE DEF IInv, TypeOK
<1>0. step \in 0..22
  BY AtSteps DEF MainType
<1>1. (step' <= 10 => cron' = "new") /\ (stopped' => cron' = "stopped") /\ (stopped => stopped')
  BY CronRuns
<1>2. SUFFICES /\ ~late' => /\ step' > 13 => stopped'
                            /\ step' > 14 => handler'.at = "done"
                            /\ step' > 16 => QueuesStopped'
                            /\ step' > 21 => wg' = 0
               /\ Closed("admission", 17)' /\ Closed("conversion", 18)' /\ Closed("debug", 19)'
               /\ Closed("api", 20)'
  BY <1>1 DEF StoppedInOrder
<1>3. CASE step' <= 13
  <2>1. step' \in Int
    BY MainTypeStep DEF MainType
  <2> QED
    BY <1>3, <2>1 DEF Closed
<1>4. CASE /\ UNCHANGED <<step, late, servers>>
           /\ \A s \in requests' : s \in requests \/ s \in servers
  <2>1. ~late' => /\ step' > 13 => stopped'
                  /\ step' > 14 => handler'.at = "done"
                  /\ step' > 16 => QueuesStopped'
                  /\ step' > 21 => wg' = 0
    <3>1. ~late => /\ step > 13 => stopped
                   /\ step > 14 => handler.at = "done"
                   /\ step > 16 => QueuesStopped
                   /\ step > 21 => wg = 0
      BY DEF StoppedInOrder
    <3>2. late' = late /\ step' = step
      BY <1>4
    <3> QED
      BY <1>0, <1>1, <3>1, <3>2, StaysStopped
  <2>2. ASSUME NEW s, NEW place \in Nat, Closed(s, place) PROVE Closed(s, place)'
    BY <1>4, <2>2 DEF Closed
  <2> QED
    BY <2>1, <2>2 DEF StoppedInOrder
<1>5. CASE Shutdown /\ requests' = requests
  <2>0. /\ step \in 13..21 /\ step' = step + 1 /\ servers' \subseteq servers
        /\ ~late' => ~late
    BY <1>5, ShutdownSteps
  <2>1. ~late' => /\ step' > 13 => stopped'
                  /\ step' > 14 => handler'.at = "done"
                  /\ step' > 16 => QueuesStopped'
                  /\ step' > 21 => wg' = 0
    <3>1. ~late' => /\ step = 13 => stopped
                    /\ step = 14 => handler.at = "done"
                    /\ step = 16 => QueuesStopped
                    /\ step = 21 => wg = 0
      BY <1>5, ShutdownSteps
    <3>2. ~late => /\ step > 13 => stopped
                   /\ step > 14 => handler.at = "done"
                   /\ step > 16 => QueuesStopped
      BY DEF StoppedInOrder
    <3> QED
      BY <1>1, <2>0, <3>1, <3>2, StaysStopped
  <2>2. ASSUME NEW s, NEW place \in Nat, Closed(s, place),
               step = place => s \notin servers' /\ (~late' => s \notin requests)
        PROVE  Closed(s, place)'
    BY <1>5, <2>0, <2>2 DEF Closed
  <2>3. /\ step = 17 => "admission" \notin servers' /\ (~late' => "admission" \notin requests)
        /\ step = 18 => "conversion" \notin servers' /\ (~late' => "conversion" \notin requests)
        /\ step = 19 => "debug" \notin servers' /\ (~late' => "debug" \notin requests)
        /\ step = 20 => "api" \notin servers' /\ (~late' => "api" \notin requests)
    BY <1>5, ShutdownSteps
  <2> QED
    BY <2>1, <2>2, <2>3 DEF StoppedInOrder
<1> QED
  BY <1>3, <1>4, <1>5, ServersStay

-----------------------------------------------------------------------------
(* The order of the startup.                                               *)

\* Hooks that have succeeded have done so for good.
LEMMA DoneGrows ==
    ASSUME [Next]_vars
    PROVE  done \subseteq done'
<1>1. ASSUME NEW q \in DOMAIN worker, WorkerSucceeds(q) \/ TaskFails(q) PROVE done \subseteq done'
  BY <1>1 DEF WorkerSucceeds, TaskFails, Wait, EnableKubernetesBindings, EnableScheduleBindings, RunHook,
         RunSynchronization, Replay
<1> QED
  BY <1>1 DEF Next, vars, MainStep, HandlerStep, Build, StartAPI, StartMain, InitAndStartHookQueues, RunMetrics,
         StartHandler, StartSchedule, BeginShutdown, Shutdown, Signal, EndLoop, StopCron, Request, Respond, Fire,
         JobSends, KubeEvent, InformerSends, TakeSchedule, TakeKube, HandlerEnds, AddTailTasks,
         DisableScheduleBindings, queueVars

\* Until all have succeeded, the head of the main queue is the first that has not.
LEMMA SomeLeft ==
    ASSUME ~AllStarted, QueuesType, Main \in DOMAIN queues, NEW k \in 0..Len(StartupHooks), StartupLeft(k)
    PROVE  /\ k < Len(StartupHooks) /\ queues[Main] # <<>>
           /\ Head(queues[Main]).kind = "OnStartup" /\ Head(queues[Main]).hook = StartupHooks[k + 1]
<1>1. Len(StartupHooks) \in Nat /\ DOMAIN StartupHooks = 1..Len(StartupHooks)
  BY BindingsAssumption DEF IsList
<1>2. k < Len(StartupHooks)
  BY <1>1 DEF AllStarted, StartupLeft
<1>3. queues[Main] \in Seq(Task)
  BY DEF QueuesType
<1>4. Len(queues[Main]) >= 1
  BY <1>1, <1>2, <1>3 DEF StartupLeft
<1>5. queues[Main][1].kind = "OnStartup" /\ queues[Main][1].hook = StartupHooks[k + 1]
  BY <1>1, <1>2 DEF StartupLeft
<1>6. queues[Main] # <<>> /\ Head(queues[Main]) = queues[Main][1]
  BY <1>3, <1>4
<1> QED
  BY <1>2, <1>5, <1>6

\* Until all have succeeded no other worker has a task.
LEMMA OthersIdle ==
    ASSUME IInv, ~AllStarted, NEW q \in DOMAIN queues, WorkerSucceeds(q) \/ TaskFails(q),
           queues' # queues \/ done' # done \/ monitor' # monitor \/ kubeCh' # kubeCh \/ entries' # entries
    PROVE  q = Main /\ RunHook(Main)
<1> USE DEF IInv, TypeOK
<1>1. ~Wait(q) /\ ~TaskFails(q)
  BY DEF Wait, TaskFails, eventVars, kubeVars, cronVars
<1>2. worker[q] \in {"run", "replay"}
  BY <1>1 DEF WorkerSucceeds, EnableKubernetesBindings, EnableScheduleBindings, RunHook, RunSynchronization, Replay
<1>3. queues[q] # <<>>
  BY <1>2 DEF WorkersHaveTasks
<1>4. q = Main
  BY <1>3 DEF StartupInOrder
<1>5. PICK k \in 0..Len(StartupHooks) : StartupLeft(k)
  BY <1>4 DEF StartupInOrder
<1>6. Head(queues[q]).kind = "OnStartup"
  BY <1>4, <1>5, SomeLeft
<1>7. worker[q] # "replay"
  BY <1>6 DEF WorkersHaveTasks
<1> QED
  BY <1>1, <1>4, <1>6, <1>7 DEF WorkerSucceeds, EnableKubernetesBindings, EnableScheduleBindings,
     RunSynchronization, Replay

\* A step before all have succeeded changes the main queue, or nothing the order depends on.
LEMMA OnlyStartupMoves ==
    ASSUME IInv, [Next]_vars, ~AllStarted
    PROVE  /\ \/ StartMain \/ InitAndStartHookQueues
              \/ Main \in DOMAIN queues /\ RunHook(Main)
              \/ UNCHANGED <<queues, done>>
           /\ handler'.tasks = <<>> /\ UNCHANGED <<kubeCh, scheduleCh, informer, monitor, jobs>>
           /\ DOMAIN entries' = {}
<1> USE DEF IInv, TypeOK
<1>0. /\ handler.tasks = <<>> /\ kubeCh = <<>> /\ scheduleCh = <<>>
      /\ informer = {} /\ \A b \in DOMAIN KubeBindings : monitor[b].at = "none"
      /\ DOMAIN entries = {} /\ \A c \in Crontabs : jobs[c] = 0
  BY DEF StartupInOrder
<1>1. ASSUME NEW q \in DOMAIN worker, WorkerSucceeds(q) \/ TaskFails(q)
      PROVE  /\ (Main \in DOMAIN queues /\ RunHook(Main)) \/ UNCHANGED <<queues, done>>
             /\ UNCHANGED <<handler, kubeCh, scheduleCh, informer, monitor, jobs, entries>>
  <2>1. q \in DOMAIN queues
    BY DEF QueuesType
  <2>2. RunHook(Main) => UNCHANGED <<kubeCh, monitor, entries>>
    BY DEF RunHook, eventVars, kubeVars, cronVars
  <2>3. UNCHANGED <<handler, scheduleCh, informer, jobs>>
    BY <1>1, WorkerFrame
  <2> QED
    BY <1>1, <2>1, <2>2, <2>3, OthersIdle
<1>2. ASSUME NEW c \in Crontabs, Fire(c) \/ JobSends(c) PROVE FALSE
  BY <1>0, <1>2 DEF Fire, JobSends
<1>3. ASSUME NEW b \in DOMAIN KubeBindings, KubeEvent(b) \/ InformerSends(b) PROVE FALSE
  BY <1>0, <1>3 DEF KubeEvent, InformerSends
<1>4. ~TakeSchedule /\ ~TakeKube
  BY <1>0 DEF TakeSchedule, TakeKube
<1>5. HandlerEnds => /\ handler'.tasks = <<>> /\ UNCHANGED <<queues, done, kubeCh, scheduleCh, informer, monitor, jobs>>
                     /\ UNCHANGED entries
  BY DEF HandlerEnds, queueVars, kubeVars, cronVars
<1>6. ASSUME AddTailTasks
      PROVE  /\ handler'.tasks = <<>> /\ UNCHANGED <<queues, done, kubeCh, scheduleCh, informer, monitor, jobs>>
             /\ UNCHANGED entries
  <2>1. handler' = [handler EXCEPT !.at = "select"] /\ queues' = queues
    BY <1>0, <1>6 DEF AddTailTasks
  <2>2. handler'.tasks = handler.tasks
    BY <2>1 DEF EventsType
  <2> QED
    BY <1>0, <1>6, <2>1, <2>2 DEF AddTailTasks, kubeVars, cronVars
<1>7. ASSUME NEW h \in HookNames, DisableScheduleBindings(h)
      PROVE  /\ UNCHANGED <<handler, queues, done, kubeCh, scheduleCh, informer, monitor, jobs>>
             /\ DOMAIN entries' = {}
  <2>1. DOMAIN entries' \subseteq DOMAIN entries
    BY <1>7 DEF DisableScheduleBindings, EntriesAfterRemove
  <2> QED
    BY <1>0, <1>7, <2>1 DEF DisableScheduleBindings, queueVars, eventVars, kubeVars
<1>8. ASSUME StartHandler
      PROVE  /\ handler'.tasks = <<>> /\ UNCHANGED <<queues, done, kubeCh, scheduleCh, informer, monitor, jobs>>
             /\ UNCHANGED entries
  <2>1. handler'.tasks = handler.tasks
    BY <1>8 DEF StartHandler, EventsType
  <2> QED
    BY <1>0, <1>8, <2>1 DEF StartHandler, queueVars, kubeVars, cronVars
<1>9. ASSUME \/ UNCHANGED vars \/ Build \/ StartAPI \/ RunMetrics \/ StartSchedule \/ BeginShutdown \/ Shutdown
             \/ Signal \/ EndLoop \/ StopCron \/ (\E s \in servers : Request(s)) \/ (\E s \in requests : Respond(s))
      PROVE  UNCHANGED <<handler, queues, done, kubeCh, scheduleCh, informer, monitor, jobs, entries>>
  BY <1>9 DEF vars, Build, StartAPI, RunMetrics, StartSchedule, BeginShutdown, Shutdown, Signal, EndLoop, StopCron,
         Request, Respond, queueVars, eventVars, kubeVars, cronVars
<1>10. ASSUME StartMain \/ InitAndStartHookQueues
       PROVE  UNCHANGED <<handler, kubeCh, scheduleCh, informer, monitor, jobs, entries>>
  BY <1>10 DEF StartMain, InitAndStartHookQueues, eventVars, kubeVars, cronVars
<1>11. \/ StartMain \/ InitAndStartHookQueues
       \/ UNCHANGED vars \/ Build \/ StartAPI \/ RunMetrics \/ StartSchedule \/ BeginShutdown \/ Shutdown
       \/ Signal \/ EndLoop \/ StopCron \/ (\E s \in servers : Request(s)) \/ (\E s \in requests : Respond(s))
       \/ StartHandler \/ HandlerEnds \/ AddTailTasks
       \/ \E q \in DOMAIN worker : WorkerSucceeds(q) \/ TaskFails(q)
       \/ \E h \in HookNames : DisableScheduleBindings(h)
  BY <1>2, <1>3, <1>4 DEF Next, MainStep, HandlerStep
<1> QED
  BY <1>0, <1>1, <1>5, <1>6, <1>7, <1>8, <1>9, <1>10, <1>11

\* When the first hook that is left succeeds, the others are left.
LEMMA OneLess ==
    ASSUME NEW T, NEW m \in Seq(T), NEW n \in Nat, NEW k \in Nat, k < n, Len(m) >= n - k,
           \A i \in 1..(n - k) : m[i].kind = "OnStartup" /\ m[i].hook = StartupHooks[k + i]
    PROVE  /\ Len(Tail(m)) >= n - (k + 1)
           /\ \A i \in 1..(n - (k + 1)) : Tail(m)[i].kind = "OnStartup"
                                          /\ Tail(m)[i].hook = StartupHooks[(k + 1) + i]
<1>1. Len(m) \in Nat /\ Len(m) >= 1
  OBVIOUS
<1>2. Len(Tail(m)) = Len(m) - 1 /\ \A i \in 1..(Len(m) - 1) : Tail(m)[i] = m[i + 1]
  BY <1>1
<1> DEFINE u == Tail(m)
<1> HIDE DEF u
<1>3. Len(u) = Len(m) - 1 /\ \A i \in 1..(Len(m) - 1) : u[i] = m[i + 1]
  BY <1>2 DEF u
<1>4. ASSUME NEW i \in 1..(n - (k + 1))
      PROVE  u[i].kind = "OnStartup" /\ u[i].hook = StartupHooks[(k + 1) + i]
  <2>1. i \in 1..(Len(m) - 1) /\ i + 1 \in 1..(n - k) /\ k + (i + 1) = (k + 1) + i
    BY <1>1
  <2>2. u[i] = m[i + 1]
    BY <1>3, <2>1
  <2>3. m[i + 1].kind = "OnStartup" /\ m[i + 1].hook = StartupHooks[k + (i + 1)]
    BY <2>1
  <2> QED
    BY <2>1, <2>2, <2>3
<1>5. Len(u) >= n - (k + 1)
  BY <1>1, <1>3
<1> QED
  BY <1>4, <1>5 DEF u

LEMMA StartupInOrderStep ==
    ASSUME IInv, [Next]_vars
    PROVE  StartupInOrder'
<1> USE DEF IInv, TypeOK
<1> DEFINE N == Len(StartupHooks)
<1>0. N \in Nat /\ DOMAIN StartupHooks = 1..N
  BY BindingsAssumption DEF IsList
<1>1. QueuesType'
  BY QueuesStep
<1>2. CASE AllStarted'
  <2>1. Main \in DOMAIN queues' => StartupLeft(N)'
    <3>1. Main \in DOMAIN queues' => Len(queues'[Main]) \in Nat
      BY <1>1 DEF QueuesType
    <3> QED
      BY <1>0, <1>2, <3>1 DEF AllStarted, StartupLeft
  <2> QED
    BY <1>0, <1>2, <2>1 DEF StartupInOrder
<1>3. CASE ~AllStarted'
  <2>0. ~AllStarted
    BY <1>3, DoneGrows DEF AllStarted
  <2>1. /\ \/ StartMain \/ InitAndStartHookQueues
           \/ Main \in DOMAIN queues /\ RunHook(Main)
           \/ UNCHANGED <<queues, done>>
        /\ handler'.tasks = <<>> /\ UNCHANGED <<kubeCh, scheduleCh, informer, monitor, jobs>>
        /\ DOMAIN entries' = {}
    BY <2>0, OnlyStartupMoves
  <2>2. /\ kubeCh = <<>> /\ scheduleCh = <<>>
        /\ informer = {} /\ \A b \in DOMAIN KubeBindings : monitor[b].at = "none"
        /\ \A c \in Crontabs : jobs[c] = 0
        /\ \A q \in DOMAIN queues \ {Main} : queues[q] = <<>>
    BY <2>0 DEF StartupInOrder
  <2>3. SUFFICES /\ Main \in DOMAIN queues' => \E k \in 0..N : StartupLeft(k)'
                 /\ \A q \in DOMAIN queues' \ {Main} : queues'[q] = <<>>
    BY <2>1, <2>2, <2>3 DEF StartupInOrder
  <2>4. CASE StartMain
    <3>1. DOMAIN queues' = {Main} /\ queues'[Main] \in BootstrapMainQueue
      BY <2>4 DEF StartMain
    <3> DEFINE m == queues'[Main]
    <3>2. Len(m) >= N /\ \A i \in 1..N : m[i] = OnStartup(StartupHooks[i])
      BY <3>1, BootstrapType
    <3> HIDE DEF m
    <3>3. \A i \in 1..(N - 0) : m[i].kind = "OnStartup" /\ m[i].hook = StartupHooks[0 + i]
      <4>1. \A h : OnStartup(h).kind = "OnStartup" /\ OnStartup(h).hook = h
        BY DEF OnStartup
      <4>2. \A i \in 1..(N - 0) : i \in 1..N /\ 0 + i = i
        BY <1>0
      <4> QED
        BY <3>2, <4>1, <4>2
    <3>4. StartupLeft(0)'
      BY <1>0, <3>2, <3>3 DEF StartupLeft, m
    <3> QED
      BY <1>0, <3>1, <3>4
  <2>5. CASE InitAndStartHookQueues
    <3>1. step = 7
      BY <2>5, StartSteps
    <3>2. Main \in DOMAIN queues
      BY <3>1 DEF StartInOrder
    <3>3. queues' = [q \in DOMAIN queues \cup HookQueues |-> IF q \in DOMAIN queues THEN queues[q] ELSE <<>>]
          /\ done' = done
      BY <2>5 DEF InitAndStartHookQueues
    <3>4. queues'[Main] = queues[Main]
      BY <3>2, <3>3
    <3>5. PICK k \in 0..N : StartupLeft(k)
      BY <3>2 DEF StartupInOrder
    <3>6. StartupLeft(k)'
      BY <3>3, <3>4, <3>5 DEF StartupLeft
    <3> QED
      BY <2>2, <3>3, <3>6
  <2>6. CASE UNCHANGED <<queues, done>>
    <3>1. ASSUME Main \in DOMAIN queues' PROVE \E k \in 0..N : StartupLeft(k)'
      <4>1. PICK k \in 0..N : StartupLeft(k)
        BY <2>6, <3>1 DEF StartupInOrder
      <4>2. StartupLeft(k)'
        BY <2>6, <4>1 DEF StartupLeft
      <4> QED
        BY <4>2
    <3> QED
      BY <2>2, <2>6, <3>1
  <2>7. CASE Main \in DOMAIN queues /\ RunHook(Main)
    <3>0. worker[Main] = "run" /\ ApplyResult(Main)
      BY <2>7 DEF RunHook
    <3>1. Main \in DOMAIN queues /\ queues[Main] # <<>>
      BY <2>7, <3>0 DEF WorkersHaveTasks
    <3>2. PICK k \in 0..N : StartupLeft(k)
      BY <3>1 DEF StartupInOrder
    <3>3. k < N /\ Head(queues[Main]).kind = "OnStartup" /\ Head(queues[Main]).hook = StartupHooks[k + 1]
      BY <2>0, <3>1, <3>2, SomeLeft
    <3>4. done' = done \cup {StartupHooks[k + 1]}
      BY <2>7, <3>3 DEF RunHook
    <3>5. /\ DOMAIN queues' = DOMAIN queues
          /\ \A p \in DOMAIN queues \ {Main} : queues'[p] = queues[p]
          /\ \/ queues' = queues
             \/ \E ts \in HeadTasks(Head(queues[Main])) : queues'[Main] = ts \o Tail(queues[Main])
      BY <3>0, <3>1, Applied
    <3>6. CASE queues' = queues
      <4>1. StartupLeft(k)'
        BY <3>2, <3>4, <3>6 DEF StartupLeft
      <4> QED
        BY <2>2, <3>6, <4>1
    <3>7. CASE \E ts \in HeadTasks(Head(queues[Main])) : queues'[Main] = ts \o Tail(queues[Main])
      <4> DEFINE m == queues[Main]
      <4>1. m \in Seq(Task)
        BY <3>1 DEF QueuesType
      <4>2. queues'[Main] = Tail(m)
        <5>1. PICK ts \in HeadTasks(Head(m)) : queues'[Main] = ts \o Tail(m)
          BY <3>7
        <5>2. ts = <<>>
          BY <3>3, HeadTasksType
        <5>3. Tail(m) \in Seq(Task)
          BY <3>1, <4>1
        <5> HIDE DEF m
        <5> QED
          BY <5>1, <5>2, <5>3
      <4>3. /\ Len(m) >= N - k
            /\ \A i \in 1..(N - k) : m[i].kind = "OnStartup" /\ m[i].hook = StartupHooks[k + i]
            /\ \A i \in 1..k : StartupHooks[i] \in done
        BY <3>2 DEF StartupLeft
      <4> HIDE DEF m, N
      <4>4. /\ Len(Tail(m)) >= N - (k + 1)
            /\ \A i \in 1..(N - (k + 1)) : Tail(m)[i].kind = "OnStartup"
                                           /\ Tail(m)[i].hook = StartupHooks[(k + 1) + i]
        BY <1>0, <3>3, <4>1, <4>3, OneLess
      <4>5. \A i \in 1..(k + 1) : StartupHooks[i] \in done'
        BY <1>0, <3>4, <4>3
      <4>6. k + 1 \in 0..N
        BY <1>0, <3>3
      <4>7. StartupLeft(k + 1)'
        BY <4>2, <4>4, <4>5 DEF StartupLeft, N
      <4> QED
        BY <2>2, <3>5, <4>6, <4>7
    <3> QED
      BY <3>5, <3>6, <3>7
  <2> QED
    BY <2>1, <2>4, <2>5, <2>6, <2>7
<1> QED
  BY <1>2, <1>3

-----------------------------------------------------------------------------
(* The theorems.                                                           *)

LEMMA InitInv ==
    ASSUME Init
    PROVE  IInv
<1>0. step = 1 /\ Len(Program) = 22
  BY Places DEF Init
<1>1. MainType
  <2>1. cancelled \in BOOLEAN /\ late \in BOOLEAN
    BY DEF Init
  <2>2. step \in 0..22 /\ wg \in 0..2 /\ servers = {} /\ requests = {}
    BY <1>0 DEF Init
  <2> QED
    BY <1>0, <2>1, <2>2 DEF MainType
<1>2. QueuesType /\ WorkersHaveTasks
  BY DEF Init, QueuesType, WorkersHaveTasks
<1>3. EventsType
  <2> DEFINE R == [queue : HookQueues, task : Task]
  <2>1. <<>> \in Seq(R) /\ <<>> \in Seq(DOMAIN KubeBindings) /\ <<>> \in Seq(Crontabs)
    OBVIOUS
  <2> HIDE DEF R
  <2>2. /\ handler \in [at : {"off", "select", "tail", "done"}, tasks : Seq(R)]
        /\ kubeCh \in Seq(DOMAIN KubeBindings) /\ scheduleCh \in Seq(Crontabs)
    BY <2>1 DEF Init
  <2> QED
    BY <2>2 DEF EventsType, R
<1>4. KubeType /\ CronType
  <2>1. [at |-> "none", buf |-> 0] \in [at : {"none", "buffers", "enabled"}, buf : Nat]
    OBVIOUS
  <2>2. monitor = [b \in DOMAIN KubeBindings |-> [at |-> "none", buf |-> 0]] /\ informer = {}
    BY DEF Init
  <2>3. KubeType
    BY <2>1, <2>2 DEF KubeType
  <2>4. CronType
    BY DEF Init, CronType
  <2> QED
    BY <2>3, <2>4
<1>5. StartInOrder /\ TasksHaveQueues
  BY <1>0 DEF Init, StartInOrder, TasksHaveQueues
<1>6. StartupInOrder
  <2>1. DOMAIN queues = {} /\ DOMAIN entries = {} /\ handler.tasks = <<>>
    BY DEF Init
  <2>2. \A b \in DOMAIN KubeBindings : monitor[b].at = "none"
    BY DEF Init
  <2>3. \A c \in Crontabs : jobs[c] = 0
    BY DEF Init
  <2> QED
    BY <2>1, <2>2, <2>3 DEF Init, StartupInOrder
<1>7. StoppedInOrder
  BY <1>0 DEF Init, StoppedInOrder, Closed
<1>8. CronServesLinks
  <2>1. DOMAIN entries = {} /\ links = {}
    BY DEF Init
  <2> QED
    BY <2>1 DEF CronServesLinks
<1> QED
  BY <1>1, <1>2, <1>3, <1>4, <1>5, <1>6, <1>7, <1>8 DEF IInv, TypeOK

\* The invariant holds of every behaviour of the operator.
THEOREM OperatorInvariant == Spec => []IInv
<1>1. Init => IInv
  BY InitInv
<1>2. IInv /\ [Next]_vars => IInv'
  <2> SUFFICES ASSUME IInv, [Next]_vars PROVE IInv'
    OBVIOUS
  <2>1. TypeOK'
    BY MainTypeStep, QueuesStep, EventsStep, KubeStep, CronStep DEF TypeOK
  <2>2. WorkersHaveTasks' /\ CronServesLinks'
    BY QueuesStep, CronStep
  <2>3. StartInOrder' /\ TasksHaveQueues'
    BY StartInOrderStep, TasksHaveQueuesStep
  <2>4. StartupInOrder' /\ StoppedInOrder'
    BY StartupInOrderStep, StoppedInOrderStep
  <2> QED
    BY <2>1, <2>2, <2>3, <2>4 DEF IInv
<1> QED
  BY <1>1, <1>2, PTL DEF Spec

\* bootstrapMainQueue puts the runs of onStartup first and nothing produces another task before
\* they have succeeded: no hook runs for a binding earlier, in no queue.
THEOREM StartupComesFirst == Spec => []StartupFirst
<1>1. IInv => StartupFirst
  <2> SUFFICES ASSUME IInv, NEW q \in DOMAIN worker, worker[q] = "run", Head(queues[q]).kind # "OnStartup",
                      ~AllStarted
               PROVE  FALSE
    BY DEF StartupFirst, AllStarted
  <2> USE DEF IInv, TypeOK
  <2>1. q \in DOMAIN queues
    BY DEF QueuesType
  <2>2. queues[q] # <<>>
    BY <2>1 DEF WorkersHaveTasks
  <2>3. q = Main
    BY <2>1, <2>2 DEF StartupInOrder
  <2>4. PICK k \in 0..Len(StartupHooks) : StartupLeft(k)
    BY <2>1, <2>3 DEF StartupInOrder
  <2> QED
    BY <2>1, <2>3, <2>4, SomeLeft
<1> QED
  BY <1>1, OperatorInvariant, PTL

\* AddTailTasks of ManagerEventsHandler finds the queue of every task: Start starts the queues
\* of hooks before the handler.
THEOREM QueuesComeFirst == Spec => []TasksHaveQueues
<1>1. IInv => TasksHaveQueues
  BY DEF IInv
<1> QED
  BY <1>1, OperatorInvariant, PTL

\* Entries of the schedule manager are those of the links that hooks have enabled and not
\* disabled, with exactly their users, after any sequence of Add and Remove.
THEOREM CronFollowsLinks == Spec => []CronServesLinks
<1>1. IInv => CronServesLinks
  BY DEF IInv
<1> QED
  BY <1>1, OperatorInvariant, PTL

\* A Shutdown that returns in time has ended workers, handler, servers, requests, metric loops
\* and cron, in whatever state the signal found the operator.
THEOREM ShutdownLeavesSenders == Spec => []OnlySendersRemain
<1>1. IInv => OnlySendersRemain
  <2> SUFFICES ASSUME IInv, at = "returned", ~late
               PROVE  /\ \A q \in DOMAIN worker : worker[q] = "stopped"
                      /\ handler.at = "done" /\ wg = 0 /\ servers = {} /\ requests = {} /\ cron = "stopped"
    BY DEF OnlySendersRemain
  <2> USE DEF IInv, TypeOK
  <2>1. step = 22
    BY AtSteps DEF MainType
  <2>2. stopped /\ handler.at = "done" /\ QueuesStopped /\ wg = 0 /\ (stopped => cron = "stopped")
    BY <2>1 DEF StoppedInOrder
  <2>3. /\ "admission" \notin servers /\ "admission" \notin requests
        /\ "conversion" \notin servers /\ "conversion" \notin requests
        /\ "debug" \notin servers /\ "api" \notin servers
    BY <2>1 DEF StoppedInOrder, Closed
  <2>4. servers = {} /\ requests = {}
    BY <2>3, WebhooksAssumption DEF MainType
  <2> QED
    BY <2>2, <2>4 DEF QueuesStopped
<1> QED
  BY <1>1, OperatorInvariant, PTL
=============================================================================
