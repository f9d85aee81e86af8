--------------------------- MODULE HookRun_proofs ---------------------------
(***************************************************************************)
(* Proofs about HookRun, for any workers, pids, outputs and objects and    *)
(* any bounds: files of runs that are over are removed, the reaper spares  *)
(* the children that are waited for, results are published when all        *)
(* operations have succeeded, and the writes of others survive.            *)
(***************************************************************************)
EXTENDS HookRun, TLAPS

ObjectState == [state : {"absent", "present", "deleting"}, version : Nat, marks : SUBSET (Nat \X Nat)]

\* What a run remembers at each point of its way.
Prepared == [at : {"start"}, id : 1..MaxRuns, out : Output]
Launched == [at : {"wait", "unregister"}, id : 1..MaxRuns, out : Output, pid : Pids]
Operating == [at : {"operation", "poll"}, id : 1..MaxRuns, out : Output, op : Nat, failed : BOOLEAN]
Getting == [at : {"get"}, id : 1..MaxRuns, out : Output, op : Nat, failed : BOOLEAN, step : Nat]
Updating == [at : {"update"}, id : 1..MaxRuns, out : Output, op : Nat, failed : BOOLEAN, step : Nat,
             seen : ObjectState]

TypeOK ==
    /\ run \in [Workers -> {Idle} \cup Prepared \cup Launched \cup Operating \cup Getting \cup Updating]
    /\ files \in SUBSET (Nat \X {"context", "metrics", "admission", "conversion", "patch"})
    /\ process \in [Pids -> {"none", "running", "zombie"}]
    /\ object \in [Objects -> ObjectState]
    /\ log \in [1..MaxRuns -> Seq(Nat)]
    /\ runs \in 0..MaxRuns

Busy(w) == run[w] # Idle
InOperations(w) == run[w].at \in {"operation", "poll", "get", "update"}

\* Runs under way are different ones, and were begun.
RunsDiffer ==
    /\ \A w \in Workers : Busy(w) => run[w].id <= runs
    /\ \A v, w \in Workers : Busy(v) /\ Busy(w) /\ run[v].id = run[w].id => v = w

\* A child that is not overtaken is in the kernel's table and in the registry, and nobody else
\* has its pid in hand.
ChildrenKnown ==
    \A w \in Workers : At(w, "wait") /\ w \notin overtaken =>
        /\ process[run[w].pid] # "none"
        /\ run[w].pid \in active
        /\ \A v \in Workers \ {w} : run[v].at \in {"wait", "unregister"} => run[v].pid # run[w].pid

\* The operation under way is one of the file, unless all are done; get and update belong to
\* filters and to CreateOrUpdate.
OperationsFit ==
    \A w \in Workers : InOperations(w) =>
        /\ run[w].op \in 1..(Len(run[w].out.ops) + 1)
        /\ run[w].at # "operation" => run[w].op <= Len(run[w].out.ops)
        /\ run[w].at \in {"get", "update"} => Current(w).kind = "filter" \/ Current(w).updateIfExists

\* Operations are logged one after the other as long as none has failed.
LogFollows ==
    /\ \A i \in 1..MaxRuns : i > runs => log[i] = <<>>
    /\ \A w \in Workers : Busy(w) =>
          IF InOperations(w)
          THEN ~run[w].failed => log[run[w].id] = [i \in 1..(run[w].op - 1) |-> i]
          ELSE log[run[w].id] = <<>>

\* What an update has seen is not newer than the object, and of one version there is one state.
SeenIsPast ==
    \A w \in Workers : At(w, "update") =>
        LET o == object[Current(w).object] IN
        /\ run[w].seen.version <= o.version
        /\ run[w].seen.version = o.version => run[w].seen.marks = o.marks

IInv == TypeOK /\ FilesRemoved /\ RunsDiffer /\ ChildrenKnown /\ OperationsFit /\ LogFollows /\ SeenIsPast

USE OutputsAssumption, HookRunBoundsAssumption

-----------------------------------------------------------------------------
(* Types.                                                                  *)

\* A run at an operation has the fields of one, wherever it is in it.
LEMMA OperationFields ==
    ASSUME TypeOK, NEW w \in Workers, InOperations(w)
    PROVE  /\ run[w].id \in 1..MaxRuns /\ run[w].out \in Output
           /\ run[w].op \in Nat /\ run[w].failed \in BOOLEAN
           /\ At(w, "get") => run[w].step \in Nat
           /\ At(w, "update") => run[w].step \in Nat /\ run[w].seen \in ObjectState
<1>1. run[w] \in {Idle} \cup Prepared \cup Launched \cup Operating \cup Getting \cup Updating
  BY DEF TypeOK
<1>2. CASE run[w] \in {Idle} \cup Prepared \cup Launched
  BY <1>2 DEF InOperations, Idle, Prepared, Launched
<1>3. CASE run[w] \in Operating
  BY <1>3 DEF Operating, At
<1>4. CASE run[w] \in Getting
  BY <1>4 DEF Getting, At
<1>5. CASE run[w] \in Updating
  BY <1>5 DEF Updating, At
<1> QED
  BY <1>1, <1>2, <1>3, <1>4, <1>5

\* An operation's end keeps types: the worker is at the next operation.
LEMMA OperationDoneType ==
    ASSUME TypeOK, NEW w \in Workers, InOperations(w), NEW ok \in BOOLEAN, OperationDone(w, ok)
    PROVE  /\ run' = [run EXCEPT ![w] = run'[w]]
           /\ run'[w] \in Operating
           /\ run'[w].at = "operation" /\ run'[w].id = run[w].id /\ run'[w].out = run[w].out
           /\ run'[w].op = run[w].op + 1 /\ run'[w].failed = (run[w].failed \/ ~ok)
           /\ log' \in [1..MaxRuns -> Seq(Nat)]
<1>1. /\ run[w].id \in 1..MaxRuns /\ run[w].out \in Output
      /\ run[w].op \in Nat /\ run[w].failed \in BOOLEAN
  BY OperationFields
<1>2. run'[w] = [at |-> "operation", id |-> run[w].id, out |-> run[w].out, op |-> run[w].op + 1,
                 failed |-> run[w].failed \/ ~ok]
  BY DEF OperationDone, TypeOK
<1>3. run' = [run EXCEPT ![w] = run'[w]]
  BY DEF OperationDone, TypeOK
<1>4. Append(log[run[w].id], run[w].op) \in Seq(Nat)
  BY <1>1 DEF TypeOK
<1>5. log' \in [1..MaxRuns -> Seq(Nat)]
  BY <1>1, <1>4 DEF OperationDone, TypeOK
<1> QED
  BY <1>1, <1>2, <1>3, <1>5 DEF Operating

\* A run at an operation is in one of three types.
LEMMA OperationStates ==
    ASSUME TypeOK, NEW w \in Workers
    PROVE  /\ At(w, "start") => run[w] \in Prepared
           /\ run[w].at \in {"wait", "unregister"} => run[w] \in Launched
           /\ run[w].at \in {"operation", "poll"} => run[w] \in Operating
           /\ At(w, "get") => run[w] \in Getting
           /\ At(w, "update") => run[w] \in Updating
           /\ At(w, "idle") <=> run[w] = Idle
<1>1. run[w] \in {Idle} \cup Prepared \cup Launched \cup Operating \cup Getting \cup Updating
  BY DEF TypeOK
<1>2. CASE run[w] = Idle
  BY <1>2 DEF Idle, At
<1>3. CASE run[w] \in Prepared
  BY <1>3 DEF Prepared, At, Idle
<1>4. CASE run[w] \in Launched
  BY <1>4 DEF Launched, At, Idle
<1>5. CASE run[w] \in Operating
  BY <1>5 DEF Operating, At, Idle
<1>6. CASE run[w] \in Getting
  BY <1>6 DEF Getting, At, Idle
<1>7. CASE run[w] \in Updating
  BY <1>7 DEF Updating, At, Idle
<1> QED
  BY <1>1, <1>2, <1>3, <1>4, <1>5, <1>6, <1>7

\* An operation of the file is about one of the objects.
LEMMA CurrentType ==
    ASSUME TypeOK, NEW w \in Workers, InOperations(w), run[w].op \in 1..Len(run[w].out.ops)
    PROVE  /\ Current(w).object \in Objects
           /\ Current(w).ignoreIfExists \in BOOLEAN /\ Current(w).updateIfExists \in BOOLEAN
           /\ Current(w).foreground \in BOOLEAN /\ Current(w).ignoreMissing \in BOOLEAN
<1>1. run[w].out \in Output
  BY OperationFields
<1>2. run[w].out.ops[run[w].op] \in OperationSpec
  BY <1>1 DEF Output
<1> QED
  BY <1>2 DEF Current, NewFromOperationSpec, OperationSpec

\* A change of an object makes it an object of the next version.
LEMMA ChangedType ==
    ASSUME TypeOK, NEW o \in Objects, NEW state \in {"absent", "present", "deleting"},
           NEW marks \in SUBSET (Nat \X Nat), Changed(o, state, marks)
    PROVE  /\ object' \in [Objects -> ObjectState]
           /\ object'[o] = [state |-> state, version |-> object[o].version + 1, marks |-> marks]
           /\ \A p \in Objects \ {o} : object'[p] = object[p]
<1>1. object[o].version + 1 \in Nat
  BY DEF TypeOK, ObjectState
<1> QED
  BY <1>1 DEF Changed, TypeOK, ObjectState

\* Types hold initially.
LEMMA InitTypeOK == Init => TypeOK
<1> SUFFICES ASSUME Init PROVE TypeOK
  OBVIOUS
<1>1. object \in [Objects -> ObjectState]
  BY DEF Init, Absent, Other, ObjectState
<1> QED
  BY <1>1 DEF Init, TypeOK

\* What a worker does in an operation keeps types.
LEMMA OperationTypeOK ==
    ASSUME TypeOK, OperationsFit, NEW w \in Workers,
           \/ CallFails(w) \/ ExecuteCreate(w) \/ ExecuteFilter(w) \/ Get(w) \/ Update(w)
           \/ ExecutePatch(w) \/ ExecuteDelete(w) \/ Poll(w)
    PROVE  TypeOK'
<1>1. InOperations(w) /\ run[w].op \in 1..Len(run[w].out.ops)
  <2>1. InOperations(w)
    BY DEF InOperations, At, InOperation, CallFails, ExecuteCreate, ExecuteFilter, Get, Update,
           ExecutePatch, ExecuteDelete, Poll
  <2>2. run[w].op \in 1..(Len(run[w].out.ops) + 1) /\ Len(run[w].out.ops) \in Nat
    BY <2>1, OperationFields DEF OperationsFit, Output
  <2>3. run[w].op <= Len(run[w].out.ops)
    BY <2>1 DEF OperationsFit, At, InOperation, CallFails, ExecuteCreate, ExecuteFilter, Get, Update,
           ExecutePatch, ExecuteDelete, Poll
  <2> QED
    BY <2>1, <2>2, <2>3
<1> DEFINE c == Current(w)
           o == c.object
<1>2. /\ o \in Objects /\ object[o] \in ObjectState
      /\ c.ignoreIfExists \in BOOLEAN /\ c.updateIfExists \in BOOLEAN
      /\ c.foreground \in BOOLEAN /\ c.ignoreMissing \in BOOLEAN
  BY <1>1, CurrentType DEF TypeOK
<1>3. Mark(w) \in Nat \X Nat
  BY <1>1, OperationFields DEF Mark
<1>4. ASSUME NEW ok \in BOOLEAN, OperationDone(w, ok)
      PROVE  /\ run' \in [Workers -> {Idle} \cup Prepared \cup Launched \cup Operating \cup Getting \cup Updating]
             /\ log' \in [1..MaxRuns -> Seq(Nat)]
  BY <1>1, <1>4, OperationDoneType DEF TypeOK
<1>5. ASSUME NEW r \in Operating \cup Getting \cup Updating, run' = [run EXCEPT ![w] = r]
      PROVE  run' \in [Workers -> {Idle} \cup Prepared \cup Launched \cup Operating \cup Getting \cup Updating]
  BY <1>5 DEF TypeOK
<1> HIDE DEF c
<1>6. CASE CallFails(w)
  BY <1>6, <1>4 DEF CallFails, TypeOK, kernel
<1>7. CASE ExecuteCreate(w)
  <2>1. CASE ~Exists(o) /\ Changed(o, "present", {Mark(w)}) /\ OperationDone(w, TRUE)
    <3>1. object' \in [Objects -> ObjectState]
      <4>1. {Mark(w)} \in SUBSET (Nat \X Nat)
        BY <1>3
      <4> QED
        BY <2>1, <4>1, <1>2, ChangedType
    <3> QED
      BY <1>7, <2>1, <3>1, <1>4 DEF ExecuteCreate, TypeOK, kernel, counters
  <2>2. CASE Exists(o) /\ ~c.updateIfExists /\ OperationDone(w, c.ignoreIfExists) /\ UNCHANGED object
    BY <1>7, <2>2, <1>2, <1>4 DEF ExecuteCreate, TypeOK, kernel, counters
  <2>3. CASE /\ UNCHANGED <<object, log>>
             /\ run' = [run EXCEPT ![w] = [at |-> "get", id |-> @.id, out |-> @.out, op |-> @.op,
                                           failed |-> @.failed, step |-> 1]]
    <3>1. [at |-> "get", id |-> run[w].id, out |-> run[w].out, op |-> run[w].op,
           failed |-> run[w].failed, step |-> 1] \in Getting
      BY <1>1, OperationFields DEF Getting
    <3> QED
      BY <1>7, <2>3, <3>1, <1>5 DEF ExecuteCreate, TypeOK, kernel, counters
  <2> QED
    BY <1>7, <2>1, <2>2, <2>3 DEF ExecuteCreate, c
<1>8. CASE ExecuteFilter(w)
  <2>1. [at |-> "get", id |-> run[w].id, out |-> run[w].out, op |-> run[w].op,
         failed |-> run[w].failed, step |-> 1] \in Getting
    BY <1>1, OperationFields DEF Getting
  <2> QED
    BY <1>8, <2>1, <1>5 DEF ExecuteFilter, TypeOK, kernel, counters
<1>9. CASE Get(w)
  <2>1. CASE \E ok \in BOOLEAN : OperationDone(w, ok)
    BY <1>9, <2>1, <1>4 DEF Get, TypeOK, kernel, counters
  <2>2. CASE /\ run' = [run EXCEPT ![w] = [at |-> "update", id |-> @.id, out |-> @.out, op |-> @.op,
                                           failed |-> @.failed, step |-> @.step, seen |-> object[o]]]
             /\ UNCHANGED log
    <3>1. [at |-> "update", id |-> run[w].id, out |-> run[w].out, op |-> run[w].op,
           failed |-> run[w].failed, step |-> run[w].step, seen |-> object[o]] \in Updating
      BY <1>1, <1>2, <1>9, OperationFields DEF Updating, Get
    <3> QED
      BY <1>9, <2>2, <3>1, <1>5 DEF Get, TypeOK, kernel, counters
  <2> QED
    BY <1>9, <2>1, <2>2, <1>2 DEF Get, c
<1>10. CASE Update(w)
  <2>1. CASE Changed(o, object[o].state, NewMarks(w)) /\ OperationDone(w, TRUE)
    <3>1. run[w].seen \in ObjectState
      BY <1>1, <1>10, OperationFields DEF Update
    <3>2. object[o].state \in {"absent", "present", "deleting"} /\ NewMarks(w) \in SUBSET (Nat \X Nat)
      BY <3>1, <1>2, <1>3 DEF ObjectState, NewMarks
    <3> QED
      BY <1>10, <2>1, <3>2, <1>2, <1>4, ChangedType DEF Update, TypeOK, kernel, counters
  <2>2. CASE /\ run' = [run EXCEPT ![w] = [at |-> "get", id |-> @.id, out |-> @.out, op |-> @.op,
                                           failed |-> @.failed, step |-> @.step + 1]]
             /\ UNCHANGED <<object, log>>
    <3>1. [at |-> "get", id |-> run[w].id, out |-> run[w].out, op |-> run[w].op,
           failed |-> run[w].failed, step |-> run[w].step + 1] \in Getting
      BY <1>1, <1>10, OperationFields DEF Getting, Update
    <3> QED
      BY <1>10, <2>2, <3>1, <1>5 DEF Update, TypeOK, kernel, counters
  <2>3. CASE OperationDone(w, FALSE) /\ UNCHANGED object
    BY <1>10, <2>3, <1>4 DEF Update, TypeOK, kernel, counters
  <2> QED
    BY <1>10, <2>1, <2>2, <2>3 DEF Update, c
<1>11. CASE ExecutePatch(w)
  <2>1. CASE Changed(o, object[o].state, object[o].marks \cup {Mark(w)}) /\ OperationDone(w, TRUE)
    <3>1. /\ object[o].state \in {"absent", "present", "deleting"}
          /\ object[o].marks \cup {Mark(w)} \in SUBSET (Nat \X Nat)
      BY <1>2, <1>3 DEF ObjectState
    <3> QED
      BY <1>11, <2>1, <3>1, <1>2, <1>4, ChangedType DEF ExecutePatch, TypeOK, kernel, counters
  <2>2. CASE OperationDone(w, c.ignoreMissing) /\ UNCHANGED object
    BY <1>11, <2>2, <1>2, <1>4 DEF ExecutePatch, TypeOK, kernel, counters
  <2> QED
    BY <1>11, <2>1, <2>2 DEF ExecutePatch, c
<1>12. CASE ExecuteDelete(w)
  <2>1. CASE OperationDone(w, TRUE) /\ UNCHANGED object
    BY <1>12, <2>1, <1>4 DEF ExecuteDelete, TypeOK, kernel, counters
  <2>2. CASE Changed(o, "absent", {}) /\ OperationDone(w, TRUE)
    <3>1. object' \in [Objects -> ObjectState]
      <4>1. {} \in SUBSET (Nat \X Nat) /\ "absent" \in {"absent", "present", "deleting"}
        OBVIOUS
      <4> QED
        BY <2>2, <4>1, <1>2, ChangedType
    <3> QED
      BY <1>12, <2>2, <3>1, <1>4 DEF ExecuteDelete, TypeOK, kernel, counters
  <2>3. CASE Changed(o, "deleting", object[o].marks) /\ Goto(w, "poll") /\ UNCHANGED log
    <3>1. run[w] \in Operating
      BY <1>12, OperationStates DEF ExecuteDelete, InOperation, At
    <3>2. [run[w] EXCEPT !.at = "poll"] \in Operating
      BY <3>1 DEF Operating
    <3>3. object[o].marks \in SUBSET (Nat \X Nat)
      BY <1>2 DEF ObjectState
    <3>4. run' = [run EXCEPT ![w] = [run[w] EXCEPT !.at = "poll"]]
      BY <2>3 DEF Goto
    <3>5. object' \in [Objects -> ObjectState]
      BY <2>3, <3>3, <1>2, ChangedType
    <3> QED
      BY <1>12, <2>3, <3>2, <3>4, <3>5, <1>5 DEF ExecuteDelete, TypeOK, kernel, counters
  <2> QED
    BY <1>12, <2>1, <2>2, <2>3 DEF ExecuteDelete, c
<1>13. CASE Poll(w)
  BY <1>13, <1>4 DEF Poll, TypeOK, kernel, counters, Exists
<1> QED
  BY <1>6, <1>7, <1>8, <1>9, <1>10, <1>11, <1>12, <1>13

\* Every step keeps types.
LEMMA NextTypeOK == TypeOK /\ OperationsFit /\ [Next]_vars => TypeOK'
<1> SUFFICES ASSUME TypeOK, OperationsFit, [Next]_vars PROVE TypeOK'
  OBVIOUS
<1> DEFINE RunStates == {Idle} \cup Prepared \cup Launched \cup Operating \cup Getting \cup Updating
<1>0. ASSUME NEW w \in Workers, NEW r \in RunStates, run' = [run EXCEPT ![w] = r]
      PROVE  run' \in [Workers -> RunStates]
  BY <1>0 DEF TypeOK
<1>1. ASSUME NEW w \in Workers, Prepare(w) PROVE TypeOK'
  <2>1. PICK out \in Outputs, made \in 0..Len(Kinds) :
          /\ files' = files \cup {<<runs', Kinds[k]>> : k \in 1..made}
          /\ IF made = Len(Kinds)
             THEN run' = [run EXCEPT ![w] = [at |-> "start", id |-> runs', out |-> out]]
             ELSE UNCHANGED run
    BY <1>1 DEF Prepare
  <2>2. runs' \in 1..MaxRuns
    BY <1>1 DEF Prepare, TypeOK
  <2>3. files' \in SUBSET (Nat \X {"context", "metrics", "admission", "conversion", "patch"})
    <3>1. Len(Kinds) = 5 /\ \A k \in 1..5 : Kinds[k] \in {"context", "metrics", "admission", "conversion", "patch"}
      BY DEF Kinds
    <3>2. {<<runs', Kinds[k]>> : k \in 1..made} \subseteq Nat \X {"context", "metrics", "admission", "conversion", "patch"}
      BY <3>1, <2>2
    <3> QED
      BY <2>1, <3>2 DEF TypeOK
  <2>4. [at |-> "start", id |-> runs', out |-> out] \in Prepared
    BY <2>2 DEF Prepared
  <2>5. run' \in [Workers -> RunStates]
    BY <2>1, <2>4, <1>0 DEF TypeOK
  <2> QED
    BY <1>1, <2>2, <2>3, <2>5 DEF Prepare, TypeOK, kernel
<1>2. ASSUME NEW w \in Workers, Done(w)
      PROVE  /\ run' \in [Workers -> RunStates]
             /\ files' \in SUBSET (Nat \X {"context", "metrics", "admission", "conversion", "patch"})
  BY <1>2, <1>0 DEF Done, RemoveFiles, TypeOK
<1>3. ASSUME NEW w \in Workers, Start(w) PROVE TypeOK'
  <2>1. ASSUME NEW pid \in Pids, Forked(w, pid),
               run' = [run EXCEPT ![w] = [at |-> "wait", id |-> @.id, out |-> @.out, pid |-> pid]],
               UNCHANGED <<files, faults>>
        PROVE  TypeOK'
    <3>1. run[w] \in Prepared
      BY <1>3, OperationStates DEF Start
    <3>2. [at |-> "wait", id |-> run[w].id, out |-> run[w].out, pid |-> pid] \in Launched
      BY <3>1 DEF Prepared, Launched
    <3> QED
      BY <1>3, <2>1, <3>2, <1>0 DEF Start, Forked, TypeOK
  <2>2. CASE Fault /\ RunFails(w) /\ UNCHANGED kernel
    BY <1>3, <2>2, <1>2 DEF Start, RunFails, TypeOK, kernel
  <2> QED
    BY <1>3, <2>1, <2>2 DEF Start
<1>4. ASSUME NEW w \in Workers, Wait(w) PROVE TypeOK'
  <2>1. run[w] \in Launched
    BY <1>4, OperationStates DEF Wait, At
  <2>2. [run[w] EXCEPT !.at = "unregister"] \in Launched
    BY <2>1 DEF Launched
  <2>3. [run[w] EXCEPT !.at = "unregister", !.out.exit = FALSE] \in Launched
    BY <2>1 DEF Launched, Output
  <2>4. CASE Goto(w, "unregister") /\ process' = [process EXCEPT ![run[w].pid] = "none"]
    BY <1>4, <2>4, <2>2, <1>0 DEF Wait, Goto, TypeOK, counters
  <2>5. CASE run' = [run EXCEPT ![w].at = "unregister", ![w].out.exit = FALSE] /\ UNCHANGED process
    BY <1>4, <2>5, <2>3, <1>0 DEF Wait, TypeOK, counters
  <2> QED
    BY <1>4, <2>4, <2>5 DEF Wait
<1>5. ASSUME NEW w \in Workers, Unregister(w) PROVE TypeOK'
  <2>1. CASE /\ run' = [run EXCEPT ![w] = [at |-> "operation", id |-> @.id, out |-> @.out, op |-> 1, failed |-> FALSE]]
             /\ UNCHANGED files
    <3>1. run[w] \in Launched
      BY <1>5, OperationStates DEF Unregister, At
    <3>2. [at |-> "operation", id |-> run[w].id, out |-> run[w].out, op |-> 1, failed |-> FALSE] \in Operating
      BY <3>1 DEF Launched, Operating
    <3> QED
      BY <1>5, <2>1, <3>2, <1>0 DEF Unregister, TypeOK, counters
  <2>2. CASE RunFails(w)
    BY <1>5, <2>2, <1>2 DEF Unregister, RunFails, TypeOK, counters
  <2> QED
    BY <1>5, <2>1, <2>2 DEF Unregister
<1>6. ASSUME NEW w \in Workers, Finish(w) PROVE TypeOK'
  BY <1>6, <1>2 DEF Finish, TypeOK, kernel, counters
<1>7. ASSUME NEW p \in Pids, Exit(p) \/ Reap(p) PROVE TypeOK'
  BY <1>7 DEF Exit, Reap, TypeOK, counters
<1>8. ASSUME NEW o \in Objects, WriteByOthers(o) PROVE TypeOK'
  <2>1. object[o] \in ObjectState /\ Other \in Nat \X Nat
    BY DEF TypeOK, Other
  <2>2. CASE Changed(o, IF Exists(o) THEN object[o].state ELSE "present", object[o].marks \cup {Other})
    <3>1. /\ (IF Exists(o) THEN object[o].state ELSE "present") \in {"absent", "present", "deleting"}
          /\ object[o].marks \cup {Other} \in SUBSET (Nat \X Nat)
      BY <2>1 DEF ObjectState
    <3>2. object' \in [Objects -> ObjectState]
      BY <2>2, <3>1, ChangedType
    <3> QED
      BY <1>8, <3>2 DEF WriteByOthers, TypeOK, kernel
  <2>3. CASE Changed(o, "absent", {})
    <3>1. object' \in [Objects -> ObjectState]
      BY <2>3, ChangedType
    <3> QED
      BY <1>8, <3>1 DEF WriteByOthers, TypeOK, kernel
  <2> QED
    BY <1>8, <2>2, <2>3 DEF WriteByOthers
<1>9. ASSUME NEW o \in Objects, Collect(o) PROVE TypeOK'
  <2>1. object' \in [Objects -> ObjectState]
    BY <1>9, ChangedType DEF Collect
  <2> QED
    BY <1>9, <2>1 DEF Collect, TypeOK, kernel, counters
<1>10. CASE UNCHANGED vars
  BY <1>10 DEF vars, TypeOK, kernel, counters
<1> QED
  BY <1>1, <1>3, <1>4, <1>5, <1>6, <1>7, <1>8, <1>9, <1>10, OperationTypeOK DEF Next, Work

-----------------------------------------------------------------------------
(* Steps within operations have a common shape.                            *)

OperationAction(w) ==
    \/ CallFails(w) \/ ExecuteCreate(w) \/ ExecuteFilter(w) \/ Get(w) \/ Update(w)
    \/ ExecutePatch(w) \/ ExecuteDelete(w) \/ Poll(w)

\* The run goes to another point of the same operation.
Continues(w) ==
    /\ run'[w].at \in {"get", "poll", "update"}
    /\ run'[w].op = run[w].op /\ run'[w].failed = run[w].failed
    /\ run'[w].at \in {"get", "update"} => Current(w).kind = "filter" \/ Current(w).updateIfExists
    /\ UNCHANGED log

\* An action of an operation ends the operation or continues it, and touches nothing of other
\* runs, files or processes.
LEMMA OperationStep ==
    ASSUME TypeOK, OperationsFit, NEW w \in Workers, OperationAction(w)
    PROVE  /\ InOperations(w) /\ run[w].op \in 1..Len(run[w].out.ops)
           /\ \A v \in Workers \ {w} : run'[v] = run[v]
           /\ InOperations(w)'
           /\ run'[w].id = run[w].id /\ run'[w].out = run[w].out
           /\ UNCHANGED <<files, process, active, overtaken, published, unprepared, runs>>
           /\ (\E ok \in BOOLEAN : OperationDone(w, ok)) \/ Continues(w)
<1>1. InOperations(w) /\ run[w].op \in 1..Len(run[w].out.ops)
  <2>1. InOperations(w)
    BY DEF OperationAction, InOperations, At, InOperation, CallFails, ExecuteCreate, ExecuteFilter,
           Get, Update, ExecutePatch, ExecuteDelete, Poll
  <2>2. run[w].op \in 1..(Len(run[w].out.ops) + 1) /\ Len(run[w].out.ops) \in Nat
    BY <2>1, OperationFields DEF OperationsFit, Output
  <2>3. run[w].op <= Len(run[w].out.ops)
    BY <2>1 DEF OperationAction, OperationsFit, At, InOperation, CallFails, ExecuteCreate,
           ExecuteFilter, Get, Update, ExecutePatch, ExecuteDelete, Poll
  <2> QED
    BY <2>1, <2>2, <2>3
<1>2. /\ Current(w).ignoreIfExists \in BOOLEAN /\ Current(w).ignoreMissing \in BOOLEAN
      /\ (Current(w).kind = "filter" /\ Current(w).ignoreMissing) \in BOOLEAN
  BY <1>1, CurrentType
<1>3. UNCHANGED <<files, process, active, overtaken, published, unprepared, runs>>
  BY DEF OperationAction, CallFails, ExecuteCreate, ExecuteFilter, Get, Update, ExecutePatch,
         ExecuteDelete, Poll, kernel, counters
<1> DEFINE Shape == /\ \A v \in Workers \ {w} : run'[v] = run[v]
                    /\ InOperations(w)'
                    /\ run'[w].id = run[w].id /\ run'[w].out = run[w].out
                    /\ (\E ok \in BOOLEAN : OperationDone(w, ok)) \/ Continues(w)
<1>4. ASSUME NEW ok \in BOOLEAN, OperationDone(w, ok) PROVE Shape
  BY <1>1, <1>4, OperationDoneType DEF InOperations, TypeOK
<1>5. ASSUME NEW st,
             /\ run' = [run EXCEPT ![w] = [at |-> "get", id |-> @.id, out |-> @.out, op |-> @.op, failed |-> @.failed, step |-> st]]
             /\ Current(w).kind = "filter" \/ Current(w).updateIfExists
             /\ UNCHANGED log
      PROVE  Shape
  BY <1>5 DEF TypeOK, Continues, InOperations
<1>6. ASSUME NEW st, NEW se,
             /\ run' = [run EXCEPT ![w] = [at |-> "update", id |-> @.id, out |-> @.out, op |-> @.op, failed |-> @.failed, step |-> st, seen |-> se]]
             /\ Current(w).kind = "filter" \/ Current(w).updateIfExists
             /\ UNCHANGED log
      PROVE  Shape
  BY <1>6 DEF TypeOK, Continues, InOperations
<1> SUFFICES Shape
  BY <1>1, <1>3
<1> HIDE DEF Shape
<1>7. CASE CallFails(w)
  BY <1>7, <1>4 DEF CallFails
<1>8. CASE ExecuteCreate(w)
  BY <1>8, <1>2, <1>4, <1>5 DEF ExecuteCreate
<1>9. CASE ExecuteFilter(w)
  BY <1>9, <1>5 DEF ExecuteFilter, InOperation
<1>10. ASSUME At(w, "get") \/ At(w, "update")
       PROVE  Current(w).kind = "filter" \/ Current(w).updateIfExists
  BY <1>1, <1>10 DEF OperationsFit, At
<1>11. CASE Get(w)
  BY <1>11, <1>2, <1>4, <1>6, <1>10 DEF Get
<1>12. CASE Update(w)
  BY <1>12, <1>4, <1>5, <1>10 DEF Update
<1>13. CASE ExecutePatch(w)
  BY <1>13, <1>2, <1>4 DEF ExecutePatch
<1>14. CASE ExecuteDelete(w)
  <2>1. CASE Goto(w, "poll") /\ UNCHANGED log
    <3>1. run[w] \in Operating
      BY <1>14, OperationStates DEF ExecuteDelete, InOperation, At
    <3> QED
      BY <2>1, <3>1 DEF Goto, TypeOK, Operating, Continues, InOperations, Shape
  <2> QED
    BY <1>14, <2>1, <1>4 DEF ExecuteDelete
<1>15. CASE Poll(w)
  BY <1>15, <1>4 DEF Poll, Exists
<1> QED
  BY <1>7, <1>8, <1>9, <1>11, <1>12, <1>13, <1>14, <1>15 DEF OperationAction

-----------------------------------------------------------------------------
(* Runs and their files.                                                   *)

\* Worker w goes on with its run.
GoesOn(w) ==
    /\ Busy(w) /\ Busy(w)' /\ run'[w].id = run[w].id
    /\ \A v \in Workers \ {w} : run'[v] = run[v]
    /\ UNCHANGED <<files, unprepared, runs>>

Ends(w) == Busy(w) /\ Done(w) /\ UNCHANGED <<unprepared, runs>>

\* However the wait ends, the run goes on with its pid to unregister it.
LEMMA WaitStep ==
    ASSUME TypeOK, NEW w \in Workers, Wait(w)
    PROVE  /\ run[w] \in Launched
           /\ run'[w].at = "unregister" /\ run'[w].id = run[w].id /\ run'[w].pid = run[w].pid
           /\ \A v \in Workers \ {w} : run'[v] = run[v]
<1>1. run[w] \in Launched
  BY OperationStates DEF Wait, At
<1>2. CASE Goto(w, "unregister")
  BY <1>1, <1>2 DEF Goto, Launched, TypeOK
<1>3. CASE run' = [run EXCEPT ![w].at = "unregister", ![w].out.exit = FALSE]
  <2>1. run'[w] = [run[w] EXCEPT !.at = "unregister", !.out.exit = FALSE]
    BY <1>3 DEF TypeOK
  <2>2. \A v \in Workers \ {w} : run'[v] = run[v]
    BY <1>3 DEF TypeOK
  <2> QED
    BY <1>1, <2>1, <2>2 DEF Launched
<1> QED
  BY <1>1, <1>2, <1>3 DEF Wait

\* A step begins a run, ends one, goes on with one, or touches none.
LEMMA RunSteps ==
    ASSUME TypeOK, OperationsFit, [Next]_vars
    PROVE  \/ \E w \in Workers : Prepare(w) \/ Ends(w) \/ GoesOn(w)
           \/ UNCHANGED <<run, files, unprepared, runs>>
<1>1. ASSUME NEW w \in Workers, Start(w) PROVE Ends(w) \/ GoesOn(w)
  <2>1. Busy(w)
    BY <1>1 DEF Start, At, Busy, Idle
  <2> QED
    BY <1>1, <2>1 DEF Start, RunFails, Ends, GoesOn, Busy, Idle, TypeOK
<1>2. ASSUME NEW w \in Workers, Wait(w) PROVE GoesOn(w)
  <2>1. Busy(w) /\ Busy(w)'
    BY <1>2, WaitStep DEF Busy, Idle, Wait, At
  <2> QED
    BY <1>2, <2>1, WaitStep DEF Wait, GoesOn, counters
<1>3. ASSUME NEW w \in Workers, Unregister(w) PROVE Ends(w) \/ GoesOn(w)
  <2>1. Busy(w)
    BY <1>3 DEF Unregister, At, Busy, Idle
  <2>2. UNCHANGED <<unprepared, runs>>
    BY <1>3 DEF Unregister, counters
  <2>3. CASE RunFails(w)
    BY <2>1, <2>2, <2>3 DEF RunFails, Ends
  <2>4. CASE /\ run' = [run EXCEPT ![w] = [at |-> "operation", id |-> @.id, out |-> @.out, op |-> 1, failed |-> FALSE]]
             /\ UNCHANGED files
    BY <2>1, <2>2, <2>4 DEF GoesOn, Busy, Idle, TypeOK
  <2> QED
    BY <1>3, <2>3, <2>4 DEF Unregister
<1>4. ASSUME NEW w \in Workers, OperationAction(w) PROVE GoesOn(w)
  <2>1. Busy(w) /\ Busy(w)'
    BY <1>4, OperationStep DEF InOperations, Busy, Idle
  <2> QED
    BY <1>4, <2>1, OperationStep DEF GoesOn
<1>5. ASSUME NEW w \in Workers, Finish(w) PROVE Ends(w)
  BY <1>5 DEF Finish, Ends, At, Busy, Idle, counters
<1>6. ASSUME NEW p \in Pids, Exit(p) \/ Reap(p) PROVE UNCHANGED <<run, files, unprepared, runs>>
  BY <1>6 DEF Exit, Reap, counters
<1>7. ASSUME NEW o \in Objects, WriteByOthers(o) \/ Collect(o)
      PROVE UNCHANGED <<run, files, unprepared, runs>>
  BY <1>7 DEF WriteByOthers, Collect, counters
<1>8. CASE UNCHANGED vars
  BY <1>8 DEF vars, counters
<1> QED
  BY <1>1, <1>2, <1>3, <1>4, <1>5, <1>6, <1>7, <1>8 DEF Next, Work, OperationAction

\* A run that is over leaves no files.
LEMMA FilesRemovedStep == TypeOK /\ OperationsFit /\ FilesRemoved /\ [Next]_vars => FilesRemoved'
<1> SUFFICES ASSUME TypeOK, OperationsFit, FilesRemoved, [Next]_vars, NEW f \in files'
             PROVE  f[1] \in unprepared' \/ \E w \in Workers : run'[w] # Idle /\ run'[w].id = f[1]
  BY DEF FilesRemoved
<1>1. ASSUME NEW w \in Workers, Prepare(w)
      PROVE f[1] \in unprepared' \/ \E v \in Workers : run'[v] # Idle /\ run'[v].id = f[1]
  <2>1. run[w] = Idle
    BY <1>1, OperationStates DEF Prepare
  <2>2. PICK out \in Outputs, made \in 0..Len(Kinds) :
          /\ files' = files \cup {<<runs', Kinds[k]>> : k \in 1..made}
          /\ IF made = Len(Kinds)
             THEN run' = [run EXCEPT ![w] = [at |-> "start", id |-> runs', out |-> out]] /\ UNCHANGED unprepared
             ELSE unprepared' = unprepared \cup {runs'} /\ UNCHANGED run
    BY <1>1 DEF Prepare
  <2>3. CASE f \in files
    BY <2>1, <2>2, <2>3 DEF FilesRemoved, TypeOK
  <2>4. CASE f \notin files
    <3>1. f[1] = runs'
      BY <2>2, <2>4
    <3>2. CASE made = Len(Kinds)
      <4>1. run'[w] = [at |-> "start", id |-> runs', out |-> out]
        BY <2>2, <3>2 DEF TypeOK
      <4> QED
        BY <3>1, <4>1 DEF Idle
    <3> QED
      BY <2>2, <3>1, <3>2
  <2> QED
    BY <2>3, <2>4
<1>2. ASSUME NEW w \in Workers, Ends(w)
      PROVE f[1] \in unprepared' \/ \E v \in Workers : run'[v] # Idle /\ run'[v].id = f[1]
  BY <1>2 DEF Ends, Done, RemoveFiles, FilesRemoved, TypeOK
<1>3. ASSUME NEW w \in Workers, GoesOn(w)
      PROVE f[1] \in unprepared' \/ \E v \in Workers : run'[v] # Idle /\ run'[v].id = f[1]
  BY <1>3 DEF GoesOn, FilesRemoved, Busy
<1>4. CASE UNCHANGED <<run, files, unprepared, runs>>
  BY <1>4 DEF FilesRemoved
<1> QED
  BY <1>1, <1>2, <1>3, <1>4, RunSteps

\* Every run has an id of its own.
LEMMA RunsDifferStep == TypeOK /\ OperationsFit /\ RunsDiffer /\ [Next]_vars => RunsDiffer'
<1> SUFFICES ASSUME TypeOK, OperationsFit, RunsDiffer, [Next]_vars PROVE RunsDiffer'
  OBVIOUS
<1>0. \A v \in Workers : Busy(v) => run[v].id \in Nat
  <2> SUFFICES ASSUME NEW v \in Workers, Busy(v) PROVE run[v].id \in Nat
    OBVIOUS
  <2>1. run[v] \in Prepared \cup Launched \cup Operating \cup Getting \cup Updating
    BY DEF TypeOK, Busy
  <2> QED
    BY <2>1 DEF Prepared, Launched, Operating, Getting, Updating
<1>1. ASSUME NEW w \in Workers, Prepare(w) PROVE RunsDiffer'
  <2>1. /\ runs' = runs + 1 /\ runs \in Nat
        /\ \A v \in Workers \ {w} : run'[v] = run[v]
        /\ run'[w] = Idle \/ run'[w].id = runs + 1
    BY <1>1, OperationStates DEF Prepare, TypeOK
  <2> QED
    BY <1>0, <2>1 DEF RunsDiffer, Busy
<1>2. ASSUME NEW w \in Workers, Ends(w) PROVE RunsDiffer'
  BY <1>2 DEF Ends, Done, RunsDiffer, Busy, TypeOK
<1>3. ASSUME NEW w \in Workers, GoesOn(w) PROVE RunsDiffer'
  BY <1>3 DEF GoesOn, RunsDiffer, Busy
<1>4. CASE UNCHANGED <<run, files, unprepared, runs>>
  BY <1>4 DEF RunsDiffer, Busy
<1> QED
  BY <1>1, <1>2, <1>3, <1>4, RunSteps

-----------------------------------------------------------------------------
(* Children.                                                               *)

\* What keeps a child known: its worker has not moved, and the pid is neither collected nor
\* unregistered nor given to another worker.
LEMMA ChildrenKnownStep == TypeOK /\ OperationsFit /\ ChildrenKnown /\ [Next]_vars => ChildrenKnown'
<1> SUFFICES ASSUME TypeOK, OperationsFit, ChildrenKnown, [Next]_vars PROVE ChildrenKnown'
  OBVIOUS
<1>1. ASSUME NEW w \in Workers, UNCHANGED kernel,
             \A v \in Workers \ {w} : run'[v] = run[v], run'[w].at \notin {"wait", "unregister"}
      PROVE  ChildrenKnown'
  BY <1>1 DEF ChildrenKnown, At, kernel
<1>2. ASSUME NEW w \in Workers, Done(w)
      PROVE  (\A v \in Workers \ {w} : run'[v] = run[v]) /\ run'[w].at = "idle"
  BY <1>2 DEF Done, TypeOK, Idle
<1>3. ASSUME NEW w \in Workers, Prepare(w) PROVE ChildrenKnown'
  <2>1. /\ \A v \in Workers \ {w} : run'[v] = run[v]
        /\ run'[w].at = "start" \/ run'[w].at = "idle"
    BY <1>3 DEF Prepare, TypeOK, At
  <2> QED
    BY <1>1, <1>3, <2>1 DEF Prepare
<1>4. ASSUME NEW w \in Workers, Start(w) PROVE ChildrenKnown'
  <2>1. CASE UNCHANGED kernel /\ Done(w)
    BY <1>1, <1>2, <2>1
  <2>2. ASSUME NEW pid \in Pids, Forked(w, pid), active' = active \cup {pid},
               run' = [run EXCEPT ![w] = [at |-> "wait", id |-> @.id, out |-> @.out, pid |-> pid]]
        PROVE  ChildrenKnown'
    <3>1. /\ run'[w].at = "wait" /\ run'[w].pid = pid
          /\ \A v \in Workers \ {w} : run'[v] = run[v]
      BY <2>2 DEF TypeOK
    <3>2. /\ process[pid] = "none" /\ process'[pid] = "running"
          /\ \A p \in Pids \ {pid} : process'[p] = process[p]
          /\ overtaken \subseteq overtaken' \cup {w}
          /\ w \notin overtaken' =>
                \A v \in Workers \ {w} : run[v].at \in {"wait", "unregister"} => run[v].pid # pid
      BY <2>2 DEF Forked, TypeOK
    <3>3. ASSUME NEW v \in Workers \ {w}, At(v, "wait")', v \notin overtaken'
          PROVE  /\ process'[run'[v].pid] # "none" /\ run'[v].pid \in active'
                 /\ \A u \in Workers \ {v} : run'[u].at \in {"wait", "unregister"} => run'[u].pid # run'[v].pid
      <4>1. At(v, "wait") /\ v \notin overtaken
        BY <3>1, <3>2, <3>3 DEF At
      <4>2. run[v].pid \in Pids
        BY <4>1, OperationStates DEF At, Launched
      <4>3. run[v].pid # pid
        BY <3>2, <4>1 DEF ChildrenKnown
      <4> QED
        BY <2>2, <3>1, <3>2, <4>1, <4>2, <4>3 DEF ChildrenKnown
    <3>4. w \notin overtaken' =>
                 /\ process'[run'[w].pid] # "none" /\ run'[w].pid \in active'
                 /\ \A u \in Workers \ {w} : run'[u].at \in {"wait", "unregister"} => run'[u].pid # run'[w].pid
      BY <2>2, <3>1, <3>2
    <3> QED
      BY <3>3, <3>4 DEF ChildrenKnown
  <2> QED
    BY <1>4, <2>1, <2>2 DEF Start, RunFails
<1>5. ASSUME NEW w \in Workers, Wait(w) PROVE ChildrenKnown'
  <2>1. /\ At(w, "wait") /\ run[w].pid \in Pids
        /\ \A p \in Pids \ {run[w].pid} : process'[p] = process[p]
        /\ UNCHANGED <<active, overtaken>>
    BY <1>5, WaitStep DEF Wait, Launched, TypeOK
  <2>2. ASSUME NEW v \in Workers, At(v, "wait")', v \notin overtaken'
        PROVE  /\ process'[run'[v].pid] # "none" /\ run'[v].pid \in active'
               /\ \A u \in Workers \ {v} : run'[u].at \in {"wait", "unregister"} => run'[u].pid # run'[v].pid
    <3>1. v # w /\ run'[v] = run[v] /\ At(v, "wait") /\ v \notin overtaken
      BY <1>5, <2>1, <2>2, WaitStep DEF At
    <3>2. run[v].pid \in Pids /\ run[v].pid # run[w].pid
      BY <2>1, <3>1, OperationStates DEF At, Launched, ChildrenKnown
    <3>3. \A u \in Workers \ {v} : run[u].at \in {"wait", "unregister"} => run[u].pid # run[v].pid
      BY <3>1 DEF ChildrenKnown
    <3> QED
      BY <1>5, <2>1, <3>1, <3>2, <3>3, WaitStep DEF ChildrenKnown, At
  <2> QED
    BY <2>2 DEF ChildrenKnown
<1>6. ASSUME NEW w \in Workers, Unregister(w) PROVE ChildrenKnown'
  <2>1. /\ run[w].at = "unregister" /\ active' = active \ {run[w].pid}
        /\ UNCHANGED <<process, overtaken>>
        /\ \A v \in Workers \ {w} : run'[v] = run[v]
        /\ run'[w].at \notin {"wait", "unregister"}
    <3>1. CASE RunFails(w)
      BY <1>6, <1>2, <3>1 DEF Unregister, At, RunFails
    <3>2. CASE run' = [run EXCEPT ![w] = [at |-> "operation", id |-> @.id, out |-> @.out, op |-> 1, failed |-> FALSE]]
      BY <1>6, <3>2 DEF Unregister, At, TypeOK
    <3> QED
      BY <1>6, <3>1, <3>2 DEF Unregister
  <2> QED
    BY <2>1 DEF ChildrenKnown, At
<1>7. ASSUME NEW w \in Workers, OperationAction(w) PROVE ChildrenKnown'
  BY <1>1, <1>7, OperationStep DEF InOperations, kernel
<1>8. ASSUME NEW w \in Workers, Finish(w) PROVE ChildrenKnown'
  BY <1>1, <1>2, <1>8 DEF Finish
<1>9. ASSUME NEW p \in Pids, Exit(p) \/ Reap(p) PROVE ChildrenKnown'
  <2>1. \A w \in Workers : At(w, "wait") => run[w].pid \in Pids
    BY OperationStates DEF At, Launched
  <2>2. ASSUME Exit(p) PROVE ChildrenKnown'
    BY <2>1, <2>2 DEF Exit, ChildrenKnown, At, TypeOK
  <2>3. ASSUME Reap(p) PROVE ChildrenKnown'
    BY <2>1, <2>3 DEF Reap, ChildrenKnown, At, TypeOK
  <2> QED
    BY <1>9, <2>2, <2>3
<1>10. ASSUME NEW o \in Objects, WriteByOthers(o) \/ Collect(o) PROVE ChildrenKnown'
  BY <1>10 DEF WriteByOthers, Collect, kernel, ChildrenKnown, At
<1>11. CASE UNCHANGED vars
  BY <1>11 DEF vars, kernel, ChildrenKnown, At
<1> QED
  BY <1>3, <1>4, <1>5, <1>6, <1>7, <1>8, <1>9, <1>10, <1>11 DEF Next, Work, OperationAction

-----------------------------------------------------------------------------
(* Operations and what is logged of them.                                  *)

\* Operations are taken one after the other, and no further than the file goes.
LEMMA OperationsFitStep == TypeOK /\ OperationsFit /\ [Next]_vars => OperationsFit'
<1> SUFFICES ASSUME TypeOK, OperationsFit, [Next]_vars PROVE OperationsFit'
  OBVIOUS
<1>0. ASSUME NEW w \in Workers, \A v \in Workers \ {w} : run'[v] = run[v],
             /\ run'[w].op \in 1..(Len(run'[w].out.ops) + 1)
             /\ run'[w].at # "operation" => run'[w].op <= Len(run'[w].out.ops)
             /\ run'[w].at \in {"get", "update"} => Current(w)'.kind = "filter" \/ Current(w)'.updateIfExists
      PROVE  OperationsFit'
  <2>1. ASSUME NEW v \in Workers \ {w}, InOperations(v)'
        PROVE  /\ run'[v].op \in 1..(Len(run'[v].out.ops) + 1)
               /\ run'[v].at # "operation" => run'[v].op <= Len(run'[v].out.ops)
               /\ run'[v].at \in {"get", "update"} => Current(v)'.kind = "filter" \/ Current(v)'.updateIfExists
    BY <1>0, <2>1 DEF OperationsFit, InOperations, Current
  <2> QED
    BY <1>0, <2>1 DEF OperationsFit
<1>1. ASSUME NEW w \in Workers, \A v \in Workers \ {w} : run'[v] = run[v], ~InOperations(w)'
      PROVE  OperationsFit'
  BY <1>1 DEF OperationsFit, InOperations, Current
<1>2. ASSUME NEW w \in Workers, Done(w) PROVE OperationsFit'
  BY <1>1, <1>2 DEF Done, TypeOK, Idle, InOperations
<1>3. ASSUME NEW w \in Workers, Prepare(w) PROVE OperationsFit'
  <2>1. /\ \A v \in Workers \ {w} : run'[v] = run[v]
        /\ run'[w].at = "start" \/ run'[w].at = "idle"
    BY <1>3 DEF Prepare, TypeOK, At
  <2> QED
    BY <1>1, <2>1 DEF InOperations
<1>4. ASSUME NEW w \in Workers, Start(w) PROVE OperationsFit'
  <2>1. ASSUME NEW pid,
               run' = [run EXCEPT ![w] = [at |-> "wait", id |-> @.id, out |-> @.out, pid |-> pid]]
        PROVE  OperationsFit'
    BY <1>1, <2>1 DEF TypeOK, InOperations
  <2> QED
    BY <1>2, <1>4, <2>1 DEF Start, RunFails
<1>5. ASSUME NEW w \in Workers, Wait(w) PROVE OperationsFit'
  BY <1>1, <1>5, WaitStep DEF InOperations
<1>6. ASSUME NEW w \in Workers, Unregister(w) PROVE OperationsFit'
  <2>1. CASE run' = [run EXCEPT ![w] = [at |-> "operation", id |-> @.id, out |-> @.out, op |-> 1, failed |-> FALSE]]
    <3>1. Len(run[w].out.ops) \in Nat
      BY <1>6, OperationStates DEF Unregister, At, Launched, Output
    <3>2. /\ \A v \in Workers \ {w} : run'[v] = run[v]
          /\ run'[w].at = "operation" /\ run'[w].op = 1 /\ run'[w].out = run[w].out
      BY <2>1 DEF TypeOK
    <3>3. 1 \in 1..(Len(run'[w].out.ops) + 1)
      BY <3>1, <3>2
    <3> QED
      BY <1>0, <3>2, <3>3
  <2> QED
    BY <1>2, <1>6, <2>1 DEF Unregister, RunFails
<1>7. ASSUME NEW w \in Workers, OperationAction(w) PROVE OperationsFit'
  <2>1. /\ InOperations(w) /\ run[w].op \in 1..Len(run[w].out.ops)
        /\ \A v \in Workers \ {w} : run'[v] = run[v]
        /\ run'[w].out = run[w].out
        /\ (\E ok \in BOOLEAN : OperationDone(w, ok)) \/ Continues(w)
    BY <1>7, OperationStep
  <2>2. Len(run[w].out.ops) \in Nat
    BY <2>1, OperationFields DEF Output
  <2>3. CASE \E ok \in BOOLEAN : OperationDone(w, ok)
    <3>1. run'[w].at = "operation" /\ run'[w].op = run[w].op + 1
      BY <2>1, <2>3, OperationDoneType
    <3>2. run'[w].op \in 1..(Len(run'[w].out.ops) + 1)
      BY <2>1, <2>2, <3>1
    <3> QED
      BY <1>0, <2>1, <3>1, <3>2
  <2>4. CASE Continues(w)
    <3>1. run'[w].op \in 1..(Len(run'[w].out.ops) + 1) /\ run'[w].op <= Len(run'[w].out.ops)
      BY <2>1, <2>2, <2>4 DEF Continues
    <3>2. Current(w)' = Current(w)
      BY <2>1, <2>4 DEF Current, Continues
    <3> QED
      BY <1>0, <2>1, <2>4, <3>1, <3>2 DEF Continues
  <2> QED
    BY <2>1, <2>3, <2>4
<1>8. ASSUME NEW w \in Workers, Finish(w) PROVE OperationsFit'
  BY <1>2, <1>8 DEF Finish
<1>9. CASE UNCHANGED run
  BY <1>9 DEF OperationsFit, InOperations, Current
<1>10. CASE \/ \E p \in Pids : Exit(p) \/ Reap(p)
            \/ \E o \in Objects : WriteByOthers(o) \/ Collect(o)
            \/ UNCHANGED vars
  BY <1>9, <1>10 DEF Exit, Reap, WriteByOthers, Collect, vars
<1> QED
  BY <1>3, <1>4, <1>5, <1>6, <1>7, <1>8, <1>10 DEF Next, Work, OperationAction

\* The log of operations that all succeeded so far, and one more.
LEMMA AppendNext ==
    ASSUME NEW n \in Nat
    PROVE  Append([i \in 1..n |-> i], n + 1) = [i \in 1..(n + 1) |-> i]
<1> DEFINE s == [i \in 1..n |-> i]
<1>1. s \in Seq(Nat) /\ Len(s) = n
  OBVIOUS
<1>2. /\ Append(s, n + 1) \in Seq(Nat) /\ Len(Append(s, n + 1)) = n + 1
      /\ \A i \in 1..(n + 1) : Append(s, n + 1)[i] = i
  BY <1>1
<1> HIDE DEF s
<1>3. Append(s, n + 1) = [i \in 1..(n + 1) |-> Append(s, n + 1)[i]]
  BY <1>2
<1>4. [i \in 1..(n + 1) |-> Append(s, n + 1)[i]] = [i \in 1..(n + 1) |-> i]
  BY <1>2
<1> QED
  BY <1>3, <1>4 DEF s

\* What is logged of a run whose operations all succeeded so far.
LoggedSoFar(w) ==
    IF InOperations(w) THEN ~run[w].failed => log[run[w].id] = [i \in 1..(run[w].op - 1) |-> i]
                       ELSE log[run[w].id] = <<>>

\* The log grows with the operations of its run.
LEMMA LogFollowsStep ==
    TypeOK /\ OperationsFit /\ RunsDiffer /\ LogFollows /\ [Next]_vars => LogFollows'
<1> SUFFICES ASSUME TypeOK, OperationsFit, RunsDiffer, LogFollows, [Next]_vars PROVE LogFollows'
  OBVIOUS
<1>1. /\ \A i \in 1..MaxRuns : i > runs => log[i] = <<>>
      /\ \A v \in Workers : Busy(v) => LoggedSoFar(v)
  BY DEF LogFollows, LoggedSoFar
<1>2. ASSUME /\ \A i \in 1..MaxRuns : i > runs' => log'[i] = <<>>
             /\ \A v \in Workers : Busy(v)' => LoggedSoFar(v)'
      PROVE  LogFollows'
  BY <1>2 DEF LogFollows, LoggedSoFar
<1>3. ASSUME NEW w \in Workers, UNCHANGED <<log, runs>>, \A v \in Workers \ {w} : run'[v] = run[v],
             Busy(w)' => LoggedSoFar(w)'
      PROVE  /\ \A i \in 1..MaxRuns : i > runs' => log'[i] = <<>>
             /\ \A v \in Workers : Busy(v)' => LoggedSoFar(v)'
  BY <1>1, <1>3 DEF Busy, LoggedSoFar, InOperations
<1>4. ASSUME NEW w \in Workers, Done(w), UNCHANGED <<log, runs>> PROVE LogFollows'
  BY <1>2, <1>3, <1>4 DEF Done, TypeOK, Busy
<1>5. ASSUME NEW w \in Workers, Prepare(w) PROVE LogFollows'
  <2>1. /\ runs' \in 1..MaxRuns /\ runs' = runs + 1 /\ runs \in Nat
        /\ \A v \in Workers \ {w} : run'[v] = run[v]
        /\ UNCHANGED log
    BY <1>5 DEF Prepare, TypeOK
  <2>2. Busy(w)' => LoggedSoFar(w)'
    <3>1. run'[w] = Idle \/ (run'[w].id = runs + 1 /\ run'[w].at = "start")
      BY <1>5, OperationStates DEF Prepare, TypeOK
    <3> QED
      BY <1>1, <2>1, <3>1 DEF Busy, LoggedSoFar, InOperations
  <2>3. \A i \in 1..MaxRuns : i > runs' => log'[i] = <<>>
    BY <1>1, <2>1
  <2>4. \A v \in Workers \ {w} : Busy(v)' => LoggedSoFar(v)'
    BY <1>1, <2>1 DEF Busy, LoggedSoFar, InOperations
  <2> QED
    BY <1>2, <2>2, <2>3, <2>4
<1>6. ASSUME NEW w \in Workers, Start(w) PROVE LogFollows'
  <2>1. ASSUME NEW pid,
               run' = [run EXCEPT ![w] = [at |-> "wait", id |-> @.id, out |-> @.out, pid |-> pid]]
        PROVE  LogFollows'
    <3>1. Busy(w) /\ ~InOperations(w)
      BY <1>6 DEF Start, At, Busy, Idle, InOperations
    <3>2. run'[w].at = "wait" /\ run'[w].id = run[w].id /\ \A v \in Workers \ {w} : run'[v] = run[v]
      BY <2>1 DEF TypeOK
    <3>3. UNCHANGED <<log, runs>>
      BY <1>6 DEF Start
    <3>4. LoggedSoFar(w)'
      BY <1>1, <3>1, <3>2, <3>3 DEF LoggedSoFar, InOperations
    <3> QED
      BY <1>2, <1>3, <3>2, <3>3, <3>4
  <2> QED
    BY <1>4, <1>6, <2>1 DEF Start, RunFails
<1>7. ASSUME NEW w \in Workers, Wait(w) PROVE LogFollows'
  <2>1. Busy(w) /\ ~InOperations(w) /\ UNCHANGED <<log, runs>>
    BY <1>7 DEF Wait, At, Busy, Idle, InOperations, counters
  <2>2. LoggedSoFar(w)'
    BY <1>1, <1>7, <2>1, WaitStep DEF LoggedSoFar, InOperations
  <2> QED
    BY <1>2, <1>3, <1>7, <2>1, <2>2, WaitStep
<1>8. ASSUME NEW w \in Workers, Unregister(w) PROVE LogFollows'
  <2>1. UNCHANGED <<log, runs>>
    BY <1>8 DEF Unregister, counters
  <2>2. CASE run' = [run EXCEPT ![w] = [at |-> "operation", id |-> @.id, out |-> @.out, op |-> 1, failed |-> FALSE]]
    <3>1. Busy(w) /\ ~InOperations(w)
      BY <1>8 DEF Unregister, At, Busy, Idle, InOperations
    <3>2. /\ run'[w].at = "operation" /\ run'[w].id = run[w].id /\ run'[w].op = 1
          /\ \A v \in Workers \ {w} : run'[v] = run[v]
      BY <2>2 DEF TypeOK
    <3>3. log[run[w].id] = <<>>
      BY <1>1, <3>1 DEF LoggedSoFar
    <3>4. [i \in 1..(1 - 1) |-> i] = <<>>
      OBVIOUS
    <3>5. LoggedSoFar(w)'
      BY <2>1, <3>2, <3>3, <3>4 DEF LoggedSoFar, InOperations
    <3> QED
      BY <1>2, <1>3, <2>1, <3>2, <3>5
  <2> QED
    BY <1>4, <1>8, <2>1, <2>2 DEF Unregister, RunFails
<1>9. ASSUME NEW w \in Workers, OperationAction(w) PROVE LogFollows'
  <2>1. /\ InOperations(w) /\ InOperations(w)'
        /\ \A v \in Workers \ {w} : run'[v] = run[v]
        /\ run'[w].id = run[w].id
        /\ UNCHANGED runs
        /\ (\E ok \in BOOLEAN : OperationDone(w, ok)) \/ Continues(w)
    BY <1>9, OperationStep
  <2>2. /\ Busy(w) /\ run[w].id \in 1..MaxRuns /\ run[w].failed \in BOOLEAN
        /\ run[w].op \in Nat /\ run[w].op >= 1
    BY <1>9, <2>1, OperationFields, OperationStep DEF Busy, InOperations, Idle
  <2>3. ASSUME NEW ok \in BOOLEAN, OperationDone(w, ok) PROVE LogFollows'
    <3>1. run'[w].op = run[w].op + 1 /\ run'[w].failed = (run[w].failed \/ ~ok)
      BY <2>1, <2>3, OperationDoneType
    <3>2. /\ log' = IF ok THEN [log EXCEPT ![run[w].id] = Append(@, run[w].op)] ELSE log
          /\ \A i \in (1..MaxRuns) \ {run[w].id} : log'[i] = log[i]
          /\ ok => log'[run[w].id] = Append(log[run[w].id], run[w].op)
      BY <2>2, <2>3 DEF OperationDone, TypeOK
    <3>3. \A i \in 1..MaxRuns : i > runs' => log'[i] = <<>>
      <4>1. run[w].id <= runs /\ runs \in Nat
        BY <2>2 DEF RunsDiffer, TypeOK
      <4> QED
        BY <1>1, <2>1, <2>2, <3>2, <4>1
    <3>4. LoggedSoFar(w)'
      <4> SUFFICES ASSUME ~run'[w].failed PROVE log'[run'[w].id] = [i \in 1..(run'[w].op - 1) |-> i]
        BY <2>1 DEF LoggedSoFar
      <4>1. ok /\ ~run[w].failed
        BY <3>1
      <4>2. log[run[w].id] = [i \in 1..(run[w].op - 1) |-> i]
        BY <1>1, <2>1, <2>2, <4>1 DEF LoggedSoFar
      <4>3. log'[run[w].id] = Append([i \in 1..(run[w].op - 1) |-> i], run[w].op)
        BY <3>2, <4>1, <4>2
      <4>4. run[w].op - 1 \in Nat /\ (run[w].op - 1) + 1 = run[w].op /\ run'[w].op - 1 = run[w].op
        BY <2>2, <3>1
      <4>5. Append([i \in 1..(run[w].op - 1) |-> i], run[w].op) = [i \in 1..run[w].op |-> i]
        BY <4>4, AppendNext
      <4> QED
        BY <2>1, <4>3, <4>4, <4>5
    <3>5. ASSUME NEW v \in Workers \ {w}, Busy(v)' PROVE LoggedSoFar(v)'
      <4>1. Busy(v) /\ run'[v] = run[v]
        BY <2>1, <3>5 DEF Busy
      <4>2. run[v].id # run[w].id
        BY <2>2, <4>1 DEF RunsDiffer
      <4>3. run[v].id \in 1..MaxRuns
        <5>1. run[v] \in Prepared \cup Launched \cup Operating \cup Getting \cup Updating
          BY <4>1 DEF TypeOK, Busy
        <5> QED
          BY <5>1 DEF Prepared, Launched, Operating, Getting, Updating
      <4> QED
        BY <1>1, <3>2, <4>1, <4>2, <4>3 DEF LoggedSoFar, InOperations
    <3> QED
      BY <1>2, <3>3, <3>4, <3>5
  <2>4. CASE Continues(w)
    <3>1. LoggedSoFar(w)'
      BY <1>1, <2>1, <2>2, <2>4 DEF Continues, LoggedSoFar
    <3> QED
      BY <1>2, <1>3, <2>1, <2>4, <3>1 DEF Continues
  <2> QED
    BY <2>1, <2>3, <2>4
<1>10. ASSUME NEW w \in Workers, Finish(w) PROVE LogFollows'
  BY <1>4, <1>10 DEF Finish, counters
<1>11. CASE UNCHANGED <<run, log, runs>>
  BY <1>11 DEF LogFollows, Busy, InOperations
<1>12. CASE \/ \E p \in Pids : Exit(p) \/ Reap(p)
            \/ \E o \in Objects : WriteByOthers(o) \/ Collect(o)
            \/ UNCHANGED vars
  BY <1>11, <1>12 DEF Exit, Reap, WriteByOthers, Collect, vars, counters
<1> QED
  BY <1>5, <1>6, <1>7, <1>8, <1>9, <1>10, <1>12 DEF Next, Work, OperationAction

-----------------------------------------------------------------------------
(* Objects.                                                                *)

\* A step changes an object only by making its next version.
LEMMA VersionsGrow ==
    ASSUME TypeOK, OperationsFit, [Next]_vars, NEW o \in Objects
    PROVE  object'[o] = object[o] \/ object'[o].version = object[o].version + 1
<1>1. ASSUME NEW p \in Objects, NEW state, NEW marks, Changed(p, state, marks)
      PROVE  object'[o] = object[o] \/ object'[o].version = object[o].version + 1
  BY <1>1 DEF Changed, TypeOK
<1>2. ASSUME NEW w \in Workers, OperationAction(w)
      PROVE  object'[o] = object[o] \/ object'[o].version = object[o].version + 1
  <2>1. Current(w).object \in Objects
    BY <1>2, OperationStep, CurrentType
  <2>2. \/ UNCHANGED object
        \/ \E state, marks : Changed(Current(w).object, state, marks)
    BY <1>2 DEF OperationAction, CallFails, ExecuteCreate, ExecuteFilter, Get, Update, ExecutePatch,
                ExecuteDelete, Poll
  <2> QED
    BY <1>1, <2>1, <2>2
<1>3. ASSUME NEW p \in Objects, WriteByOthers(p) \/ Collect(p)
      PROVE  object'[o] = object[o] \/ object'[o].version = object[o].version + 1
  BY <1>1, <1>3 DEF WriteByOthers, Collect
<1>4. CASE \/ \E w \in Workers : Prepare(w) \/ Start(w) \/ Wait(w) \/ Unregister(w) \/ Finish(w)
           \/ \E p \in Pids : Exit(p) \/ Reap(p)
           \/ UNCHANGED vars
  BY <1>4 DEF Prepare, Start, Wait, Unregister, Finish, Exit, Reap, vars
<1> QED
  BY <1>2, <1>3, <1>4 DEF Next, Work, OperationAction

\* A worker comes to an update from Get, with the object as it is.
LEMMA UpdateFollowsGet ==
    ASSUME TypeOK, OperationsFit, [Next]_vars, NEW w \in Workers, At(w, "update")'
    PROVE  \/ run'[w] = run[w]
           \/ /\ Current(w)' = Current(w) /\ Current(w).object \in Objects
              /\ run'[w].seen = object[Current(w).object]
              /\ UNCHANGED object
<1>1. ASSUME NEW v \in Workers, Prepare(v) \/ Done(v) PROVE run'[w] = run[w]
  BY <1>1 DEF Prepare, Done, TypeOK, At, Idle
<1>2. ASSUME NEW v \in Workers, Start(v) PROVE run'[w] = run[w]
  BY <1>1, <1>2 DEF Start, RunFails, TypeOK, At
<1>3. ASSUME NEW v \in Workers, Wait(v) PROVE run'[w] = run[w]
  BY <1>3, WaitStep DEF At
<1>4. ASSUME NEW v \in Workers, Unregister(v) PROVE run'[w] = run[w]
  BY <1>1, <1>4 DEF Unregister, RunFails, TypeOK, At
<1>5. ASSUME NEW v \in Workers, Finish(v) PROVE run'[w] = run[w]
  BY <1>1, <1>5 DEF Finish
<1>6. ASSUME NEW v \in Workers, OperationAction(v), run'[w] # run[w]
      PROVE /\ Current(w)' = Current(w) /\ Current(w).object \in Objects
            /\ run'[w].seen = object[Current(w).object]
            /\ UNCHANGED object
  <2>1. v = w
    BY <1>6, OperationStep
  <2>2. /\ InOperations(w) /\ run[w].op \in 1..Len(run[w].out.ops)
        /\ run'[w].out = run[w].out
        /\ (\E ok \in BOOLEAN : OperationDone(w, ok)) \/ Continues(w)
    BY <1>6, <2>1, OperationStep
  <2>3. ~\E ok \in BOOLEAN : OperationDone(w, ok)
    BY <2>2, OperationDoneType DEF At
  <2>4. Current(w)' = Current(w) /\ Current(w).object \in Objects
    BY <2>2, <2>3, CurrentType DEF Continues, Current
  <2>5. ASSUME NEW r, r.at # "update" PROVE run' # [run EXCEPT ![w] = r]
    BY <2>5 DEF TypeOK, At
  <2>6. CASE Get(w)
    <3>1. /\ run' = [run EXCEPT ![w] = [at |-> "update", id |-> @.id, out |-> @.out, op |-> @.op, failed |-> @.failed,
                                        step |-> @.step, seen |-> object[Current(w).object]]]
          /\ UNCHANGED object
      <4>1. Current(w).ignoreMissing \in BOOLEAN
        BY <2>2, CurrentType
      <4>2. (Current(w).kind = "filter" /\ Current(w).ignoreMissing) \in BOOLEAN
        BY <4>1
      <4> QED
        BY <2>3, <2>6, <4>2 DEF Get
    <3> QED
      BY <2>4, <3>1 DEF TypeOK
  <2>7. CASE ExecuteCreate(w)
    <3>1. Current(w).ignoreIfExists \in BOOLEAN
      BY <2>2, CurrentType
    <3>2. run' = [run EXCEPT ![w] = [at |-> "get", id |-> run[w].id, out |-> run[w].out, op |-> run[w].op, failed |-> run[w].failed, step |-> 1]]
      BY <2>3, <2>7, <3>1 DEF ExecuteCreate
    <3> QED
      BY <2>5, <3>2
  <2>8. CASE ExecuteFilter(w)
    <3>1. run' = [run EXCEPT ![w] = [at |-> "get", id |-> run[w].id, out |-> run[w].out, op |-> run[w].op, failed |-> run[w].failed, step |-> 1]]
      BY <2>8 DEF ExecuteFilter
    <3> QED
      BY <2>5, <3>1
  <2>9. CASE Update(w)
    <3>1. run' = [run EXCEPT ![w] = [at |-> "get", id |-> run[w].id, out |-> run[w].out, op |-> run[w].op, failed |-> run[w].failed, step |-> run[w].step + 1]]
      BY <2>3, <2>9 DEF Update
    <3> QED
      BY <2>5, <3>1
  <2>10. CASE ExecuteDelete(w)
    <3>1. Goto(w, "poll")
      BY <2>3, <2>10 DEF ExecuteDelete
    <3>2. run[w] \in Operating
      BY <2>10, OperationStates DEF ExecuteDelete, InOperation, At
    <3> QED
      BY <3>1, <3>2 DEF Goto, TypeOK, At, Operating
  <2>11. CASE CallFails(w) \/ ExecutePatch(w) \/ Poll(w)
    <3>1. Current(w).ignoreMissing \in BOOLEAN /\ (~Exists(Current(w).object)) \in BOOLEAN
      BY <2>2, CurrentType DEF Exists
    <3>2. \E ok \in BOOLEAN : OperationDone(w, ok)
      <4>1. CASE CallFails(w)
        BY <4>1 DEF CallFails
      <4>2. CASE ExecutePatch(w)
        BY <3>1, <4>2 DEF ExecutePatch
      <4>3. CASE Poll(w)
        BY <3>1, <4>3 DEF Poll
      <4> QED
        BY <2>11, <4>1, <4>2, <4>3
    <3> QED
      BY <2>3, <3>2
  <2> QED
    BY <1>6, <2>1, <2>6, <2>7, <2>8, <2>9, <2>10, <2>11 DEF OperationAction
<1>7. CASE \/ \E p \in Pids : Exit(p) \/ Reap(p)
           \/ \E o \in Objects : WriteByOthers(o) \/ Collect(o)
           \/ UNCHANGED vars
  BY <1>7 DEF Exit, Reap, WriteByOthers, Collect, vars
<1> QED
  BY <1>1, <1>2, <1>3, <1>4, <1>5, <1>6, <1>7 DEF Next, Work, OperationAction

\* What an update has seen stays the past of the object.
LEMMA SeenIsPastStep == TypeOK /\ OperationsFit /\ SeenIsPast /\ [Next]_vars => SeenIsPast'
<1> SUFFICES ASSUME TypeOK, OperationsFit, SeenIsPast, [Next]_vars, NEW w \in Workers, At(w, "update")'
             PROVE  LET o == object'[Current(w)'.object] IN
                    /\ run'[w].seen.version <= o.version
                    /\ run'[w].seen.version = o.version => run'[w].seen.marks = o.marks
  BY DEF SeenIsPast, At
<1>1. CASE run'[w] = run[w]
  <2>1. /\ At(w, "update") /\ InOperations(w) /\ Current(w)' = Current(w)
    BY <1>1 DEF At, InOperations, Current
  <2>2. run[w].op \in 1..Len(run[w].out.ops)
    <3>1. Len(run[w].out.ops) \in Nat
      BY <2>1, OperationFields DEF Output
    <3> QED
      BY <2>1, <3>1 DEF OperationsFit, At
  <2> DEFINE o == Current(w).object
  <2>3. o \in Objects /\ run[w].seen \in ObjectState
    BY <2>1, <2>2, CurrentType, OperationFields
  <2>4. object[o].version \in Nat /\ run[w].seen.version \in Nat
    BY <2>3 DEF TypeOK, ObjectState
  <2>5. object'[o] = object[o] \/ object'[o].version = object[o].version + 1
    BY <2>3, VersionsGrow
  <2>6. /\ run[w].seen.version <= object[o].version
        /\ run[w].seen.version = object[o].version => run[w].seen.marks = object[o].marks
    BY <2>1 DEF SeenIsPast
  <2> QED
    BY <1>1, <2>1, <2>4, <2>5, <2>6
<1>2. CASE /\ Current(w)' = Current(w) /\ Current(w).object \in Objects
           /\ run'[w].seen = object[Current(w).object]
           /\ UNCHANGED object
  BY <1>2 DEF TypeOK, ObjectState
<1> QED
  BY <1>1, <1>2, UpdateFollowsGet

-----------------------------------------------------------------------------
(* Theorems.                                                               *)

\* The inductive invariant holds initially and is kept by every step.
LEMMA Inductive == (Init => IInv) /\ (IInv /\ [Next]_vars => IInv')
<1>1. ASSUME Init PROVE IInv
  <2>1. TypeOK
    BY <1>1, InitTypeOK
  <2>2. \A w \in Workers : run[w] = Idle
    BY <1>1 DEF Init
  <2>3. FilesRemoved /\ RunsDiffer /\ ChildrenKnown /\ OperationsFit /\ SeenIsPast
    BY <1>1, <2>2 DEF Init, FilesRemoved, RunsDiffer, ChildrenKnown, OperationsFit, SeenIsPast, Busy,
                      InOperations, At, Idle
  <2>4. LogFollows
    BY <1>1, <2>2 DEF Init, LogFollows, Busy
  <2> QED
    BY <2>1, <2>3, <2>4 DEF IInv
<1>2. ASSUME IInv, [Next]_vars PROVE IInv'
  <2>1. /\ TypeOK /\ FilesRemoved /\ RunsDiffer /\ ChildrenKnown /\ OperationsFit /\ LogFollows
        /\ SeenIsPast
    BY <1>2 DEF IInv
  <2>2. TypeOK' /\ FilesRemoved' /\ RunsDiffer' /\ ChildrenKnown' /\ OperationsFit'
    BY <1>2, <2>1, NextTypeOK, FilesRemovedStep, RunsDifferStep, ChildrenKnownStep, OperationsFitStep
  <2>3. LogFollows' /\ SeenIsPast'
    BY <1>2, <2>1, LogFollowsStep, SeenIsPastStep
  <2> QED
    BY <2>2, <2>3 DEF IInv
<1> QED
  BY <1>1, <1>2

\* All parts of the inductive invariant hold in every state of every run of the system.
THEOREM HookRunInvariant == Spec => []IInv
  BY Inductive, PTL DEF Spec

\* The temporary files of a run are gone when the run is over, whichever of the errors ended it,
\* for any number of workers; a Prepare that failed half way is the only exception
\* (hookIOProvider.Prepare, the deferred Cleanup of Hook.Run).
THEOREM FilesAreRemoved == Spec => []FilesRemoved
<1>1. IInv => FilesRemoved
  BY DEF IInv
<1> QED
  BY <1>1, HookRunInvariant, PTL

\* The reaper collects no child that its worker waits for, except one whose pid another worker
\* had in hand when the kernel gave it out again (startAndRegister, unregisterPID).
THEOREM ReaperSparesChildren == Spec => []ChildrenAreSpared
<1>1. IInv => ChildrenAreSpared
  BY DEF IInv, ChildrenKnown, ChildrenAreSpared
<1> QED
  BY <1>1, HookRunInvariant, PTL

\* Metrics and responses are handed on only for runs whose operations have all succeeded in the
\* order of the file (handleRunHook, ExecuteOperations).
THEOREM ResultsFollowOperations == Spec => PublishedWhenApplied
<1>1. ASSUME IInv, [Next]_vars, NEW w \in Workers, run[w] # Idle, run[w].id \in published' \ published
      PROVE  log[run[w].id] = [i \in DOMAIN run[w].out.ops |-> i]
  <2>1. TypeOK /\ OperationsFit /\ RunsDiffer /\ LogFollows
    BY <1>1 DEF IInv
  <2>2. \A v \in Workers : OperationAction(v) => UNCHANGED published
    BY <2>1, OperationStep
  <2>3. PICK v \in Workers : Finish(v)
    BY <1>1, <2>2 DEF Next, Work, OperationAction, Prepare, Start, Wait, Unregister, Exit, Reap,
                      WriteByOthers, Collect, vars
  <2>4. v = w /\ ~run[w].failed
    <3>1. run[v] # Idle
      BY <2>3 DEF Finish, At, Idle
    <3>2. ~run[v].failed /\ run[w].id = run[v].id
      BY <1>1, <2>3 DEF Finish
    <3> QED
      BY <1>1, <2>1, <3>1, <3>2 DEF RunsDiffer, Busy
  <2>5. InOperations(w) /\ run[w].op > Len(run[w].out.ops)
    BY <2>3, <2>4 DEF Finish, At, InOperations
  <2>6. run[w].out.ops \in Seq(OperationSpec)
    BY <2>1, <2>5, OperationFields DEF Output
  <2>7. run[w].op - 1 = Len(run[w].out.ops) /\ DOMAIN run[w].out.ops = 1..Len(run[w].out.ops)
    BY <2>1, <2>5, <2>6 DEF OperationsFit
  <2>8. log[run[w].id] = [i \in 1..(run[w].op - 1) |-> i]
    BY <1>1, <2>1, <2>4, <2>5 DEF LogFollows, Busy
  <2> QED
    BY <2>7, <2>8
<1> DEFINE Act == \A w \in Workers : run[w] # Idle /\ run[w].id \in published' \ published =>
                     log[run[w].id] = [i \in DOMAIN run[w].out.ops |-> i]
<1>2. IInv /\ [Next]_vars => [Act]_vars
  BY <1>1
<1> QED
  BY <1>2, HookRunInvariant, PTL DEF Spec, PublishedWhenApplied

\* A filter never undoes what others have written between its Get and its Update, however the
\* writers interleave; only CreateOrUpdate, which replaces the object, does
\* (executeFilterOperation, RetryOnConflict).
THEOREM FiltersKeepOthersWrites == Spec => OthersWritesSurvive
<1> DEFINE Lost(o) == /\ object[o].state # "absent" /\ object'[o].state # "absent"
                      /\ ~(object[o].marks \subseteq object'[o].marks)
           Replaced(o) == \E w \in Workers : At(w, "update") /\ Current(w).object = o /\ Current(w).updateIfExists
<1>1. ASSUME IInv, [Next]_vars, NEW o \in Objects, Lost(o) PROVE Replaced(o)
  <2>1. TypeOK /\ OperationsFit /\ SeenIsPast
    BY <1>1 DEF IInv
  <2>2. object'[o] # object[o]
    BY <1>1
  <2>3. ASSUME NEW p \in Objects, NEW state, NEW marks, Changed(p, state, marks)
        PROVE  p = o /\ state # "absent" /\ ~(object[o].marks \subseteq marks)
    BY <1>1, <2>1, <2>3 DEF Changed, TypeOK
  <2>4. ASSUME NEW p \in Objects, WriteByOthers(p) \/ Collect(p) PROVE FALSE
    <3>1. CASE Changed(p, "absent", {})
      BY <2>3, <3>1
    <3>2. CASE Changed(p, IF Exists(p) THEN object[p].state ELSE "present", object[p].marks \cup {Other})
      BY <2>3, <3>2
    <3> QED
      BY <2>4, <3>1, <3>2 DEF WriteByOthers, Collect
  <2>5. ASSUME NEW w \in Workers, OperationAction(w) PROVE Replaced(o)
    <3>1. Current(w).object \in Objects
      BY <2>1, <2>5, OperationStep, CurrentType
    <3>2. CASE ExecuteCreate(w)
      <4>1. ~Exists(Current(w).object) /\ Changed(Current(w).object, "present", {Mark(w)})
        BY <2>2, <3>2 DEF ExecuteCreate
      <4> QED
        BY <1>1, <2>3, <3>1, <4>1 DEF Exists
    <3>3. CASE Update(w)
      <4>1. Fresh(w) /\ Changed(Current(w).object, object[Current(w).object].state, NewMarks(w))
        BY <2>2, <3>3 DEF Update
      <4>2. Current(w).object = o /\ ~(object[o].marks \subseteq NewMarks(w))
        BY <2>3, <3>1, <4>1
      <4>3. At(w, "update") /\ InOperations(w)
        BY <3>3 DEF Update, At, InOperations
      <4>4. run[w].seen.marks = object[o].marks
        BY <2>1, <4>1, <4>2, <4>3 DEF SeenIsPast, Fresh
      <4>5. Current(w).kind # "filter"
        BY <4>2, <4>4 DEF NewMarks
      <4>6. Current(w).updateIfExists
        BY <2>1, <4>3, <4>5 DEF OperationsFit, At
      <4> QED
        BY <4>2, <4>3, <4>6
    <3>4. CASE ExecutePatch(w)
      <4>1. Changed(Current(w).object, object[Current(w).object].state, object[Current(w).object].marks \cup {Mark(w)})
        BY <2>2, <3>4 DEF ExecutePatch
      <4> QED
        BY <2>3, <3>1, <4>1
    <3>5. CASE ExecuteDelete(w)
      <4>1. \/ Changed(Current(w).object, "absent", {})
            \/ Changed(Current(w).object, "deleting", object[Current(w).object].marks)
        BY <2>2, <3>5 DEF ExecuteDelete
      <4> QED
        BY <2>3, <3>1, <4>1
    <3>6. CASE CallFails(w) \/ ExecuteFilter(w) \/ Get(w) \/ Poll(w)
      BY <2>2, <3>6 DEF CallFails, ExecuteFilter, Get, Poll
    <3> QED
      BY <2>5, <3>2, <3>3, <3>4, <3>5, <3>6 DEF OperationAction
  <2>6. CASE \/ \E w \in Workers : Prepare(w) \/ Start(w) \/ Wait(w) \/ Unregister(w) \/ Finish(w)
             \/ \E p \in Pids : Exit(p) \/ Reap(p)
             \/ UNCHANGED vars
    BY <2>2, <2>6 DEF Prepare, Start, Wait, Unregister, Finish, Exit, Reap, vars
  <2> QED
    BY <1>1, <2>4, <2>5, <2>6 DEF Next, Work, OperationAction
<1> DEFINE Act == \A o \in Objects :
                     object[o].state # "absent" /\ object'[o].state # "absent" /\ ~(object[o].marks \subseteq object'[o].marks) =>
                     \E w \in Workers : At(w, "update") /\ Current(w).object = o /\ Current(w).updateIfExists
<1>2. IInv /\ [Next]_vars => [Act]_vars
  BY <1>1
<1> QED
  BY <1>2, HookRunInvariant, PTL DEF Spec, OthersWritesSurvive
=============================================================================
