------------------------------- MODULE HookRun -------------------------------
(***************************************************************************)
(* One execution of a hook (Hook.Run, handleRunHook): temporary files, the *)
(* child process and its entry in the registry of processes (pkg/executor),*)
(* the files the hook leaves, the operations on objects it asks for        *)
(* (pkg/kube/object_patch), metrics and responses.                         *)
(*                                                                         *)
(* Workers run hooks at the same time as a reaper of orphans collects      *)
(* children it does not find in the registry, and others write the same    *)
(* objects.  An object is absent, present or being deleted; it has a       *)
(* version and the marks of those who wrote to it.                         *)
(***************************************************************************)
EXTENDS Integers, Sequences, FiniteSets, SequencesExt

CONSTANTS
    Workers,        \* queue workers
    Pids,           \* process ids, which the kernel uses again
    Outputs,        \* what a run of a hook may leave: [exit, metrics, response, ops]
    Objects,        \* objects of the cluster
    ConflictSteps,  \* attempts of RetryOnConflict
    MaxRuns,        \* bound: runs in all
    MaxFaults,      \* bound: failed system and API calls
    MaxWrites       \* bound: writes of others

\* Operation types of the file and the operations that execute them.
KindOf == [Create |-> "create", CreateIfNotExists |-> "create", CreateOrUpdate |-> "create",
           Delete |-> "delete", DeleteInBackground |-> "delete", DeleteNonCascading |-> "delete",
           JQPatch |-> "filter", MergePatch |-> "patch", JSONPatch |-> "patch"]

\* A document of the file of operations, and all a run may leave.
OperationSpec == [operation : DOMAIN KindOf, object : Objects, valid : BOOLEAN,
                  ignoreMissing : BOOLEAN, ignoreHookError : BOOLEAN]
Output == [exit : BOOLEAN, metrics : {"ok", "refused", "bad"}, response : {"ok", "bad"},
           ops : Seq(OperationSpec)]

ASSUME OutputsAssumption == Outputs \subseteq Output
ASSUME HookRunBoundsAssumption == MaxRuns \in Nat /\ ConflictSteps \in Nat

VARIABLES
    run,       \* the run of each worker
    files,     \* temporary files: <<run id, kind>>
    process,   \* the kernel's table: "none", "running" or "zombie" by pid
    active,    \* activePIDs of the registry
    object,    \* objects of the cluster
    published, \* ids of runs whose metrics and response were handed on
    log,       \* operations that succeeded, by run id: indexes in the order of execution
    unprepared, overtaken,   \* history: runs that Prepare failed, workers with a pid that
                             \* another worker had not unregistered yet
    runs, faults, writes     \* used so far

kernel == <<process, active, overtaken>>
counters == <<runs, faults, writes>>
vars == <<run, files, kernel, object, published, log, unprepared, counters>>

Kinds == <<"context", "metrics", "admission", "conversion", "patch">>
Idle == [at |-> "idle"]
Absent == [state |-> "absent", version |-> 0, marks |-> {}]
Exists(o) == object[o].state # "absent"

\* A failed system or API call.
Fault == faults < MaxFaults /\ faults' = faults + 1

At(w, at) == run[w].at = at
Goto(w, at) == run' = [run EXCEPT ![w].at = at]

-----------------------------------------------------------------------------
(* What the hook asks for.                                                 *)

\* NewFromOperationSpec: options belong to patches and filters.
NewFromOperationSpec(spec) ==
    [kind |-> KindOf[spec.operation], object |-> spec.object,
     ignoreIfExists |-> spec.operation = "CreateIfNotExists",
     updateIfExists |-> spec.operation = "CreateOrUpdate",
     foreground |-> spec.operation = "Delete",
     ignoreMissing |-> spec.ignoreMissing, ignoreHookError |-> spec.ignoreHookError]

Current(w) == NewFromOperationSpec(run[w].out.ops[run[w].op])

-----------------------------------------------------------------------------
(* Hook.Run.                                                               *)

\* IOProvider.Prepare makes the files one after the other.
Prepare(w) ==
    /\ At(w, "idle") /\ runs < MaxRuns /\ runs' = runs + 1
    /\ \E out \in Outputs, made \in 0..Len(Kinds) :
          /\ files' = files \cup {<<runs', Kinds[k]>> : k \in 1..made}
          /\ IF made = Len(Kinds)
             THEN /\ run' = [run EXCEPT ![w] = [at |-> "start", id |-> runs', out |-> out]]
                  /\ UNCHANGED <<unprepared, faults>>
             ELSE /\ Fault /\ unprepared' = unprepared \cup {runs'}
                  /\ UNCHANGED run
    /\ UNCHANGED <<kernel, object, published, log, writes>>

\* The deferred Cleanup, and the worker is free again.
RemoveFiles(w) == files' = {f \in files : f[1] # run[w].id}
Done(w) == RemoveFiles(w) /\ run' = [run EXCEPT ![w] = Idle]

\* Mutant: the files go when the results were read only.
RunFailsEarly(w) ==
    /\ run' = [run EXCEPT ![w] = Idle]
    /\ UNCHANGED files

\* The run ends with an error.  KubernetesPatchBytes is filled by a ParseResult that
\* succeeded, so handleRunHook has no status patches to apply.
RunFails(w) == Done(w)

Forked(w, pid) ==
    /\ process[pid] = "none"
    /\ process' = [process EXCEPT ![pid] = "running"]
    /\ overtaken' = IF \E v \in Workers \ {w} : run[v].at \in {"wait", "unregister"} /\ run[v].pid = pid
                    THEN overtaken \cup {w} ELSE overtaken \ {w}

\* Mutant: the child is registered when it has been started for some time.
StartUnregistered(w) ==
    \/ /\ At(w, "start")
       /\ \E pid \in Pids : Forked(w, pid) /\ run' = [run EXCEPT ![w] = [at |-> "register", id |-> @.id, out |-> @.out, pid |-> pid]]
       /\ UNCHANGED <<files, active, object, published, log, unprepared, counters>>
    \/ /\ At(w, "register") /\ Goto(w, "wait") /\ active' = active \cup {run[w].pid}
       /\ UNCHANGED <<files, process, overtaken, object, published, log, unprepared, counters>>

\* startAndRegister, under the lock of the registry.
Start(w) ==
    /\ At(w, "start")
    /\ \/ \E pid \in Pids :
             /\ Forked(w, pid)
             /\ active' = active \cup {pid}
             /\ run' = [run EXCEPT ![w] = [at |-> "wait", id |-> @.id, out |-> @.out, pid |-> pid]]
             /\ UNCHANGED <<files, faults>>
       \/ Fault /\ RunFails(w) /\ UNCHANGED kernel
    /\ UNCHANGED <<object, published, log, unprepared, runs, writes>>

\* cmd.Wait: collects the child, or finds that somebody else did.
Wait(w) ==
    /\ At(w, "wait")
    /\ \/ /\ process[run[w].pid] = "zombie"
          /\ process' = [process EXCEPT ![run[w].pid] = "none"]
          /\ Goto(w, "unregister")
       \/ /\ run[w].pid \notin {p \in Pids : process[p] # "none"}
          /\ run' = [run EXCEPT ![w].at = "unregister", ![w].out.exit = FALSE]
          /\ UNCHANGED process
    /\ UNCHANGED <<files, active, overtaken, object, published, log, unprepared, counters>>

\* MetricOperationsFromFile: an empty file is fine, a document that is no operation is not.
MetricsDecoded(out) == out.metrics # "bad"

\* ResponseFromFile of admission and conversion, for an empty file no response.
ResponseDecoded(out) == out.response # "bad"

\* A document fits the schema of its operation.
ValidateOperationSpec(spec) == spec.valid

\* ParseOperations: one document that does not fit, and none is taken.
ParseOperations(specs) == \A i \in DOMAIN specs : ValidateOperationSpec(specs[i])

\* A hook that succeeded, ParseResult in this order, then ParseOperations of the bytes.
Parsed(out) == out.exit /\ MetricsDecoded(out) /\ ResponseDecoded(out) /\ ParseOperations(out.ops)

\* The deferred unregisterPID, then the result is read.
Unregister(w) ==
    /\ At(w, "unregister")
    /\ active' = active \ {run[w].pid}
    /\ IF Parsed(run[w].out)
       THEN /\ run' = [run EXCEPT ![w] = [at |-> "operation", id |-> @.id, out |-> @.out, op |-> 1, failed |-> FALSE]]
            /\ UNCHANGED files
       ELSE RunFails(w)
    /\ UNCHANGED <<process, overtaken, object, published, log, unprepared, counters>>

-----------------------------------------------------------------------------
(* ExecuteOperations: one operation after the other, whatever becomes of   *)
(* them.                                                                   *)

\* Mutant: the error of the last operation is returned.
OperationDoneLast(w, ok) ==
    /\ run' = [run EXCEPT ![w] = [at |-> "operation", id |-> @.id, out |-> @.out, op |-> @.op + 1, failed |-> ~ok]]
    /\ log' = IF ok THEN [log EXCEPT ![run[w].id] = Append(@, run[w].op)] ELSE log

OperationDone(w, ok) ==
    /\ run' = [run EXCEPT ![w] = [at |-> "operation", id |-> @.id, out |-> @.out, op |-> @.op + 1,
                                  failed |-> @.failed \/ ~ok]]
    /\ log' = IF ok THEN [log EXCEPT ![run[w].id] = Append(@, run[w].op)] ELSE log

Changed(o, state, marks) ==
    object' = [object EXCEPT ![o] = [state |-> state, version |-> @.version + 1, marks |-> marks]]

Mark(w) == <<run[w].id, run[w].op>>

\* The operation's API calls are about to begin.
InOperation(w, kind) == At(w, "operation") /\ run[w].op <= Len(run[w].out.ops) /\ Current(w).kind = kind

\* An API call fails for a reason of its own: the first one of an operation, a Get or an Update
\* (a call that is not retried, as it is no conflict), or the Get of a poll.
CallFails(w) ==
    /\ run[w].at \in {"operation", "get", "update", "poll"} /\ run[w].op <= Len(run[w].out.ops)
    /\ Fault /\ OperationDone(w, FALSE)
    /\ UNCHANGED <<files, kernel, object, published, unprepared, runs, writes>>

\* executeCreateOperation up to the answer of Create.
ExecuteCreate(w) ==
    /\ InOperation(w, "create")
    /\ LET o == Current(w).object
           update == Current(w).updateIfExists
       IN \/ ~Exists(o) /\ Changed(o, "present", {Mark(w)}) /\ OperationDone(w, TRUE)
          \/ Exists(o) /\ ~update /\ OperationDone(w, Current(w).ignoreIfExists) /\ UNCHANGED object
          \/ Exists(o) /\ update /\ UNCHANGED <<object, log>>
             /\ run' = [run EXCEPT ![w] = [at |-> "get", id |-> @.id, out |-> @.out, op |-> @.op, failed |-> @.failed, step |-> 1]]
    /\ UNCHANGED <<files, kernel, published, unprepared, counters>>

\* executeFilterOperation begins.
ExecuteFilter(w) ==
    /\ InOperation(w, "filter")
    /\ run' = [run EXCEPT ![w] = [at |-> "get", id |-> @.id, out |-> @.out, op |-> @.op, failed |-> @.failed, step |-> 1]]
    /\ UNCHANGED <<files, kernel, object, published, log, unprepared, counters>>

\* Get, inside RetryOnConflict.  A filter that changes nothing ends the operation.
Get(w) ==
    /\ At(w, "get")
    /\ LET o == Current(w).object
           filter == Current(w).kind = "filter"
       IN \/ ~Exists(o) /\ OperationDone(w, filter /\ Current(w).ignoreMissing)
          \/ Exists(o) /\ filter /\ Mark(w) \in object[o].marks /\ OperationDone(w, TRUE)
          \/ /\ Exists(o) /\ ~(filter /\ Mark(w) \in object[o].marks)
             /\ run' = [run EXCEPT ![w] = [at |-> "update", id |-> @.id, out |-> @.out, op |-> @.op, failed |-> @.failed,
                                           step |-> @.step, seen |-> object[o]]]
             /\ UNCHANGED log
    /\ UNCHANGED <<files, kernel, object, published, unprepared, counters>>

\* What an Update writes: the filtered object, or the whole object of CreateOrUpdate.
NewMarks(w) == IF Current(w).kind = "filter" THEN run[w].seen.marks \cup {Mark(w)} ELSE {Mark(w)}

\* Mutant: an update is sent without a resource version.
FreshAny(w) == Exists(Current(w).object)

\* The API server takes an update of the version it has.
Fresh(w) == object[Current(w).object].version = run[w].seen.version /\ Exists(Current(w).object)

\* Update: a conflict is tried again from Get.
Update(w) ==
    /\ At(w, "update")
    /\ LET o == Current(w).object IN
       \/ Fresh(w) /\ Changed(o, object[o].state, NewMarks(w)) /\ OperationDone(w, TRUE)
       \/ /\ ~Fresh(w) /\ Exists(o) /\ run[w].step < ConflictSteps
          /\ run' = [run EXCEPT ![w] = [at |-> "get", id |-> @.id, out |-> @.out, op |-> @.op, failed |-> @.failed, step |-> @.step + 1]]
          /\ UNCHANGED <<object, log>>
       \/ ~Fresh(w) /\ (~Exists(o) \/ run[w].step = ConflictSteps) /\ OperationDone(w, FALSE) /\ UNCHANGED object
    /\ UNCHANGED <<files, kernel, published, unprepared, counters>>

\* executePatchOperation.
ExecutePatch(w) ==
    /\ InOperation(w, "patch")
    /\ LET o == Current(w).object IN
       IF Exists(o) THEN Changed(o, object[o].state, object[o].marks \cup {Mark(w)}) /\ OperationDone(w, TRUE)
       ELSE OperationDone(w, Current(w).ignoreMissing) /\ UNCHANGED object
    /\ UNCHANGED <<files, kernel, published, unprepared, counters>>

\* executeDeleteOperation: a missing object is fine; with foreground propagation the object
\* stays until its dependants are gone, and is waited for.
ExecuteDelete(w) ==
    /\ InOperation(w, "delete")
    /\ LET o == Current(w).object
           background == ~Current(w).foreground
       IN \/ ~Exists(o) /\ OperationDone(w, TRUE) /\ UNCHANGED object
          \/ Exists(o) /\ background /\ Changed(o, "absent", {}) /\ OperationDone(w, TRUE)
          \/ Exists(o) /\ ~background /\ Changed(o, "deleting", object[o].marks) /\ Goto(w, "poll") /\ UNCHANGED log
    /\ UNCHANGED <<files, kernel, published, unprepared, counters>>

\* PollUntilContextTimeout, by name: also an object created anew is waited for.
Poll(w) ==
    /\ At(w, "poll")
    /\ OperationDone(w, ~Exists(Current(w).object))
    /\ UNCHANGED <<files, kernel, object, published, unprepared, counters>>

\* handleRunHook: when no operation failed, metrics are applied (a batch with a bad one is
\* refused) and the response is put in the task.
Finish(w) ==
    /\ At(w, "operation") /\ run[w].op > Len(run[w].out.ops)
    /\ published' = IF run[w].failed \/ run[w].out.metrics = "refused" THEN published ELSE published \cup {run[w].id}
    /\ Done(w)
    /\ UNCHANGED <<kernel, object, log, unprepared, counters>>

-----------------------------------------------------------------------------
(* The kernel, the reaper and other writers (external).                    *)

Exit(pid) ==
    /\ process[pid] = "running" /\ process' = [process EXCEPT ![pid] = "zombie"]
    /\ UNCHANGED <<run, files, active, overtaken, object, published, log, unprepared, counters>>

\* A reaper asks the ProcessTracker before it collects a zombie.
Reap(pid) ==
    /\ process[pid] = "zombie" /\ pid \notin active
    /\ process' = [process EXCEPT ![pid] = "none"]
    /\ UNCHANGED <<run, files, active, overtaken, object, published, log, unprepared, counters>>

Other == <<0, 0>>
WriteByOthers(o) ==
    /\ writes < MaxWrites /\ writes' = writes + 1
    /\ \/ Changed(o, IF Exists(o) THEN object[o].state ELSE "present", object[o].marks \cup {Other})
       \/ Exists(o) /\ Changed(o, "absent", {})
    /\ UNCHANGED <<run, files, kernel, published, log, unprepared, runs, faults>>

\* The garbage collector is done with an object's dependants.
Collect(o) ==
    /\ object[o].state = "deleting" /\ Changed(o, "absent", {})
    /\ UNCHANGED <<run, files, kernel, published, log, unprepared, counters>>

-----------------------------------------------------------------------------

Init ==
    /\ run = [w \in Workers |-> Idle]
    /\ files = {} /\ active = {} /\ published = {} /\ unprepared = {} /\ overtaken = {}
    /\ process = [p \in Pids |-> "none"]
    /\ object \in [Objects -> {Absent, [state |-> "present", version |-> 1, marks |-> {Other}]}]
    /\ log = [i \in 1..MaxRuns |-> <<>>]
    /\ runs = 0 /\ faults = 0 /\ writes = 0

Work(w) == \/ Prepare(w) \/ Start(w) \/ Wait(w) \/ Unregister(w) \/ CallFails(w)
           \/ ExecuteCreate(w) \/ ExecuteFilter(w) \/ Get(w) \/ Update(w)
           \/ ExecutePatch(w) \/ ExecuteDelete(w) \/ Poll(w) \/ Finish(w)

Next == \/ \E w \in Workers : Work(w)
        \/ \E p \in Pids : Exit(p) \/ Reap(p)
        \/ \E o \in Objects : WriteByOthers(o) \/ Collect(o)

Spec == Init /\ [][Next]_vars

-----------------------------------------------------------------------------
(* Properties.                                                             *)

\* Files of a run that is over are gone, however it ended; only a Prepare that failed in the
\* middle leaves some behind (hookIOProvider.Prepare, the deferred Cleanup).
FilesRemoved ==
    \A f \in files : f[1] \in unprepared \/ \E w \in Workers : run[w] # Idle /\ run[w].id = f[1]

\* The reaper takes no child a worker waits for, unless the child got the pid of one whose
\* worker has not yet unregistered it: then that worker's unregisterPID removes the entry of
\* the new child (startAndRegister, the deferred unregisterPID).
ChildrenAreSpared ==
    \A w \in Workers : At(w, "wait") /\ process[run[w].pid] # "running" /\ run[w].pid \notin active
                          => w \in overtaken

\* Metrics and the response of a run are handed on only after every operation it asked for
\* has succeeded, in the order of the file (handleRunHook, ExecuteOperations).
PublishedWhenApplied ==
    [][\A w \in Workers : run[w] # Idle /\ run[w].id \in published' \ published =>
           log[run[w].id] = [i \in DOMAIN run[w].out.ops |-> i]]_vars

\* What others have written to an object is overwritten by CreateOrUpdate only: a filter that
\* raced another write begins again (executeFilterOperation, RetryOnConflict).
OthersWritesSurvive ==
    [][\A o \in Objects :
           object[o].state # "absent" /\ object'[o].state # "absent" /\ ~(object[o].marks \subseteq object'[o].marks) =>
           \E w \in Workers : At(w, "update") /\ Current(w).object = o /\ Current(w).updateIfExists]_vars

\* The patches of a status that ask for it are applied even if the hook fails (IgnoreHookError).
\* The code does not keep it: Run returns without the bytes of the operations.
StatusPatchedOnError ==
    [][\A w \in Workers : At(w, "unregister") /\ ~run[w].out.exit /\ run'[w] = Idle =>
           \A i \in DOMAIN run[w].out.ops : run[w].out.ops[i].ignoreHookError => Contains(log[run[w].id], i)]_vars
=============================================================================
