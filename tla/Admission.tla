------------------------------ MODULE Admission ------------------------------
(***************************************************************************)
(* Loading of hooks and admission webhooks: hook.Manager.Init loads hooks  *)
(* in the order of their paths and puts them in its indexes; bindings of   *)
(* validating and mutating webhooks become links of the hooks' controllers *)
(* (AdmissionBindingsController) and entries of two resources (pkg/webhook/*)
(* admission), which are submitted to the API server, with retries, once   *)
(* the server listens.  Reviews are routed by the path of their URL to a   *)
(* hook, which runs synchronously (AdmissionEventHandler).                 *)
(*                                                                         *)
(* What was registered outlives the process: the process may fail or crash *)
(* at any time and is started again, perhaps with other hooks.             *)
(***************************************************************************)
EXTENDS HookConfig

CONSTANTS
    HookPaths,       \* hooks in the order of their paths, a sequence
    Documents,       \* documents a hook may print
    SafeURLString,   \* ids of names; different names may have the same id
    Requests,        \* goroutines that serve reviews
    SubmitRetries,   \* submitMaxRetries
    MaxFaults,       \* bound: failures of the environment, crashes included
    MaxDeploys,      \* bound: starts with other hooks
    MaxReviews       \* bound: reviews in all

Unreadable == [version |-> "none"]   \* --config ends with an error
IsSequence(s) == s \in Seq(ToSet(s))

\* A document that could be read is as the schema of the configuration has it: arrays of
\* bindings, each with an array of names of snapshots.
ASSUME AdmissionAssumption ==
    /\ IsSequence(HookPaths)
    /\ \A d \in Documents : d # Unreadable =>
          \A part \in {d.kubernetes, d.schedule, d.validating, d.mutating, d.conversion} :
              IsSequence(part) /\ \A b \in ToSet(part) : IsSequence(b.includes)

VARIABLES
    documents,   \* what the hooks on disk print
    phase,       \* main goroutine: "load", "enable", "listen", "list", "write",
                 \* "backoff", "serve", "failed"
    loaded,      \* local indexes of Manager.Init
    index,       \* the indexes of the hook manager: names, hooksByName (a hook is its
                 \* configuration), hooksInOrder by type of binding
    links,       \* AdmissionLinks by hook: id -> [type, name]
    resources,   \* ValidatingResources and MutatingResources: id -> [hook, name, includes]
    submitting,  \* the resource being submitted: [type, attempts]
    registered,  \* configurations in the API server, {} or one: id -> [hook, name, includes]
    request,     \* reviews being served
    faults, deploys, reviews   \* used so far

counters == <<faults, deploys, reviews>>
setup == <<documents, loaded, index, links, resources>>
vars == <<setup, phase, submitting, registered, request, counters>>

Hooks == ToSet(HookPaths)
Validating == "kubernetesValidating"
Mutating == "kubernetesMutating"
WebhookTypes == {Validating, Mutating}
Nothing == [id \in {} |-> {}]
Idle == [at |-> "idle"]
EmptyIndex == [names |-> <<>>, hooksByName |-> Nothing, hooksInOrder |-> [t \in BindingTypes |-> <<>>]]

Loads(doc) == doc # Unreadable /\ Accepted(doc)

-----------------------------------------------------------------------------
(* Manager.Init.                                                           *)

\* A hook in the indexes, behind the others that have a binding of the same type.
Indexed(ix, h, cfg) ==
    [names |-> Append(ix.names, h),
     hooksByName |-> [g \in DOMAIN ix.hooksByName \cup {h} |-> IF g = h THEN cfg ELSE ix.hooksByName[g]],
     hooksInOrder |-> [t \in BindingTypes |-> IF HasBinding(cfg, t) THEN Append(ix.hooksInOrder[t], h)
                                              ELSE ix.hooksInOrder[t]]]

\* loadHook: --config, conversion and checks, the controller.
LoadHook ==
    /\ phase = "load" /\ Len(loaded.names) < Len(HookPaths)
    /\ LET h == HookPaths[Len(loaded.names) + 1] IN
       IF Loads(documents[h])
       THEN loaded' = Indexed(loaded, h, Config(documents[h])) /\ phase' = phase
       ELSE loaded' = loaded /\ phase' = "failed"
    /\ UNCHANGED <<documents, index, links, resources, submitting, registered, request, counters>>

\* The indexes are replaced under indexMu.
SwapIndex ==
    /\ phase = "load" /\ Len(loaded.names) = Len(HookPaths)
    /\ index' = loaded
    /\ phase' = "enable"
    /\ UNCHANGED <<documents, loaded, links, resources, submitting, registered, request, counters>>

\* GetHook and GetHooksInOrder.
GetHook(h) == index.hooksByName[h]
GetHooksInOrder(type) == index.hooksInOrder[type]

-----------------------------------------------------------------------------
(* initValidatingWebhookManager.                                           *)

\* The ids of bindings, and the binding that has the last word for an id: links and entries
\* of a resource are set one after the other.
IdsOf(bindings) == {SafeURLString[b.name] : b \in ToSet(bindings)}
LastWith(bindings, id) == bindings[Max({i \in DOMAIN bindings : SafeURLString[bindings[i].name] = id})]

\* EnableValidatingBindings, then EnableMutatingBindings: the links of a hook.
LinksOf(h) ==
    LET cfg == GetHook(h) IN
    [id \in IdsOf(cfg[Validating]) \cup IdsOf(cfg[Mutating]) |->
        LET t == IF id \in IdsOf(cfg[Mutating]) THEN Mutating ELSE Validating
        IN [type |-> t, name |-> LastWith(cfg[t], id).name]]

\* Hooks to enable: a hook with bindings of both types comes twice.
HooksToEnable == GetHooksInOrder(Validating) \o GetHooksInOrder(Mutating)

\* AddValidatingWebhook, AddMutatingWebhook: the entries of a resource.
Entry(order, type, id) ==
    LET h == order[Max({i \in DOMAIN order : id \in IdsOf(GetHook(order[i])[type])})]
        b == LastWith(GetHook(h)[type], id)
    IN [hook |-> h, name |-> b.name, includes |-> b.includes]

EnableAll(order) ==
    /\ links' = [h \in Hooks |-> IF Contains(order, h) THEN LinksOf(h) ELSE Nothing]
    /\ resources' = [t \in WebhookTypes |->
                        [id \in UNION {IdsOf(GetHook(h)[t]) : h \in ToSet(order)} |-> Entry(order, t, id)]]

\* WebhookManager.Init, which reads the CA bundle, then EnableAdmissionBindings for the hooks.
EnableAdmissionBindings ==
    /\ phase = "enable"
    /\ \/ HooksToEnable = <<>> /\ phase' = "serve" /\ UNCHANGED <<links, resources, faults>>
       \/ HooksToEnable # <<>> /\ EnableAll(HooksToEnable) /\ phase' = "listen" /\ faults' = faults
       \/ HooksToEnable # <<>> /\ faults < MaxFaults
          /\ phase' = "failed" /\ faults' = faults + 1 /\ UNCHANGED <<links, resources>>
    /\ UNCHANGED <<documents, loaded, index, submitting, registered, request, deploys, reviews>>

Submit(type) == [type |-> type, attempts |-> 0]

\* The resource after those of a type, as Start goes through the two maps.
ProceedAfter(types) ==
    LET left == {t \in WebhookTypes \ types : resources[t] # Nothing} IN
    IF left = {} THEN phase' = "serve" /\ UNCHANGED submitting
    ELSE /\ phase' = "list"
         /\ submitting' = Submit(IF Validating \in left THEN Validating ELSE Mutating)

\* WebhookServer.Start: certificates and the port may fail it.
StartServer ==
    /\ phase = "listen"
    /\ \/ ProceedAfter({}) /\ faults' = faults
       \/ faults < MaxFaults /\ faults' = faults + 1 /\ phase' = "failed" /\ UNCHANGED submitting
    /\ UNCHANGED <<setup, registered, request, deploys, reviews>>

\* Mutant: a resource that could not be submitted is passed over.
SubmitFailsIgnored ==
    /\ faults < MaxFaults /\ faults' = faults + 1
    /\ IF submitting.attempts < SubmitRetries
       THEN phase' = "backoff" /\ submitting' = [submitting EXCEPT !.attempts = @ + 1]
       ELSE ProceedAfter({Validating, submitting.type})
    /\ UNCHANGED <<setup, request, deploys, reviews>>

\* An attempt of submit fails; WithBackoff waits or gives up.
SubmitFails ==
    /\ faults < MaxFaults /\ faults' = faults + 1
    /\ IF submitting.attempts < SubmitRetries
       THEN phase' = "backoff" /\ submitting' = [submitting EXCEPT !.attempts = @ + 1]
       ELSE phase' = "failed" /\ UNCHANGED submitting
    /\ UNCHANGED <<setup, request, deploys, reviews>>

\* submit: list, then create or update, which no one else does.
SubmitList ==
    /\ phase = "list"
    /\ UNCHANGED registered
    /\ \/ phase' = "write" /\ UNCHANGED <<setup, submitting, request, counters>>
       \/ SubmitFails

\* A write may be applied and fail for the client, whose answer is lost.
SubmitWrite ==
    LET written == [registered EXCEPT ![submitting.type] = {resources[submitting.type]}] IN
    /\ phase = "write"
    /\ \/ /\ registered' = written
          /\ ProceedAfter({Validating, submitting.type})
          /\ UNCHANGED <<setup, request, counters>>
       \/ registered' \in {registered, written} /\ SubmitFails

Backoff ==
    /\ phase = "backoff"
    /\ \/ phase' = "list" /\ faults' = faults
       \/ faults < MaxFaults /\ faults' = faults + 1 /\ phase' = "failed"   \* the context is cancelled
    /\ UNCHANGED <<setup, submitting, registered, request, deploys, reviews>>

-----------------------------------------------------------------------------
(* Reviews.                                                                *)

Listening == phase \in {"list", "write", "backoff", "serve"} /\ \E t \in WebhookTypes : resources[t] # Nothing

\* serveReviewRequest: the API server calls a webhook it has; a body may be broken.
ReceiveReview(q) ==
    /\ Listening /\ reviews < MaxReviews /\ request[q].at \in {"idle", "answered"}
    /\ \E t \in WebhookTypes : \E conf \in registered[t] : \E id \in DOMAIN conf :
          \/ request' = [request EXCEPT ![q] = [at |-> "route", type |-> t, id |-> id]]
          \/ request' = [request EXCEPT ![q] = [at |-> "answered", type |-> t, id |-> id,
                                                hook |-> {}, allowed |-> FALSE, outcome |-> "bad request"]]
    /\ reviews' = reviews + 1
    /\ UNCHANGED <<setup, phase, submitting, registered, faults, deploys>>

\* CanHandleEvent: all bindings of a hook belong to one configuration id.
CanHandleEvent(h, id) == id \in DOMAIN links[h]

\* Mutant: validating webhooks are asked last.
AskedHooksReversed == GetHooksInOrder(Mutating) \o GetHooksInOrder(Validating)

\* HandleAdmissionEvent: the hooks asked, and the places of those that make a task.
AskedHooks == GetHooksInOrder(Validating) \o GetHooksInOrder(Mutating)
HandlersOf(id) == {i \in DOMAIN AskedHooks : CanHandleEvent(AskedHooks[i], id)}

\* getIncludeSnapshotsFrom: the first binding of that name.
IncludesFor(h, link) ==
    LET bs == GetHook(h)[link.type] IN
    bs[CHOOSE i \in DOMAIN bs : bs[i].name = link.name /\ \A j \in 1..(i - 1) : bs[j].name # link.name].includes

Answer(q, hook, outcome) ==
    request' = [request EXCEPT ![q] = [at |-> "answered", type |-> @.type, id |-> @.id,
                                       hook |-> hook, allowed |-> outcome = "allowed", outcome |-> outcome]]

\* Mutant: a review no hook handles does not stop the object.
NoHookFoundAllowed(q) ==
    /\ HandlersOf(request[q].id) = {}
    /\ Answer(q, {}, "allowed")

\* No task was made: the error becomes a denial.
NoHookFound(q) ==
    /\ HandlersOf(request[q].id) = {}
    /\ Answer(q, {}, "error")

\* AdmissionEventHandler.Handle up to the run of the hook: the task made last is kept.
RouteReview(q) ==
    /\ request[q].at = "route"
    /\ \/ NoHookFound(q)
       \/ /\ HandlersOf(request[q].id) # {}
          /\ LET h == AskedHooks[Max(HandlersOf(request[q].id))]
                 link == links[h][request[q].id]
             IN request' = [request EXCEPT ![q] = [at |-> "run", type |-> @.type, id |-> @.id,
                               hook |-> h, name |-> link.name, includes |-> IncludesFor(h, link)]]
    /\ UNCHANGED <<setup, phase, submitting, registered, counters>>

\* The hook has run: it failed, or the wait for its rate was cut or it left no response
\* (an error), or it answered.
FinishReview(q) ==
    /\ request[q].at = "run"
    /\ \E outcome \in {"failed", "error", "denied", "allowed"} : Answer(q, {request[q].hook}, outcome)
    /\ UNCHANGED <<setup, phase, submitting, registered, counters>>

-----------------------------------------------------------------------------
(* Crashes and starts (external).                                          *)

Fresh ==
    /\ loaded' = EmptyIndex /\ index' = EmptyIndex
    /\ links' = [h \in Hooks |-> Nothing]
    /\ resources' = [t \in WebhookTypes |-> Nothing]
    /\ submitting' = Submit(Validating)
    /\ request' = [q \in Requests |-> Idle]

Crash ==
    /\ phase # "failed" /\ faults < MaxFaults
    /\ faults' = faults + 1 /\ phase' = "failed"
    /\ request' = [q \in Requests |-> Idle]
    /\ UNCHANGED <<setup, submitting, registered, deploys, reviews>>

Restart ==
    /\ phase = "failed" /\ phase' = "load" /\ Fresh
    /\ UNCHANGED <<documents, registered, counters>>

Redeploy ==
    /\ deploys < MaxDeploys /\ deploys' = deploys + 1
    /\ \E h \in Hooks, d \in Documents : documents' = [documents EXCEPT ![h] = d]
    /\ phase' = "load" /\ Fresh
    /\ UNCHANGED <<registered, faults, reviews>>

-----------------------------------------------------------------------------

Init ==
    /\ documents \in [Hooks -> Documents]
    /\ phase = "load" /\ loaded = EmptyIndex /\ index = EmptyIndex
    /\ links = [h \in Hooks |-> Nothing]
    /\ resources = [t \in WebhookTypes |-> Nothing]
    /\ submitting = Submit(Validating)
    /\ registered = [t \in WebhookTypes |-> {}]
    /\ request = [q \in Requests |-> Idle]
    /\ faults = 0 /\ deploys = 0 /\ reviews = 0

Main == LoadHook \/ SwapIndex \/ EnableAdmissionBindings \/ StartServer \/ SubmitList \/ SubmitWrite \/ Backoff
Serve(q) == RouteReview(q) \/ FinishReview(q)
Next == Main \/ Crash \/ Restart \/ Redeploy \/ \E q \in Requests : ReceiveReview(q) \/ Serve(q)

Spec == Init /\ [][Next]_vars

\* The main goroutine runs, and a process that ended is started again.
FairSpec == Spec /\ WF_vars(Main) /\ WF_vars(Restart) /\ \A q \in Requests : WF_vars(Serve(q))

-----------------------------------------------------------------------------
(* Properties.                                                             *)

AllBindings(cfg) == UNION {ToSet(cfg[t]) : t \in BindingTypes \ {"onStartup"}}

\* Whatever a hook was accepted with, a binding includes snapshots of bindings on objects of
\* its own hook only: the names checked and those that come from groups (CheckIncludeSnapshots,
\* ConvertAndCheck).
SnapshotsExist ==
    \A h \in DOMAIN index.hooksByName : LET cfg == GetHook(h) IN
        \A b \in AllBindings(cfg) : \A n \in ToSet(b.includes) : \E k \in ToSet(cfg.kubernetes) : k.name = n

\* A mutating webhook's name is given once in its hook: nothing checks it.
NamesUnique(h, t) == ValidWebhooks(GetHook(h)[t])

\* A review of a webhook in force is run by the hook whose rules were registered for it, and
\* with the snapshots of that binding, although ids are made of names and hooks are free to
\* use the same ones: resources and tasks are filled in orders that agree.  Not so when an id
\* is used by webhooks of both types, or a mutating name twice in a hook.
RegistrantAnswers ==
    \A q \in Requests :
        request[q].at = "run" =>
            LET t == request[q].type
                id == request[q].id
            IN /\ id \in DOMAIN resources[t]
               /\ id \notin DOMAIN resources[CHOOSE u \in WebhookTypes : u # t]
               => /\ request[q].hook = resources[t][id].hook
                  /\ NamesUnique(request[q].hook, t)
                     => request[q].name = resources[t][id].name /\ request[q].includes = resources[t][id].includes

\* An object is let through only by a hook that ran for this review, said so, and is loaded
\* with a webhook of that id: a webhook that stayed registered after its hook was removed, a
\* failed run, a missing response and a broken body all deny (AdmissionEventHandler.Handle,
\* errored).
FailClosed ==
    \A q \in Requests :
        request[q].at = "answered" /\ request[q].allowed =>
            \E h \in request[q].hook : \E t \in WebhookTypes :
                \E b \in ToSet(GetHook(h)[t]) : SafeURLString[b.name] = request[q].id

WebhooksIn(doc, t) ==
    IF Version(doc) = "v0" THEN <<>> ELSE IF t = Validating THEN doc.validating ELSE doc.mutating
Declared(t) == UNION {IdsOf(WebhooksIn(documents[h], t)) : h \in Hooks}

InForce ==
    /\ phase = "serve"
    /\ \A t \in WebhookTypes : Declared(t) # {} => \E conf \in registered[t] : DOMAIN conf = Declared(t)

\* If every hook has a good configuration, all its webhooks end up registered and served,
\* whatever failed on the way: API calls, certificates, the process (submit, WithBackoff).
RegistrationConverges ==
    (\A h \in Hooks : Loads(documents[h])) ~> (InForce \/ \E h \in Hooks : ~Loads(documents[h]))
=============================================================================
