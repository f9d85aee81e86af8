----------------------------- MODULE HookConfig -----------------------------
(***************************************************************************)
(* From the document a hook prints for --config to the bindings in force   *)
(* (pkg/hook/config): detection of the version, the schema, conversion of  *)
(* versions 0 and 1 to one structure, checks between fields, snapshots of  *)
(* groups.  A document is a record                                         *)
(*                                                                         *)
(*   version     value of configVersion, or Missing                        *)
(*   schema      it passes the OpenAPI schema of its version               *)
(*   settings    Missing, "ok" or "bad"                                    *)
(*   onStartup   Missing, "number" or "text"                               *)
(*   kubernetes, schedule, validating, mutating, conversion                *)
(*               sequences of bindings                                     *)
(*                                                                         *)
(* Checks of a single field (label selectors, jq programs, crontabs, names *)
(* and rules of webhooks) are one Boolean of a binding, wellFormed.        *)
(***************************************************************************)
EXTENDS Integers, Sequences, FiniteSets, SequencesExt

Missing == "missing"
Unnamed == ""
NoGroup == ""
NoQueue == ""
MainQueue == "main"

BindingTypes == {"onStartup", "schedule", "kubernetes", "kubernetesValidating",
                 "kubernetesMutating", "kubernetesCustomResourceConversion"}

-----------------------------------------------------------------------------
(* Conversion of a document.                                               *)

\* Versions that have a schema.
Schemas == {"v0", "v1"}

\* VersionValidator: no version stands for v0; a version needs a schema.
Version(doc) == IF doc.version = Missing THEN "v0" ELSE doc.version
Supported(doc) == Version(doc) \in Schemas

Or(value, empty, default) == IF value = empty THEN default ELSE value

\* ConvertOnStartup succeeds for a number and for no value.
GoodOnStartup(doc) == doc.onStartup # "text"

\* Bindings on objects.  Version 0 leaves the flags of synchronization unset; in version 1
\* they are set unless switched off, and waiting is switched off with a queue only.
KubernetesV0(b) ==
    [name |-> Or(b.name, Unnamed, "onKubernetesEvent"), includes |-> <<>>, queue |-> MainQueue,
     group |-> NoGroup, wait |-> FALSE, onSynchronization |-> FALSE]
KubernetesV1(b) ==
    [name |-> Or(b.name, Unnamed, "kubernetes"), includes |-> b.includes,
     queue |-> Or(b.queue, NoQueue, MainQueue), group |-> b.group,
     wait |-> ~(b.wait = "false" /\ b.queue # NoQueue),
     onSynchronization |-> b.onSynchronization # "false"]

\* ConvertSchedule.
ScheduleV0(b) == [name |-> Or(b.name, Unnamed, "schedule"), includes |-> <<>>,
                  queue |-> MainQueue, group |-> NoGroup]
ScheduleV1(b) == [name |-> Or(b.name, Unnamed, "schedule"), includes |-> b.includes,
                  queue |-> Or(b.queue, NoQueue, MainQueue), group |-> b.group]

\* convertValidating, convertMutating, ConvertConversion: names are required by the schema.
Webhook(b) == [name |-> b.name, includes |-> b.includes, group |-> b.group]

\* The bindings of a document, in their order.
KubernetesBindings(doc) ==
    [i \in DOMAIN doc.kubernetes |-> IF Version(doc) = "v0" THEN KubernetesV0(doc.kubernetes[i])
                                     ELSE KubernetesV1(doc.kubernetes[i])]
ScheduleBindings(doc) ==
    [i \in DOMAIN doc.schedule |-> IF Version(doc) = "v0" THEN ScheduleV0(doc.schedule[i])
                                   ELSE ScheduleV1(doc.schedule[i])]
WebhookBindings(bindings) == [i \in DOMAIN bindings |-> Webhook(bindings[i])]

\* Mutant: names that no binding has pass.
CheckIncludeSnapshotsRepeated(kubes, includes) ==
    \A n \in ToSet(includes) : Cardinality({i \in DOMAIN kubes : kubes[i].name = n}) <= 1

\* CheckIncludeSnapshots: a name belongs to one binding on objects.
CheckIncludeSnapshots(kubes, includes) ==
    \A n \in ToSet(includes) : Cardinality({i \in DOMAIN kubes : kubes[i].name = n}) = 1

\* CheckOnKubernetesEvent, CheckSchedule, CheckAdmission, CheckConversion.
Checked(kubes, bindings) ==
    \A b \in ToSet(bindings) : b.wellFormed /\ CheckIncludeSnapshots(kubes, b.includes)

\* ValidateValidatingWebhooks: names are unique; nothing of the kind for mutating webhooks.
ValidWebhooks(bindings) ==
    \A i, j \in DOMAIN bindings : bindings[i].name = bindings[j].name => i = j

\* MergeArrays: names of the second array that are not there yet are added.
MergeArrays(a1, a2) ==
    LET merged[i \in 0..Len(a2)] ==
            IF i = 0 THEN a1
            ELSE IF Contains(merged[i - 1], a2[i]) THEN merged[i - 1] ELSE Append(merged[i - 1], a2[i])
    IN merged[Len(a2)]

\* The elements of s at the positions in I, in their order.
Kept(s, I) ==
    LET kept[i \in 0..Len(s)] ==
            IF i = 0 THEN <<>> ELSE IF i \in I THEN Append(kept[i - 1], s[i]) ELSE kept[i - 1]
    IN kept[Len(s)]

\* groupSnapshots of ConvertAndCheck: the names of bindings on objects in a group.
GroupSnapshots(kubes, g) ==
    LET ofGroup == Kept(kubes, {i \in DOMAIN kubes : kubes[i].group = g}) IN [i \in DOMAIN ofGroup |-> ofGroup[i].name]

\* Every binding of a group gets the snapshots of the group's bindings on objects.
Grouped(kubes, bindings) ==
    [i \in DOMAIN bindings |->
        IF bindings[i].group = NoGroup THEN bindings[i]
        ELSE [bindings[i] EXCEPT !.includes = MergeArrays(@, GroupSnapshots(kubes, bindings[i].group))]]

-----------------------------------------------------------------------------
(* The configuration in force, and when a document has one.                *)

ConfigV0(doc) ==
    [version |-> "v0", onStartup |-> doc.onStartup, settings |-> Missing,
     kubernetes |-> KubernetesBindings(doc),
     schedule |-> ScheduleBindings(doc),
     kubernetesValidating |-> <<>>, kubernetesMutating |-> <<>>,
     kubernetesCustomResourceConversion |-> <<>>]

\* In version 0 a schedule and the names of events are checked, includes do not exist.
GoodV0(doc) == /\ GoodOnStartup(doc)
               /\ \A b \in ToSet(doc.schedule) \cup ToSet(doc.kubernetes) : b.wellFormed

ConfigV1(doc) ==
    LET kubes == KubernetesBindings(doc) IN
    [version |-> "v1", onStartup |-> doc.onStartup, settings |-> doc.settings,
     kubernetes |-> Grouped(kubes, kubes),
     schedule |-> Grouped(kubes, ScheduleBindings(doc)),
     kubernetesValidating |-> Grouped(kubes, WebhookBindings(doc.validating)),
     kubernetesMutating |-> Grouped(kubes, WebhookBindings(doc.mutating)),
     kubernetesCustomResourceConversion |-> Grouped(kubes, WebhookBindings(doc.conversion))]

GoodV1(doc) ==
    LET kubes == KubernetesBindings(doc) IN
    /\ doc.settings # "bad" /\ GoodOnStartup(doc)
    /\ \A part \in {doc.kubernetes, doc.schedule, doc.validating, doc.mutating, doc.conversion} :
          Checked(kubes, part)
    /\ ValidWebhooks(doc.validating)

\* ValidateConfig, against the OpenAPI schema of the version.
ValidateConfig(doc) == doc.schema

\* LoadAndValidate: whether the document is accepted, and what it stands for.
Accepted(doc) ==
    /\ Supported(doc)
    /\ ValidateConfig(doc)
    /\ IF Version(doc) = "v0" THEN GoodV0(doc) ELSE GoodV1(doc)
Config(doc) == IF Version(doc) = "v0" THEN ConfigV0(doc) ELSE ConfigV1(doc)

\* HasBinding.
HasBinding(cfg, type) ==
    IF type = "onStartup" THEN cfg.onStartup # Missing ELSE cfg[type] # <<>>
=============================================================================
