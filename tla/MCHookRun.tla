----------------------------- MODULE MCHookRun -----------------------------
(* HookRun for TLC: outputs that exercise each operation on one object. *)
EXTENDS HookRun

op(t) == [operation |-> t, object |-> "o", valid |-> TRUE, ignoreMissing |-> FALSE, ignoreHookError |-> FALSE]
out(ops) == [exit |-> TRUE, metrics |-> "ok", response |-> "ok", ops |-> ops]

mcOutputs ==
    {out(<<op("Delete"), op("Create")>>),
     out(<<op("CreateOrUpdate")>>),
     out(<<op("JQPatch"), op("DeleteInBackground")>>),
     out(<<op("CreateIfNotExists"), [op("JQPatch") EXCEPT !.ignoreMissing = TRUE]>>),
     [out(<<op("MergePatch")>>) EXCEPT !.metrics = "refused"],
     [out(<<[op("MergePatch") EXCEPT !.ignoreMissing = TRUE]>>) EXCEPT !.response = "bad"],
     out(<<op("JSONPatch"), [op("MergePatch") EXCEPT !.valid = FALSE]>>),
     [out(<<[op("MergePatch") EXCEPT !.ignoreHookError = TRUE]>>) EXCEPT !.exit = FALSE]}
=============================================================================
