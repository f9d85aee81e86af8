---------------------------- MODULE MCTaskQueue ----------------------------
(* Instances of TaskQueue for TLC: sets of bindings and the hooks that are  *)
(* bootstrapped.                                                            *)
EXTENDS TaskQueue

CONSTANTS h1, h2, g1

B(h, g, allow, exec) == [hook |-> h, group |-> g, allow |-> allow, exec |-> exec]

\* One hook with a plain and a grouped binding.
MixedBindings == <<B(h1, NoGroup, FALSE, TRUE), B(h1, g1, FALSE, TRUE)>>
\* A hook without groups and a hook with a group that is allowed to fail.
TwoHooks == <<B(h1, NoGroup, FALSE, TRUE), B(h2, g1, TRUE, TRUE)>>
\* Two hooks without groups.
PlainBindings == <<B(h1, NoGroup, FALSE, TRUE), B(h2, NoGroup, FALSE, TRUE)>>
\* One hook, one plain binding.
OneBinding == <<B(h1, NoGroup, FALSE, TRUE)>>
\* One hook: a plain binding, one that is not run on Synchronization, a group of two.
SyncBindings == <<B(h1, NoGroup, FALSE, TRUE), B(h1, NoGroup, FALSE, FALSE),
                  B(h1, g1, FALSE, TRUE), B(h1, g1, FALSE, TRUE)>>
\* One hook: a binding that is allowed to fail and one that is not.
AllowMixed == <<B(h1, NoGroup, TRUE, TRUE), B(h1, NoGroup, FALSE, TRUE)>>
\* One hook: a binding that is run on Synchronization and one that is not.
ExecMixed == <<B(h1, NoGroup, FALSE, TRUE), B(h1, NoGroup, FALSE, FALSE)>>
\* One hook: a binding that may fail and is not run on Synchronization, and a strict one.
AllMixed == <<B(h1, NoGroup, TRUE, FALSE), B(h1, NoGroup, FALSE, TRUE)>>

NoStartup == <<>>
StartupOne == <<h1>>
=============================================================================
