----------------------------- MODULE MCOperator ----------------------------
(* Two hooks share a crontab and a queue; one of them has an onStartup and a *)
(* kubernetes binding.                                                       *)
EXTENDS Operator

CONSTANTS hookA, hookB, minute

mcHookPaths == <<hookA, hookB>>
mcStartupHooks == <<hookA>>
mcKubeBindings == <<[hook |-> hookA, queue |-> "q"]>>
mcScheduleBindings == <<[hook |-> hookA, crontab |-> minute, queue |-> "main"],
                        [hook |-> hookB, crontab |-> minute, queue |-> "q"]>>
=============================================================================
