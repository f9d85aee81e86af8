CONSTANTS
    hookA = hookA
    hookB = hookB
    minute = minute
    HookPaths <- mcHookPaths
    StartupHooks <- mcStartupHooks
    KubeBindings <- mcKubeBindings
    ScheduleBindings <- mcScheduleBindings
    Webhooks = {"admission"}
    MaxStimuli = 2
SPECIFICATION FairSpec
INVARIANTS StartupFirst TasksHaveQueues CronServesLinks OnlySendersRemain
PROPERTIES FiredIsTaken ShutdownReturns
CHECK_DEADLOCK FALSE
