SPECIFICATION LoopingSpec
CONSTANTS
    NumTasks = 3
    MaxTasks = 16
    MaxPrio = 31
    Quantum = 2
    Prio <- KernPrio
    Period <- KernPeriod
    Calls <- KernCalls
    Delays = {0, 1, 2}
    Horizon = 6
    NewPrios = {}
    Prompt <- All
INVARIANTS NoEarlyReturn ReleaseNear RealTime
PROPERTIES SleepReturns
