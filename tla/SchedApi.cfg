SPECIFICATION Spec
CONSTANTS
    NumTasks = 3
    MaxTasks = 16
    MaxPrio = 31
    Quantum = 2
    Prio <- ApiPrio
    Period <- ApiPeriod
    Calls <- ApiCalls
    Delays = {2}
    Horizon = 6
    NewPrios = {0, 40}
    Prompt = {}
INVARIANTS TypeOK RunningIsCurrent FreshFrames
PROPERTIES StrictPriority
