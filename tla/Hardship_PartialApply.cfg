SPECIFICATION Spec
CONSTANTS
    Requests = {r1}
    NItems = 2
    Total = 1
    Desks = {s1}
    Hooks = {s1}
    MaxDeferred = 2
    Window = 1
    None = None
    MaxDocs = 1
    MaxTime = 3
    MaxFaults = 0
INVARIANT TerminalAppliesNothing
