SPECIFICATION MCSpec
CONSTANTS
    w1 = w1  w2 = w2  c1 = c1  c2 = c2
    Worker = {w1, w2}
    Master = Master
    Check = {c1, c2}
    Good = {c1}
    nBatchSize = 2
    s1 = s1  s2 = s2  f1 = f1  f2 = f2
    Server = {s1, s2}
    Task = {f1, f2}
    Every = {f1}
    Delta = 1
    Delay = {0, 1}
    MaxTime = 2
INVARIANTS
    ControllerFindsIdle TodoCounts SchedulerSound
PROPERTIES
    ImplementsSpec WaitReturns SchedulerServes
