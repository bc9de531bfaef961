SPECIFICATION Fair
CONSTANTS
    t1 = t1 t2 = t2 p1 = p1 p2 = p2 p3 = p3
    Tasks = {t1, t2}
    Procs = {p1, p2, p3}
    None = None
    Runner = Runner
    Frozen = {t2}
    MaxFaults = 2
    MaxWorking = 1
    Loads <- CrashLoads
CHECK_DEADLOCK FALSE
INVARIANT NothingOrphaned 
PROPERTY MarkersResolved SubmittedRuns
