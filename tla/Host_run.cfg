SPECIFICATION HostSpec
CONSTANTS
    j1 = j1 j2 = j2 j3 = j3 t1 = t1 t2 = t2
    Jobs = {j1, j2}
    Tasks = {t1}
    TaskOf <- JobTasks
    First = {j1}
    Requests = {r1, r2}
    Supervisors = {s1, s2, s3}
    None = None
    MaxSlots = 1
    ClosesDone = {}
    Kinds = {"submit", "query", "cancel", "resolve"}
    MaxFaults = 2
    Turns = {t1}
    MaxPassFaults = 1
    Loads <- TaskLoads
SYMMETRY Symmetric
INVARIANT AgentCovered  OwedKept OpenTaskWhole
PROPERTY LiveTurnKept LeasedUntouched
