SPECIFICATION Spec
CONSTANTS
    j1 = j1 j2 = j2 j3 = j3 t1 = t1 t2 = t2
    Jobs = {j1}
    Tasks = {t1}
    TaskOf <- JobTasks
    First = {j1}
    Requests = {r1}
    Supervisors = {s1, s2}
    None = None
    MaxSlots = 1
    ClosesDone = {t1}
    Kinds = {"submit", "query", "cancel", "resolve"}
    MaxFaults = 1
    Loads <- OrphanLoads
SYMMETRY Symmetric
INVARIANT InstallationFirst
