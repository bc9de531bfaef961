SPECIFICATION Fair
CONSTANTS
    j1 = j1 j2 = j2 j3 = j3 t1 = t1 t2 = t2
    Jobs = {j1, j3}
    Tasks = {t1, t2}
    TaskOf <- JobTasks
    First = {j1, j3}
    Requests = {r1}
    Supervisors = {s1, s2}
    None = None
    MaxSlots = 2
    ClosesDone = {t2}
    Kinds = {"submit", "query", "cancel", "resolve"}
    MaxFaults = 1
    Loads <- SlotLoads
PROPERTY SlotComesBack
