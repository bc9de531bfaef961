SPECIFICATION QueueFair
CONSTANTS
    t1 = t1 t2 = t2 t3 = t3 w1 = w1 w2 = w2
    Tasks = {t1, t2, t3}
    Workers = {w1, w2}
    Slots = {s1, s2}
    None = None
    Fit <- FitTwo
    Members = {t1, t3}
    Cap = 1
    Ceiling <- OneEach
    MaxTurns <- OneSay
    MaxDeaths = 1
    MaxForeign = 1
    MaxCancels = 1
    QueueLoads <- FairLoads
CHECK_DEADLOCK FALSE
PROPERTY TurnDispatched
