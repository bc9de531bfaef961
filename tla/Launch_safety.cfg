SPECIFICATION LaunchSpec
CONSTANTS
    Callers = {l1}
    Operators = {o1, o2}
    MaxCrashes = 2
    MaxLosses = 2
    t1 = t1 t2 = t2 t3 = t3 w1 = w1 w2 = w2
    None = None
    Tasks = {t1, t2, t3}
    Workers = {w1, w2}
    Slots = {r1, r2}
    Members = {t1, t3}
    Cap = 1
    MaxDeaths = 1
    MaxForeign = 1
    MaxCancels = 1
    j1 = j1 a = a
    Jobs = {j1, j2}
    Launchers = {a, b}
    Runners = {r1, r2}
    SlotLimit = 1
    ParkAfter = 2
    MaxFaults = 2
    Tokens = {1, 2}
    Loads <- RaceLoads
    Fit <- FitTwo
    Ceiling <- OneEach
    MaxTurns <- NoSay
    QueueLoads <- ThreeTurns
SYMMETRY Symmetry
CHECK_DEADLOCK FALSE
INVARIANT DrainFence PauseFence OneRunnerPerTurn ExecutorAlone  RunCapKept
PROPERTY OlderFirst
