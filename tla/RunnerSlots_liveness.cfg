SPECIFICATION FairSpec
CONSTANTS
    j1 = j1
    Jobs = {j1, j2}
    Launchers = {a}
    Runners = {r1, r2}
    None = None
    SlotLimit = 1
    ParkAfter = 2
    MaxFaults = 2
    Tokens = {1, 2}
    Loads <- FairLoads
CHECK_DEADLOCK FALSE
PROPERTY TurnSettles
