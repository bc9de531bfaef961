SPECIFICATION StorageFair
CONSTANTS
    Workers = {k1}
    None = None
    Streams = {"out"}
    StreamLen = 2
    MaxLines = 1
    Writers = {w1, w2}
    MaxFaults = 2
    MaxPower = 1
    Spent <- EitherTrouble
    Files = {f1, f2}
    p1 = p1 p2 = p2
    Processes = {p1, p2}
    Loads <- RemoverLoads
    MaxTroubles = 2
CHECK_DEADLOCK FALSE
INVARIANT NeverCorrupt ShownIsKept Truthful
PROPERTY AppendsAreAtomic PendingCompletes KeepsPromise ResidueCleared
