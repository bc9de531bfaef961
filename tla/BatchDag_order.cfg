SPECIFICATION Fair
CONSTANTS
    a = a b = b A = A B = B
    Nodes = {1, 2, 3}
    Threads = {a, b}
    Procs = {A, B}
    None = None
    Owner <- TwoProcs
    Deps <- Chain
    From <- FromFirst
    AutoClose = {1, 3}
    Integrating = {2}
    MaxSays = 1
    MaxFaults = 1
    Spent <- EitherOne
CHECK_DEADLOCK FALSE
INVARIANT BoundToAccepted OneSubmitter
PROPERTY Settles
