SPECIFICATION OutboxFair
CONSTANTS
    t1 = t1 t2 = t2
    Turns = {t1, t2}
    None = None
    Histories <- LineOrFork
    MaxAttempts = 2
    MaxCommands = 1
    MaxFaults = 2
INVARIANT OwedIsIndexed
PROPERTY DeliveriesKept DeliverySettles
