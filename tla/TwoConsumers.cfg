SPECIFICATION Spec
CONSTANTS
    t1 = t1  t2 = t2  a1 = a1  c1 = c1  c2 = c2
    Traces = {t1, t2}
    Apps = {a1}
    NoApp = NoApp
    ConfigApp = NoApp
    Agents = {}
    Nil = Nil
    WaitEndService = FALSE
    Consumers = {c1, c2}
    Batches <- MCBatches
    MaxObjects = 2
CHECK_DEADLOCK FALSE
INVARIANT PacketIdsDistinct
