SPECIFICATION Spec
CONSTANTS
    t1 = t1
    a1 = a1
    g1 = g1
    Traces = {t1}
    Apps = {a1}
    NoApp = NoApp
    ConfigApp = NoApp
    Agents = {g1}
    Nil = Nil
    WaitEndService = TRUE
    Spans <- AcceptedSpans
    MaxSpans = 2
CHECK_DEADLOCK FALSE
INVARIANTS SuccessIsNoError
