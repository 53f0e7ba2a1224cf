SPECIFICATION AnswersSpec
CONSTANTS
    t1 = t1  t2 = t2  t3 = t3
    a1 = a1  a2 = a2
    g1 = g1  g2 = g2
    Traces = {t1, t2, t3}
    Apps = {a1, a2}
    NoApp = NoApp
    ConfigApp = NoApp
    Agents = {g1, g2}
    Nil = Nil
    WaitEndService = TRUE
    Spans <- TwoAppSpans
    Batches <- TwoAppBatches
    Encoding = "proto"
    TimeoutBufferTransaction = 1
    BadURLApps = {a2}
    Outcomes <- AnyOutcome
    MaxRetries = 1
    Epoch = 10
    MaxTime = 12
CHECK_DEADLOCK FALSE
INVARIANTS Routing KeptUntilTimeout
PROPERTIES PushReturns DeliversSpans
