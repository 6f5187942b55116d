SPECIFICATION FairSpec
CONSTANTS
    Tasks = {t1}
    Workers = {w1, w2}
    TimeLimit = 1
    Margin = 2
    Slack = 1
    MaxRedeliveries = 2
    None = None
INVARIANTS
    OneRunAtATime
    SucceededMeansRan
PROPERTIES
    QueuedNeverReturns
    HeldLockIsFreed
