\* Budgets tight enough that each of the five limits refuses somebody.
SPECIFICATION FairSpec
CONSTANTS
    e1 = e1
    e2 = e2
    c1 = c1
    actA = actA
    actB = actB
    Execs = {e1, e2}
    Checks = {c1}
    Actions = {actA, actB}
    ActionOf <- MCActionOf
    SamplesOf <- MCSamplesOf
    MaxToolCalls = 2
    MaxSemantic = 3
    MaxSpend = 8
    Cost = 3
    MaxElapsed = 2
    MaxRisky = 2
    Samples = {0, 1, 2}
    MaxTime = 2
    MaxExecution = 1
    LastArrival = 1
    LastSpawn = 2
INVARIANTS BudgetsHold SpendBooked NoOrphan
PROPERTIES NoLaunchWhenOver RiskyLimitEndsLaunches OverEndsChildren DeadlineEndsChildren
CHECK_DEADLOCK FALSE
