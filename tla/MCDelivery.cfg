\* One generic request beside a surface handoff, three attempts, under fair passes.
SPECIFICATION FairSpec
CONSTANTS
    NumRequests = 2
    Surface <- SecondSurface
    RetryBudget = 3
    MaxCrashes = 2
INVARIANTS
    TypeOK
    BudgetAccounting
    DuplicatesNeedPrematureAnswers
    LabelsAreTrue
    PassNeverAborts
PROPERTIES
    ImplementsContract
    EveryRequestFinishes
\* Every request may be finished: then there is nothing left to do.
CHECK_DEADLOCK FALSE
