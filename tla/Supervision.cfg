SPECIFICATION FairSpec
CONSTANTS
    MaxAgents = 3
    MaxInputs = 3
    Mortal = {1}
    max_active_agents = 2
    command_capacity = 2
    RootBudget <- TwoByTwo
    Budgets <- SomeBudgets
    Unlimited = Unlimited
    Other = Other
    Session = Session
INVARIANTS
    CancelReachesSubtree
    RegistryIsCurrent
    EndsEnterOnce
    PermitsAccounted
PROPERTIES
    HangsOnlyByHoldAndWait
CHECK_DEADLOCK FALSE
