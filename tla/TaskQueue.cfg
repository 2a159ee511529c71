SPECIFICATION FairSpec
CONSTANTS
    t1 = t1
    t2 = t2
    Repair = Repair
    None = None
    Tasks <- TwoTasks
    DependsOn <- InARow
    FlowTasks = {t2}
    max_repairs = 1
    HasPlanner = TRUE
    Steps = 2
    on_task_failure = "Ask"
    plan_revisable = TRUE
    MaxFeedback = 1
    MaxFaults = 1
INVARIANTS
    
    
    EveryRequestIsAnswered
PROPERTIES
    QueueComesToRest
CHECK_DEADLOCK FALSE
