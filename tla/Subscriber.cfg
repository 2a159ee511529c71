SPECIFICATION FairSpec
CONSTANTS
    root = root
    helper = helper
    Receivers <- TwoAgents
    Commands = {"start", "stream"}
    policy = "Strict"
    snapshot_every = 0
    MaxSequence = 3
    MaxEpochs = 2
    MaxCheckpoints = 0
    AgentCapacity = 2
    SubscriberCapacity = 1
    MaxSubscriptions = 2
INVARIANTS
    PublishedIsStored
    NoDuplicates
    

    
CHECK_DEADLOCK FALSE
