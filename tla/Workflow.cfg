SPECIFICATION FairSpec
CONSTANTS
    input = input
    draft = draft
    fallback = fallback
    review = review
    approve = approve
    output = output
    Nodes <- FlowNodes
    kind <- FlowKind
    OnSuccess <- FlowSuccess
    OnFailure <- FlowFailure
    retry_target <- FlowTargets
    max_attempts <- FlowAttempts
    retry_on <- FlowRetryOn
    max_revisions = 1
    revise_on_notes = TRUE
    max_total_attempts = 7
    max_tokens = 2
    None = None
    max_elapsed = TRUE
    stall_timeout = TRUE
    timeout = {approve}
    Signals <- FlowSignals
    MaxFaults = 1
    MaxControls = 1
    Cancels = TRUE
INVARIANTS
    OneStepAtATime
    ResultsAreCurrent
    EveryAttemptIsOnRecord
    
PROPERTIES
    NoBlindRerun
    
CHECK_DEADLOCK FALSE
