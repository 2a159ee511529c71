CONSTANTS
    ToolCalls = {c1, c2}
    NoCall = NoCall
    MaxMessages = 5
SPECIFICATION Spec
INVARIANTS
    ValidateMatchesReference
    RepairIsValid
    RepairKeepsOutcomes
CHECK_DEADLOCK FALSE
