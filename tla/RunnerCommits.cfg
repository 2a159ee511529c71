SPECIFICATION Spec
CONSTANTS
    t1 = t1
    t2 = t2
    p1 = p1
    p2 = p2
    check = check
    verdict = verdict
    NoCall = NoCall
    ToolCalls = {t1}
    SessionMode <- OneAsked
    Inputs = {i1, i2, i3}
    Oversized = {i3}
    Profiles <- PlainProfiles
    DefaultProfile = p1
    NoProfile = NoProfile
    Unlimited = Unlimited
    Limits <- PlainLimits
    NoGate = NoGate
    Gate <- BothGated
    Scope <- PlainScope
    ProfileMode <- PlainProfileMode
    Rules <- PlainRules
    MAX_CONSECUTIVE_TOOL_TIMEOUTS = 2
    FINAL_TURN_GRACE = 1
    MAX_SWITCHES_PER_RUN = 1
    Children = {}
    SpawnCalls = {}
    LongLived = TRUE
    StrictCommits = TRUE
    HostCommands = {"Cancel", "CloseMailbox", "CancelSession"}
    MaxControls = 1
INVARIANTS
    TranscriptIsSound
    NoWorkOutlivesTheLoop
    OnlyCurrentVerdictCounts
PROPERTIES
    InputsServedInOrder
CHECK_DEADLOCK FALSE
