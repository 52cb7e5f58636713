SPECIFICATION HarnessSpec
CONSTANTS
    f = f
    File = {f}
    MaxInvocations = 2
    Absent = Absent
    Plans <- TwoPlans
    Refusals = 2
INVARIANTS
    CleanedUp
CHECK_DEADLOCK FALSE
