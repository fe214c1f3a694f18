SPECIFICATION Spec
CONSTANTS
    Keys = {web, bot}
    Codes <- MCCodes
    CodeOf <- MCCodeOf
    PeriodTicks = 2
    FailureWindow = 3
    MaxFailures = 2
    MaxTime = 4
    MaxResets = 1
    MaxRestarts = 1
    MaxAttempts = 4
    MaxAccepts = 2
INVARIANTS BurnGap SingleUseUnlessEarly LockoutEarned GuessBudget
SYMMETRY KeySymmetry
CHECK_DEADLOCK FALSE
