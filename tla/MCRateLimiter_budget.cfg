SPECIFICATION MCSpec
CONSTANTS
    Keys = {ip1}
    ip1 = ip1
    MaxAttempts = 3
    WindowMs = 2
    BlockMs = 3
    CleanupMs = 5
    MaxNow = 14
    MaxInflight = 3
INVARIANT SlidingBudget
PROPERTIES ImplementsBudget RetriedKeyIsAdmitted
