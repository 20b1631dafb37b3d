SPECIFICATION SteppingSpec
CONSTANTS
    Keys = {ip1, ip2}
    ip1 = ip1
    ip2 = ip2
    MaxAttempts = 1
    WindowMs = 2
    BlockMs = 2
    CleanupMs = 4
    MaxNow = 6
    MaxInflight = 1
INVARIANT TypeOK
PROPERTIES CleanupSparesBlocks RetryAfterHonoured
