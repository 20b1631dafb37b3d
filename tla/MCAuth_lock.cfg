SPECIFICATION Spec
CONSTANTS
    alice = alice
    Alice = Alice
    bob = bob
    p1 = p1
    p2 = p2
    None = None
    Delete = Delete
    Lower <- MCLower
    UserIds = {1}
    Emails = {alice}
    Passwords = {p1, p2}
    Links = {}
    InitialUsers <- OneAdmin
    LockAfter = 2
    Slots = {r1, r2}
    Browsers = {b1, b2}
    Ops = {"login"}
    MaxVersion = 3
    DbMayFail = FALSE
    AllowRegister = TRUE
PROPERTY FailureKeepsLock
