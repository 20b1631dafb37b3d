SPECIFICATION Spec
CONSTANTS
    alice = alice
    Alice = Alice
    bob = bob
    p1 = p1
    p2 = p2
    None = None
    Delete = Delete
    Lower <- MCLower
    UserIds = {1}
    Emails = {alice}
    Passwords = {p1, p2}
    Links = {l1}
    InitialUsers <- OneAdmin
    LockAfter = 1
    Slots = {r1, r2}
    Browsers = {b1, b2}
    Ops = {"forgot", "reset"}
    MaxVersion = 3
    DbMayFail = FALSE
    AllowRegister = TRUE
PROPERTY FreshLinkAccepted
