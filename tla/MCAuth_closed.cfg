SPECIFICATION Spec
CONSTANTS
    alice = alice
    Alice = Alice
    bob = bob
    p1 = p1
    p2 = p2
    None = None
    Delete = Delete
    Lower <- MCLower
    UserIds = {1, 2}
    Emails = {alice, bob}
    Passwords = {p1, p2}
    Links = {}
    InitialUsers <- OneAdmin
    LockAfter = 1
    Slots = {r1, r2}
    Browsers = {b1, b2}
    Ops = {"register"}
    MaxVersion = 3
    DbMayFail = FALSE
    AllowRegister = FALSE
PROPERTY ClosedRegistrationCreatesNothing
