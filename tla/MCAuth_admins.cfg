SPECIFICATION Spec
CONSTANTS
    alice = alice
    Alice = Alice
    bob = bob
    p1 = p1
    p2 = p2
    None = None
    Delete = Delete
    Lower <- MCLower
    UserIds = {1, 2, 3}
    Emails = {alice, Alice, bob}
    Passwords = {p1}
    Links = {}
    InitialUsers <- NoInitialUsers
    LockAfter = 1
    Slots = {r1, r2}
    Browsers = {b1, b2}
    Ops = {"register", "delete", "page", "logout"}
    MaxVersion = 1
    DbMayFail = TRUE
    AllowRegister = TRUE
SYMMETRY SlotsAndBrowsers
INVARIANT AdminRemains
