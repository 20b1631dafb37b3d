SPECIFICATION PasskeySpec
CONSTANTS
    alice = alice
    bob = bob
    p1 = p1
    p2 = p2
    k1 = k1
    None = None
    Delete = Delete
    Lower <- MCLower
    UserIds = {1, 2}
    Emails = {alice, bob}
    Passwords = {p1}
    Links = {}
    InitialUsers <- AdminAndUser
    LockAfter = 1
    Slots = {r1}
    Browsers = {b1}
    Ops = {"passkey", "login", "delete"}
    MaxVersion = 2
    DbMayFail = FALSE
    AllowRegister = FALSE
    PasskeyIds = {k1}
    Counting = {}
    InitialKeys <- NoKeys
    Ceremonies = {c1, c2}
    Challenges = {x1, x2}
    MaxCount = 1
SYMMETRY Interchangeable
INVARIANTS PasskeyTypeOK RegisteredForItsHolder
