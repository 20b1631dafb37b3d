SPECIFICATION PasskeySpec
CONSTANTS
    alice = alice
    bob = bob
    p1 = p1
    p2 = p2
    k1 = k1
    None = None
    Delete = Delete
    Lower <- MCLower
    UserIds = {1}
    Emails = {alice}
    Passwords = {p1, p2}
    Links = {}
    InitialUsers <- OneUser
    LockAfter = 1
    Slots = {r1}
    Browsers = {b1}
    Ops = {"passkey", "password"}
    MaxVersion = 2
    DbMayFail = TRUE
    AllowRegister = FALSE
    PasskeyIds = {k1}
    Counting = {k1}
    InitialKeys <- KeyOfOneUser
    Ceremonies = {c1, c2}
    Challenges = {x1, x2}
    MaxCount = 2
SYMMETRY Interchangeable
INVARIANTS DeletedPasskeyRefused
PROPERTIES PasswordChangeSignsOutPasskeys CounterSetBackOnlyByOverlap
