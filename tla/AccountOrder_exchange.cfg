SPECIFICATION FairSpec
CONSTANTS
    Accounts = {a1, a2}
    Slots = {r1, r2}
    None = None
    Ops = {"create", "update", "delete", "move"}
    DbMayFail = TRUE
INVARIANT TypeOK
PROPERTIES ImplementsExchange RequestsEnd
