SPECIFICATION Spec
CONSTANTS
    livret = livret
    compte = compte
    ann = ann
    ben = ben
    None = None
    Unnamed = Unnamed
    Unit = 4
    Ids = {1, 2, 3}
    Names = {livret, compte}
    Users = {ann, ben}
    OperationIds = {11}
    Slots = {r1, r2}
    InitialAccounts <- MCAccounts
    AccountForms <- MCForms
    OperationForms <- MCOperations
    Requests = {"createAccount", "saveAccount", "updateAccount", "updateBalance", "deleteAccount", "createOperation", "saveOperation", "updateOperation", "deleteOperation", "page", "table", "dashboard"}
    DbMayFail = TRUE
    YearsAsked = {1, 3}
    Dates <- MidMonth
    MaxWrites = 2
INVARIANTS TypeOK InterestOnOpening ChartEndsAtTheTotals PayoutsAsAnnounced LinesAddUp TotalsReconcile MonthGrowsByInterest
PROPERTIES OwnRowsOnly ImplementsMonths
SYMMETRY Interchangeable
