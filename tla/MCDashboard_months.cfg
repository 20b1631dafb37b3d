SPECIFICATION Spec
CONSTANTS
    livret = livret
    compte = compte
    ann = ann
    ben = ben
    None = None
    Unnamed = Unnamed
    Unit = 4
    Ids = {1, 2, 3}
    Names = {livret, compte}
    Users = {ann}
    OperationIds = {11}
    Slots = {r1}
    InitialAccounts <- MCAccounts
    AccountForms <- MCForms
    OperationForms <- MCOperations
    Requests = {"dashboard"}
    DbMayFail = FALSE
    YearsAsked = {1}
    Dates <- MonthEnd
    MaxWrites = 0
PROPERTY MonthsShownInOrder
