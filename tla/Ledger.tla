------------------------------- MODULE Ledger -------------------------------
(***************************************************************************)
(* Accounts and recurring operations: the handlers of                      *)
(* internal/handlers/accounts.go and recurring.go that change them, and    *)
(* the pages they answer with.  A request sends one statement that writes  *)
(* and two that read, each a step of its own; other requests come between. *)
(*                                                                         *)
(* Positions are in AccountOrder.  Colours and descriptions are left out.  *)
(* The schema is not in the repository, and a connection may or may not    *)
(* look at foreign keys: what names a deleted account goes with it, or     *)
(* stays as it is.  Users are deleted in Auth only.                        *)
(***************************************************************************)
EXTENDS Yields

CONSTANTS Users,
          OperationIds,
          Slots,           \* requests the server works on at the same time
          InitialAccounts, \* id -> account, when the server starts
          AccountForms,    \* what forms of accounts hold, a subset of Row
          OperationForms,  \* what forms of operations hold
          Requests,        \* handlers exercised: see Entries
          DbMayFail        \* whether statements may fail

OperationForm == [type : {"expense", "income", "transfer"}, amount : Int, day : Int,
                  account : Ids, to : Ids \cup {None}]

ASSUME FormsAssumption == AccountForms \subseteq Row /\ OperationForms \subseteq OperationForm

Account == [owner : Users, row : Row]

Operation == [owner : Users, account : Ids, to : Ids \cup {None}, amount : Int, day : Int]

\* A table holds finitely many rows.
ASSUME InitialAssumption ==
    /\ DOMAIN InitialAccounts \subseteq Ids
    /\ IsFiniteSet(DOMAIN InitialAccounts)
    /\ InitialAccounts \in [DOMAIN InitialAccounts -> Account]

VARIABLES accounts,    \* id -> [owner, row]
          operations,  \* id -> [owner, account, to, amount, day]
          used,        \* ids given so far, of either table
          req,         \* slot -> request
          listRead,    \* slot -> the accounts it has read
          opsRead      \* slot -> the operations it has read

tables == <<accounts, operations, used>>
reads == <<listRead, opsRead>>
ledgerVars == <<tables, req, reads>>

Writes == {"createAccount", "saveAccount", "updateAccount", "updateBalance", "deleteAccount",
           "createOperation", "saveOperation", "updateOperation", "deleteOperation"}

\* What a request starts with.
Entries == Writes \cup {"page", "table", "dashboard"}

ASSUME RequestsAssumption == Requests \subseteq Entries

\* Where a request stands: before its write; before one of the reads of a page,
\* of the table of operations or of the dashboard; answered.
Stages == Entries \cup {"pageOperations", "tableAccounts", "calculating", "shown"}

IdleRequest == [pc |-> "idle", user |-> None]

Request == [pc : Stages \cup {"idle"}, user : Users \cup {None}]

\* Rows have ids that were given, and what a request has read are rows.
LedgerTypeOK ==
    /\ DOMAIN accounts \subseteq used
    /\ accounts \in [DOMAIN accounts -> Account]
    /\ DOMAIN accounts \subseteq Ids
    /\ DOMAIN operations \subseteq used \cap OperationIds
    /\ operations \in [DOMAIN operations -> Operation]
    /\ used \subseteq Ids \cup OperationIds
    /\ req \in [Slots -> Request]
    /\ listRead = [r \in Slots |-> listRead[r]]
    /\ opsRead = [r \in Slots |-> opsRead[r]]
    /\ \A r \in Slots : /\ req[r].pc # "idle" => req[r].user \in Users
                        /\ DOMAIN listRead[r] \subseteq Ids
                        /\ listRead[r] \in [DOMAIN listRead[r] -> Row]
                        /\ DOMAIN opsRead[r] \subseteq OperationIds
                        /\ opsRead[r] \in [DOMAIN opsRead[r] -> Operation]

LedgerInit ==
    /\ accounts = InitialAccounts
    /\ operations = Empty
    /\ used = DOMAIN InitialAccounts
    /\ req = [r \in Slots |-> IdleRequest]
    /\ listRead = [r \in Slots |-> Empty]
    /\ opsRead = [r \in Slots |-> Empty]
-----------------------------------------------------------------------------
At(r, pc) == req[r].pc = pc

Goto(r, pc) == req' = [req EXCEPT ![r].pc = pc]

Respond(r) == req' = [req EXCEPT ![r] = IdleRequest]

\* WHERE id = ? AND user_id = ?, which need not find a row.
Found(t, id, u) == {i \in DOMAIN t \cap {id} : t[i].owner = u}

\* GetAccountsByUserID, GetRecurringByUserID
AccountsOf(u) ==
    [a \in {a \in DOMAIN accounts : accounts[a].owner = u} |-> accounts[a].row]

OperationsOf(u) ==
    [o \in {o \in DOMAIN operations : operations[o].owner = u} |-> operations[o]]

\* A read whose error is ignored shows nothing.
Read(rows) == IF DbMayFail THEN {rows, Empty} ELSE {rows}

\* A request arrives.  What its path and its form hold is chosen where it is used.
Submit(r) ==
    /\ req[r] = IdleRequest
    /\ \E u \in Users, pc \in Requests : req' = [req EXCEPT ![r] = [pc |-> pc, user |-> u]]
    /\ UNCHANGED <<tables, reads>>

\* A form that is not complete or not readable, a failed encryption or a failed
\* statement: the answer is an error and nothing is written.
Refuse(r) ==
    /\ req[r].pc \in Writes
    /\ Respond(r)
    /\ UNCHANGED <<tables, reads>>

\* handlers.CreateAccount, without an id
InsertAccount(r) ==
    /\ At(r, "createAccount")
    /\ \E a \in Ids \ used, f \in AccountForms :
         /\ accounts' = [c \in DOMAIN accounts \cup {a} |->
                           IF c = a THEN [owner |-> req[r].user, row |-> f] ELSE accounts[c]]
         /\ used' = used \cup {a}
    /\ Goto(r, "page")
    /\ UNCHANGED <<operations, reads>>

\* Mistake: the owner is not looked at.
SaveAccountOfAnyone(r) ==
    /\ At(r, "saveAccount")
    /\ \E a \in DOMAIN accounts, f \in AccountForms : accounts' = [accounts EXCEPT ![a].row = f]
    /\ Goto(r, "page")
    /\ UNCHANGED <<operations, used, reads>>

\* The same with an id (UpdateAccountWithYield): every column is overwritten with
\* the form, the balance too.
SaveAccount(r) ==
    /\ At(r, "saveAccount")
    /\ \E a \in Ids, f \in AccountForms :
         accounts' = [c \in DOMAIN accounts |->
                        IF c \in Found(accounts, a, req[r].user)
                          THEN [accounts[c] EXCEPT !.row = f] ELSE accounts[c]]
    /\ Goto(r, "page")
    /\ UNCHANGED <<operations, used, reads>>

\* handlers.UpdateAccount
UpdateAccount(r) ==
    /\ At(r, "updateAccount")
    /\ \E a \in Ids, f \in AccountForms :
         accounts' = [c \in DOMAIN accounts |->
                        IF c \in Found(accounts, a, req[r].user)
                          THEN [accounts[c] EXCEPT !.row.name = f.name, !.row.balance = f.balance]
                          ELSE accounts[c]]
    /\ Respond(r)
    /\ UNCHANGED <<operations, used, reads>>

UpdateBalance(r) ==
    /\ At(r, "updateBalance")
    /\ \E a \in Ids, f \in AccountForms :
         accounts' = [c \in DOMAIN accounts |->
                        IF c \in Found(accounts, a, req[r].user)
                          THEN [accounts[c] EXCEPT !.row.balance = f.balance] ELSE accounts[c]]
    /\ Respond(r)
    /\ UNCHANGED <<operations, used, reads>>

\* What the deletion of accounts leaves: a target that is gone is cleared, an
\* operation of an account that is gone goes too.
Cleared(id, gone) == IF id \in gone THEN None ELSE id

AccountsWithout(gone) ==
    [c \in DOMAIN accounts \ gone |->
        [accounts[c] EXCEPT !.row.target = Cleared(@, gone)]]

OperationsWithout(gone) ==
    [o \in {o \in DOMAIN operations : operations[o].account \notin gone} |->
        [operations[o] EXCEPT !.to = Cleared(@, gone)]]

\* PRAGMA foreign_keys=ON holds for the connection it was sent on: the rows that
\* name the deleted one follow, whoever owns them, or no row does.
DeleteAccount(r) ==
    /\ At(r, "deleteAccount")
    /\ \E a \in Ids :
         LET gone == Found(accounts, a, req[r].user) IN
         \/ accounts' = AccountsWithout(gone) /\ operations' = OperationsWithout(gone)
         \/ /\ accounts' = [c \in DOMAIN accounts \ gone |-> accounts[c]]
            /\ UNCHANGED operations
    /\ Goto(r, "page")
    /\ UNCHANGED <<used, reads>>
-----------------------------------------------------------------------------
\* CreateRecurring brings the sign in line with the type and a day that no month
\* has to the first.
Signed(f) == IF \/ f.type = "expense" /\ f.amount > 0
                \/ f.type = "income" /\ f.amount < 0
               THEN -f.amount ELSE f.amount

Day(f) == IF f.day \in 1..31 THEN f.day ELSE 1

InsertOperation(r) ==
    /\ At(r, "createOperation")
    /\ \E o \in OperationIds \ used, f \in OperationForms :
         /\ operations' = [c \in DOMAIN operations \cup {o} |->
                             IF c = o THEN [owner |-> req[r].user, account |-> f.account,
                                            to |-> f.to, amount |-> Signed(f), day |-> Day(f)]
                                      ELSE operations[c]]
         /\ used' = used \cup {o}
    /\ Goto(r, "table")
    /\ UNCHANGED <<accounts, reads>>

\* db.UpdateRecurring: the account stays, the target is overwritten.
Changed(r, o, to, amount, day) ==
    [c \in DOMAIN operations |->
        IF c \in Found(operations, o, req[r].user)
          THEN [operations[c] EXCEPT !.to = to, !.amount = amount, !.day = day]
          ELSE operations[c]]

\* CreateRecurring with an id
SaveOperation(r) ==
    /\ At(r, "saveOperation")
    /\ \E o \in OperationIds, f \in OperationForms :
         operations' = Changed(r, o, f.to, Signed(f), Day(f))
    /\ Goto(r, "table")
    /\ UNCHANGED <<accounts, used, reads>>

\* handlers.UpdateRecurring: an expense is negated whatever its sign, the day is
\* not looked at.
UpdateOperation(r) ==
    /\ At(r, "updateOperation")
    /\ \E o \in OperationIds, f \in OperationForms :
         operations' = Changed(r, o, f.to, IF f.type = "expense" THEN -f.amount ELSE f.amount, f.day)
    /\ Respond(r)
    /\ UNCHANGED <<accounts, used, reads>>

DeleteOperation(r) ==
    /\ At(r, "deleteOperation")
    /\ \E o \in OperationIds :
         operations' = [c \in DOMAIN operations \ Found(operations, o, req[r].user) |->
                          operations[c]]
    /\ Goto(r, "table")
    /\ UNCHANGED <<accounts, used, reads>>
-----------------------------------------------------------------------------
ReadAccounts(r) ==
    /\ \E l \in Read(AccountsOf(req[r].user)) : listRead' = [listRead EXCEPT ![r] = l]
    /\ UNCHANGED <<tables, opsRead>>

ReadOperations(r) ==
    /\ \E l \in Read(OperationsOf(req[r].user)) : opsRead' = [opsRead EXCEPT ![r] = l]
    /\ UNCHANGED <<tables, listRead>>

\* renderAccountsList and AccountsPage: accounts first, then operations.
PageAccounts(r) == At(r, "page") /\ ReadAccounts(r) /\ Goto(r, "pageOperations")

PageOperations(r) == At(r, "pageOperations") /\ ReadOperations(r) /\ Goto(r, "shown")

\* renderRecurringTable: the other way round.
TableOperations(r) == At(r, "table") /\ ReadOperations(r) /\ Goto(r, "tableAccounts")

TableAccounts(r) == At(r, "tableAccounts") /\ ReadAccounts(r) /\ Goto(r, "shown")

Answer(r) ==
    /\ At(r, "shown")
    /\ Respond(r)
    /\ listRead' = [listRead EXCEPT ![r] = Empty]
    /\ opsRead' = [opsRead EXCEPT ![r] = Empty]
    /\ UNCHANGED tables

Write(r) == \/ InsertAccount(r) \/ SaveAccount(r) \/ UpdateAccount(r)
            \/ UpdateBalance(r) \/ DeleteAccount(r)
            \/ InsertOperation(r) \/ SaveOperation(r)
            \/ UpdateOperation(r) \/ DeleteOperation(r)

Show(r) == \/ PageAccounts(r) \/ PageOperations(r)
           \/ TableOperations(r) \/ TableAccounts(r)
=============================================================================
