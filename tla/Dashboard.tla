----------------------------- MODULE Dashboard -----------------------------
(***************************************************************************)
(* The ledger and the projection composed: the dashboard reads the         *)
(* accounts of a user, calculates, and reads the operations for the        *)
(* summary of the month (internal/handlers/dashboard.go, pages.go), while  *)
(* other requests change both tables.                                      *)
(*                                                                         *)
(* Calculate touches nothing that is shared, so its steps commute with     *)
(* those of every other request: the model runs one calculation at a time  *)
(* and lets the others wait for its end.  It reads one date: a midnight    *)
(* within it is left out.                                                  *)
(***************************************************************************)
EXTENDS Projection, Ledger

CONSTANTS YearsAsked,  \* what the query says
          Dates,       \* what the clock may say: [day, month, year]
          MaxWrites    \* bound: statements that write

ASSUME YearsAssumption == YearsAsked \subseteq Int /\ MaxWrites \in Nat

VARIABLE written   \* how many were sent

vars == <<projectionVars, ledgerVars, written>>

\* The parts are well typed, in a month each account is visited and each target
\* credited once, credits come last, and one request at most calculates.
TypeOK ==
    /\ ProjectionTypeOK
    /\ LedgerTypeOK
    /\ written \in 0..MaxWrites
    /\ years > 0 => \E r \in Slots : req[r].pc = "calculating"
    /\ \A r, s \in Slots : req[r].pc = "calculating" /\ req[s].pc = "calculating" =>
         r = s /\ years > 0

Init == LedgerInit /\ Idle /\ written = 0
-----------------------------------------------------------------------------
Quiet == years = 0

\* An absent, unreadable or excessive number of years is five.
YearsShown(y) == IF y \in 1..30 THEN y ELSE 5

DashboardAccounts(r) ==
    /\ At(r, "dashboard")
    /\ LET l == AccountsOf(req[r].user) IN
         /\ \E y \in YearsAsked, date \in Dates : Begin(l, YearsShown(y), date)
         /\ listRead' = [listRead EXCEPT ![r] = l]
    /\ Goto(r, "calculating")
    /\ UNCHANGED <<tables, opsRead>>

DashboardError(r) ==
    /\ DbMayFail
    /\ At(r, "dashboard")
    /\ Respond(r)
    /\ UNCHANGED <<tables, reads, projectionVars>>

Clear ==
    /\ list' = Empty
    /\ years' = 0
    /\ today' = None
    /\ month' = 0
    /\ left' = {}
    /\ balances' = Empty
    /\ payouts' = Empty
    /\ paid' = {}
    /\ opening' = Empty
    /\ point' = NoPoint

\* DashboardAPI: the summary takes the accounts read before the calculation.
DashboardOperations(r) ==
    /\ At(r, "calculating")
    /\ Finished
    /\ ReadOperations(r)
    /\ Goto(r, "shown")
    /\ Clear

\* Dashboard and DashboardPartial have no summary.
DashboardPartial(r) ==
    /\ At(r, "calculating")
    /\ Finished
    /\ Respond(r)
    /\ listRead' = [listRead EXCEPT ![r] = Empty]
    /\ Clear
    /\ UNCHANGED <<tables, opsRead>>

\* A write within the bound, or anything else.
Serve(r) == \/ Write(r) /\ written < MaxWrites /\ written' = written + 1
            \/ (Submit(r) \/ Refuse(r) \/ Show(r) \/ Answer(r)) /\ UNCHANGED written

Dash(r) == \/ DashboardAccounts(r)
           \/ DashboardError(r)
           \/ DashboardOperations(r)
           \/ DashboardPartial(r)

Next == \/ \E r \in Slots : \/ Quiet /\ Serve(r) /\ UNCHANGED projectionVars
                            \/ Dash(r) /\ UNCHANGED written
        \/ Calculate /\ UNCHANGED <<ledgerVars, written>>

Spec == Init /\ [][Next]_vars
-----------------------------------------------------------------------------
\* The rows that a step changes or removes.
ChangedAccounts ==
    {a \in DOMAIN accounts : a \in DOMAIN accounts' => accounts'[a] # accounts[a]}

ChangedOperations ==
    {o \in DOMAIN operations : o \in DOMAIN operations' => operations'[o] # operations[o]}

\* What the rows changed by a request, whose write is about the row id, have to do
\* with it: they are that row, of its sender, or a foreign key of theirs names it and
\* it is deleted.
OwnOrNaming(r, id) ==
    /\ \A a \in ChangedAccounts :
         \/ a = id /\ accounts[a].owner = req[r].user
         \/ /\ accounts[a].row.target = id /\ id \in DOMAIN accounts \ DOMAIN accounts'
            /\ a \in DOMAIN accounts'
            /\ accounts'[a] = [accounts[a] EXCEPT !.row.target = None]
    /\ \A o \in ChangedOperations :
         \/ o = id /\ operations[o].owner = req[r].user
         \/ /\ id \in {operations[o].account, operations[o].to}
            /\ id \in DOMAIN accounts \ DOMAIN accounts'

HandsKept ==
    /\ \A a \in DOMAIN accounts \cap DOMAIN accounts' : accounts'[a].owner = accounts[a].owner
    /\ \A o \in DOMAIN operations \cap DOMAIN operations' :
         /\ operations'[o].owner = operations[o].owner
         /\ operations'[o].account = operations[o].account

\* A write of one user changes one row of that user, every UPDATE and DELETE saying
\* WHERE id = ? AND user_id = ?.  Rows of others change only where a foreign key
\* says so: they name the account that its owner deletes.  No row changes hands,
\* no operation its account.
OwnRowsOnly ==
    [][/\ ChangedAccounts \cup ChangedOperations # {} =>
            \E r \in Slots, id \in Ids \cup OperationIds :
              req[r].pc \in Writes /\ req'[r] # req[r] /\ OwnOrNaming(r, id)
       /\ HandsKept]_vars

\* The two totals of a month, for whatever a request has read: the page of accounts
\* counts transfers by their sign and leaves out the yields that no account
\* receives, the dashboard does the opposite, and in nothing else do they differ.
TotalsReconcile ==
    \A r \in Slots : req[r].pc = "shown" =>
        LET ops     == opsRead[r]
            page    == PageTotals(ops, listRead[r])
            summary == MonthlySummary(ops, listRead[r])
        IN  page.income - page.expenses + UnpaidYield(listRead[r]) =
              summary.income - summary.expenses
                + Incoming(ops, Transfers(ops)) - Outgoing(ops, Transfers(ops))
=============================================================================
