------------------------------- MODULE Yields -------------------------------
(***************************************************************************)
(* The formulas of internal/projection that look at one month only, and    *)
(* the totals of a month: the one of the dashboard                         *)
(* (CalculateMonthlySummary) and the one that the page of accounts adds up *)
(* for itself.                                                             *)
(*                                                                         *)
(* Amounts and percentages are whole numbers: a quotient drops what a      *)
(* float64 keeps.  Amounts count parts of what a chart shows: see Unit in  *)
(* Projection.  A list of accounts is a function from ids to rows, a list  *)
(* of operations one from ids to operations.                               *)
(***************************************************************************)
EXTENDS Integers, FiniteSets, FiniteSetsExt

CONSTANTS Ids,    \* ids that accounts have and that targets name
          Names,  \* names of accounts
          None    \* no target, no id

ASSUME IdsAssumption == None \notin Ids

\* The columns of an account that its form fills in.
Row == [name : Names, balance : Int, active : BOOLEAN, type : {"FIXED", "RANGE"},
        min : Int, max : Int, reinvest : Int, target : Ids \cup {None}]

Abs(x) == IF x < 0 THEN -x ELSE x

Empty == [a \in {} |-> 0]

\* The total of the values of a function.
Total(f) == MapThenSumSet(LAMBDA a : f[a], DOMAIN f)

\* Mistake: a range is counted at its lower end.
RateOfMin(a) == a.min

\* A fixed rate, or the middle of a range, in percent a year.
Rate(a) == IF a.type = "RANGE" THEN (a.min + a.max) \div 2 ELSE a.min

\* What a balance yields in a month, and the part of it that stays.
MonthlyInterest(a, balance) == (balance * Rate(a)) \div 1200

Reinvested(a, balance) == (MonthlyInterest(a, balance) * a.reinvest) \div 100

\* The same written the other way round, as the two functions below have it.
GainRate(a) == IF a.type = "RANGE" THEN (a.min + a.max) \div 2 ELSE a.min

NotReinvested(a) == (((a.balance * GainRate(a)) \div 1200) * (100 - a.reinvest)) \div 100

Yielding(list) == {s \in DOMAIN list : list[s].active}

\* CalculateYieldPayouts: the payouts shown as operations of their own.
YieldPayouts(list) ==
    [s \in {s \in Yielding(list) : /\ list[s].reinvest < 100
                                   /\ list[s].target # None
                                   /\ NotReinvested(list[s]) > 0} |-> NotReinvested(list[s])]

\* CalculateMonthlyYieldPayout
MonthlyYieldPayout(list) == Total([s \in Yielding(list) |-> NotReinvested(list[s])])
-----------------------------------------------------------------------------
Transfers(ops) == {o \in DOMAIN ops : ops[o].to # None}

\* The operations of a set with an amount of that sign, by their size.
Incoming(ops, S) == Total([o \in {o \in S : ops[o].amount > 0} |-> ops[o].amount])

Outgoing(ops, S) == Total([o \in {o \in S : ops[o].amount <= 0} |-> -ops[o].amount])

\* Mistake: a transfer is counted by the sign of its amount too.
MonthlySummaryOfAll(ops, list) ==
    [income    |-> Incoming(ops, DOMAIN ops) + MonthlyYieldPayout(list),
     expenses  |-> Outgoing(ops, DOMAIN ops),
     transfers |-> Total([o \in {o \in Transfers(ops) : ops[o].to \in Yielding(list)} |->
                            Abs(ops[o].amount)])]

\* CalculateMonthlySummary: an operation with a target is neither an income nor
\* an expense, and counts only when the target yields.
MonthlySummary(ops, list) ==
    [income    |-> Incoming(ops, DOMAIN ops \ Transfers(ops)) + MonthlyYieldPayout(list),
     expenses  |-> Outgoing(ops, DOMAIN ops \ Transfers(ops)),
     transfers |-> Total([o \in {o \in Transfers(ops) : ops[o].to \in Yielding(list)} |->
                            Abs(ops[o].amount)])]

\* AccountsPage and renderAccountsList: every operation by its sign, and the
\* payouts that are shown.
PageTotals(ops, list) ==
    [income   |-> Incoming(ops, DOMAIN ops) + Total(YieldPayouts(list)),
     expenses |-> Outgoing(ops, DOMAIN ops)]

\* What only the dashboard counts: yields that are not paid to an account.
UnpaidYield(list) ==
    Total([s \in Yielding(list) \ DOMAIN YieldPayouts(list) |-> NotReinvested(list[s])])
=============================================================================
