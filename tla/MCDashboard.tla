---------------------------- MODULE MCDashboard ----------------------------
(***************************************************************************)
(* Constants of Dashboard for TLC.  The amounts are chosen so that no      *)
(* quotient of the first month leaves a remainder, and so that two of its  *)
(* balances end half way between two multiples of Unit.                    *)
(***************************************************************************)
EXTENDS Dashboard, TLC

CONSTANTS livret, compte, ann, ben

\* A range of rates, half of the yield paid to account 2.
Spread == [name |-> livret, balance |-> 144, active |-> TRUE, type |-> "RANGE",
          min |-> 50, max |-> 150, reinvest |-> 50, target |-> 2]

\* A fixed rate, everything paid to account 1.
Fixed == [name |-> compte, balance |-> 288, active |-> TRUE, type |-> "FIXED",
          min |-> 100, max |-> 0, reinvest |-> 0, target |-> 1]

\* A debt that yields for nobody; its balance may be given to another account too.
Debt == [Spread EXCEPT !.balance = -144, !.target = None]

\* No yield, the name of another account.
Plain == [Spread EXCEPT !.active = FALSE, !.target = None]

MCForms == {Debt, Plain}

MCAccounts == 1 :> [owner |-> ann, row |-> Spread] @@ 2 :> [owner |-> ann, row |-> Fixed]

MCOperations ==
    {[type |-> "expense", amount |-> 10, day |-> 0, account |-> 1, to |-> None],
     [type |-> "transfer", amount |-> 5, day |-> 5, account |-> 1, to |-> 2]}

MidMonth == {[day |-> 15, month |-> 11, year |-> 2024]}

MonthEnd == {[day |-> 31, month |-> 1, year |-> 2025]}

\* No definition tells slots apart.
Interchangeable == Permutations(Slots)
=============================================================================
