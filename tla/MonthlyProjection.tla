------------------------- MODULE MonthlyProjection -------------------------
(***************************************************************************)
(* What the projection promises: every month all accounts yield on the     *)
(* balance they have at its start, at once.  Each keeps the part that is   *)
(* reinvested and its target receives the rest; a rest without a target,   *)
(* or that is not positive, is no longer counted.                          *)
(***************************************************************************)
EXTENDS Yields

VARIABLES list,    \* id -> row, of the accounts projected
          years,   \* years asked for, 0 before that
          month,   \* the month to come
          money    \* id -> amount at its start

vars == <<list, years, month, money>>

Rest(s) == MonthlyInterest(list[s], money[s]) - Reinvested(list[s], money[s])

Payers == {s \in Yielding(list) : list[s].target # None /\ Rest(s) > 0}

Kept(a) == IF a \in Yielding(list) THEN Reinvested(list[a], money[a]) ELSE 0

Received(a) == Total([s \in {s \in Payers : list[s].target = a} |-> Rest(s)])

Init ==
    /\ list = Empty
    /\ years = 0
    /\ month = 0
    /\ money = Empty

Begin ==
    /\ years' > 0
    /\ month' = 1
    /\ money' = [a \in DOMAIN list' |-> list'[a].balance]

Month ==
    /\ month \in 1..(12 * years)
    /\ month' = month + 1
    /\ money' = [a \in DOMAIN money \cup {list[s].target : s \in Payers} |->
                   (IF a \in DOMAIN money THEN money[a] ELSE 0) + Kept(a) + Received(a)]
    /\ UNCHANGED <<list, years>>

\* The answer is sent.
End ==
    /\ list' = Empty
    /\ years' = 0
    /\ month' = 0
    /\ money' = Empty

Next == Begin \/ Month \/ End

Spec == Init /\ [][Next]_vars
=============================================================================
