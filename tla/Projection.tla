----------------------------- MODULE Projection -----------------------------
(***************************************************************************)
(* Calculate of internal/projection: the balances of a user's accounts,    *)
(* month by month.  Its maps are iterated in any order.  One calculation   *)
(* is modelled; it works on variables of its own.                          *)
(***************************************************************************)
EXTENDS Yields

CONSTANTS Unnamed,  \* the name a map has for an id that is not in it
          Unit      \* the amount that charts are rounded to

ASSUME UnitAssumption == Unit \in Nat \ {0}

VARIABLES list,      \* id -> row, of the accounts given
          years,     \* years asked for, 0 when nothing is calculated
          today,     \* what time.Now says during the calculation
          month,     \* m of the loop; 12 * years + 1 after it
          left,      \* ids the loop over the accounts has still to visit
          balances,  \* id -> amount
          payouts,   \* target -> amount, of this month
          paid,      \* targets that this month's second loop has credited
          opening,   \* history: the balances when the month began
          point      \* the last point of the chart: index, label, total, lines

projectionVars ==
    <<list, years, today, month, left, balances, payouts, paid, opening, point>>

NoPoint == [index |-> 0, label |-> 0, total |-> 0, lines |-> Empty]

\* The payouts of a month go to targets of accounts in the list, each id is
\* visited and paid once, and the balances have an entry for every account.
ProjectionTypeOK ==
    /\ years \in Nat
    /\ month \in 0..(12 * years + 1)
    /\ DOMAIN list \subseteq Ids
    /\ list \in [DOMAIN list -> Row]
    /\ left \subseteq DOMAIN list
    /\ DOMAIN list \subseteq DOMAIN balances
    /\ DOMAIN balances \subseteq Ids
    /\ balances \in [DOMAIN balances -> Int]
    /\ DOMAIN list \subseteq DOMAIN opening
    /\ DOMAIN opening \subseteq DOMAIN balances
    /\ opening \in [DOMAIN opening -> Int]
    /\ DOMAIN payouts \subseteq {list[s].target : s \in DOMAIN list \ left}
    /\ payouts \in [DOMAIN payouts -> Nat \ {0}]
    /\ None \notin DOMAIN payouts
    /\ paid \subseteq DOMAIN payouts
    /\ paid # {} => left = {}

Idle ==
    /\ list = Empty
    /\ years = 0
    /\ today = None
    /\ month = 0
    /\ left = {}
    /\ balances = Empty
    /\ payouts = Empty
    /\ paid = {}
    /\ opening = Empty
    /\ point = NoPoint
-----------------------------------------------------------------------------
Leap(y) == y % 4 = 0 /\ (y % 100 # 0 \/ y % 400 = 0)

DaysIn(m, y) == CASE m = 2 -> IF Leap(y) THEN 29 ELSE 28
                  [] m \in {4, 6, 9, 11} -> 30
                  [] OTHER -> 31

\* formatMonthName, as a count of months: AddDate carries a day that the month
\* does not have over to the next one.
MonthName(date, m) ==
    LET n == 12 * date.year + date.month - 1 + m IN
    IF date.day <= DaysIn((n % 12) + 1, n \div 12) THEN n ELSE n + 1

\* formatYearName
YearName(date, y) == date.year + y

\* math.Round: the nearest multiple of Unit, the larger in size of two that are
\* equally near.
Rounded(x) ==
    LET size == ((2 * Abs(x) + Unit) \div (2 * Unit)) * Unit
    IN  IF x < 0 THEN -size ELSE size

\* The lines of a chart are kept by name: of several accounts with one name, the
\* one that the iteration meets last.  Each is rounded by itself.
Lines(l, b) ==
    LET Name(a) == IF a \in DOMAIN l THEN l[a].name ELSE Unnamed
        Shown   == {Name(a) : a \in DOMAIN b}
    IN  {f \in [Shown -> {Rounded(b[a]) : a \in DOMAIN b}] :
            \A n \in Shown : \E a \in DOMAIN b : Name(a) = n /\ f[n] = Rounded(b[a])}

\* Mistake: the total counts the accounts of the list only.
YearDataOfList(index, label, l, b) ==
    {[index |-> index, label |-> label, total |-> Rounded(Total([a \in DOMAIN l |-> b[a]])),
      lines |-> f] : f \in Lines(l, b)}

\* createYearData: the total is rounded once, after the sum.
YearData(index, label, l, b) ==
    {[index |-> index, label |-> label, total |-> Rounded(Total(b)), lines |-> f] :
        f \in Lines(l, b)}

InMonths(y) == y <= 2

Begin(l, y, date) ==
    /\ years = 0
    /\ list' = l
    /\ years' = y
    /\ today' = date
    /\ month' = 1
    /\ left' = DOMAIN l
    /\ balances' = [a \in DOMAIN l |-> l[a].balance]
    /\ opening' = [a \in DOMAIN l |-> l[a].balance]
    /\ payouts' = Empty
    /\ paid' = {}
    /\ point' \in YearData(0, IF InMonths(y) THEN MonthName(date, 0) ELSE YearName(date, 0),
                         l, [a \in DOMAIN l |-> l[a].balance])

Simulating == month \in 1..(12 * years)

\* map[id] += x, for a map that may have no such id yet.
Credit(f, a, x) ==
    [c \in DOMAIN f \cup {a} |->
        IF c = a THEN (IF a \in DOMAIN f THEN f[a] ELSE 0) + x ELSE f[c]]

VisitInactive(s) ==
    /\ Simulating
    /\ s \in left
    /\ ~list[s].active
    /\ left' = left \ {s}
    /\ UNCHANGED <<list, years, today, month, balances, payouts, paid, opening, point>>

\* Mistake: what is not reinvested is credited at once, not after the loop.
VisitYieldingAtOnce(s) ==
    LET payout == MonthlyInterest(list[s], balances[s]) - Reinvested(list[s], balances[s])
        grown  == [balances EXCEPT ![s] = @ + Reinvested(list[s], @)]
    IN
    /\ Simulating
    /\ s \in left
    /\ list[s].active
    /\ left' = left \ {s}
    /\ balances' = IF payout > 0 /\ list[s].target # None
                     THEN Credit(grown, list[s].target, payout)
                     ELSE grown
    /\ UNCHANGED <<list, years, today, month, payouts, paid, opening, point>>

\* Mistake: what has no target stays on the account.
VisitYieldingKeeps(s) ==
    LET payout == MonthlyInterest(list[s], balances[s]) - Reinvested(list[s], balances[s]) IN
    /\ Simulating
    /\ s \in left
    /\ list[s].active
    /\ left' = left \ {s}
    /\ balances' = [balances EXCEPT ![s] =
                      @ + IF list[s].target = None THEN MonthlyInterest(list[s], @)
                                                   ELSE Reinvested(list[s], @)]
    /\ payouts' = IF payout > 0 /\ list[s].target # None
                    THEN Credit(payouts, list[s].target, payout)
                    ELSE payouts
    /\ UNCHANGED <<list, years, today, month, paid, opening, point>>

\* The body of the first loop: the part reinvested stays, the rest waits for the
\* second loop.
VisitYielding(s) ==
    LET payout == MonthlyInterest(list[s], balances[s]) - Reinvested(list[s], balances[s]) IN
    /\ Simulating
    /\ s \in left
    /\ list[s].active
    /\ left' = left \ {s}
    /\ balances' = [balances EXCEPT ![s] = @ + Reinvested(list[s], @)]
    /\ payouts' = IF payout > 0 /\ list[s].target # None
                    THEN Credit(payouts, list[s].target, payout)
                    ELSE payouts
    /\ UNCHANGED <<list, years, today, month, paid, opening, point>>

\* Mistake: a payout is credited as soon as it is known.
PayOutEarly(t) ==
    /\ Simulating
    /\ t \in DOMAIN payouts \ paid
    /\ balances' = Credit(balances, t, payouts[t])
    /\ paid' = paid \cup {t}
    /\ UNCHANGED <<list, years, today, month, left, payouts, opening, point>>

\* Mistake: a target that is no account of the list gets nothing.
PayOutToListed(t) ==
    /\ Simulating
    /\ left = {}
    /\ t \in DOMAIN payouts \ paid
    /\ balances' = IF t \in DOMAIN list THEN Credit(balances, t, payouts[t]) ELSE balances
    /\ paid' = paid \cup {t}
    /\ UNCHANGED <<list, years, today, month, left, payouts, opening, point>>

\* The second loop: a target that is no account of the list gets an entry.
PayOut(t) ==
    /\ Simulating
    /\ left = {}
    /\ t \in DOMAIN payouts \ paid
    /\ balances' = Credit(balances, t, payouts[t])
    /\ paid' = paid \cup {t}
    /\ UNCHANGED <<list, years, today, month, left, payouts, opening, point>>

\* Mistake: a long projection shows the first month of each year.
ShownFirst(m, y) == InMonths(y) \/ m % 12 = 1

\* Whether a month gets a point.
Shown(m, y) == InMonths(y) \/ m % 12 = 0

EndMonth ==
    /\ Simulating
    /\ left = {}
    /\ paid = DOMAIN payouts
    /\ IF Shown(month, years)
         THEN point' \in
                YearData(IF InMonths(years) THEN month ELSE month \div 12,
                       IF InMonths(years) THEN MonthName(today, month)
                                          ELSE YearName(today, month \div 12),
                       list, balances)
         ELSE UNCHANGED point
    /\ month' = month + 1
    /\ left' = DOMAIN list
    /\ payouts' = Empty
    /\ paid' = {}
    /\ opening' = balances
    /\ UNCHANGED <<list, years, today, balances>>

Finished == years > 0 /\ month = 12 * years + 1

\* The figures shown beside the chart: the balance as it is, the interests rounded.
TotalBalance == Total([a \in DOMAIN list |-> list[a].balance])

TotalInterests == Rounded(Total(balances) - TotalBalance)

Calculate == \/ \E s \in left : VisitInactive(s) \/ VisitYielding(s)
             \/ \E t \in DOMAIN payouts : PayOut(t)
             \/ EndMonth
-----------------------------------------------------------------------------
\* What is still to be visited yields on the balance it had when the month
\* began: no payout of the same month earns interest, in whatever order the map
\* is iterated.
InterestOnOpening ==
    Simulating => \A s \in left : balances[s] = opening[s]

\* The chart ends with the last month of the last year, and the figures shown
\* belong together: where it ends is TotalBalance and TotalInterests, to within the
\* one unit that two roundings can make.
ChartEndsAtTheTotals ==
    Finished => /\ point.index = IF InMonths(years) THEN 12 * years ELSE years
                /\ Abs(point.total - TotalBalance - TotalInterests) <= Unit

\* What the first month pays out is what the list of operations announces
\* (CalculateYieldPayouts), target by target.
PayoutsAsAnnounced ==
    (Simulating /\ month = 1 /\ left = {}) =>
        /\ DOMAIN payouts = {list[s].target : s \in DOMAIN YieldPayouts(list)}
        /\ \A t \in DOMAIN payouts :
             payouts[t] = Total([s \in {s \in DOMAIN YieldPayouts(list) : list[s].target = t} |->
                                   YieldPayouts(list)[s]])

\* When no two balances share a name, the lines of the chart add up to its total
\* but for their roundings: half a unit for each line and half a unit for the total.
LinesAddUp ==
    (years > 0 /\ Cardinality(DOMAIN point.lines) = Cardinality(DOMAIN opening)) =>
        2 * Abs(Total(point.lines) - point.total)
            <= Unit * (Cardinality(DOMAIN point.lines) + 1)

\* A chart of months shows each month after the one before it.
MonthsShownInOrder ==
    [][(years > 0 /\ InMonths(years) /\ point'.index = point.index + 1) =>
          point'.label = point.label + 1]_projectionVars

\* The loops over maps implement one step a month that depends on no order.
Months == INSTANCE MonthlyProjection WITH money <- opening

ImplementsMonths == Months!Spec

\* TotalInterests, the difference of two totals, is what was earned: when a month
\* is over, and before anything is rounded, all balances together have grown by the
\* interest of all accounts, but for the rests that no account is to receive or that
\* are not positive.
MonthGrowsByInterest ==
    (Simulating /\ left = {} /\ paid = DOMAIN payouts) =>
        Total(balances) =
            Total(opening)
              + Total([s \in Yielding(list) |-> MonthlyInterest(list[s], opening[s])])
              - Total([s \in Yielding(list) \ Months!Payers |-> Months!Rest(s)])
=============================================================================
