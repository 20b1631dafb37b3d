-------------------------- MODULE DashboardProofs --------------------------
(***************************************************************************)
(* Proofs about Dashboard, for any users, ids, forms and requests at the   *)
(* same time.  Sums over the accounts are kept folded: what they add up to *)
(* is in TotalProofs.                                                      *)
(***************************************************************************)
EXTENDS Dashboard, TLAPS

LEMMA RateIsInt == ASSUME NEW a \in Row PROVE Rate(a) \in Int
  BY DEF Rate, Row

LEMMA ReinvestedIsInt ==
  ASSUME NEW a \in Row, NEW b \in Int
  PROVE  MonthlyInterest(a, b) \in Int /\ Reinvested(a, b) \in Int
<1>1. b * Rate(a) \in Int  BY RateIsInt
<1>2. MonthlyInterest(a, b) \in Int  BY <1>1 DEF MonthlyInterest
<1>3. a.reinvest \in Int  BY DEF Row
<1>4. MonthlyInterest(a, b) * a.reinvest \in Int  BY <1>2, <1>3
<1> QED  BY <1>2, <1>4 DEF Reinvested

\* A credit adds one entry or adds to it.
LEMMA CreditTyped ==
  ASSUME NEW f, NEW a, NEW x \in Int, f \in [DOMAIN f -> Int]
  PROVE  /\ DOMAIN Credit(f, a, x) = DOMAIN f \cup {a}
         /\ Credit(f, a, x) \in [DOMAIN f \cup {a} -> Int]
  BY DEF Credit

LEMMA CreditPositive ==
  ASSUME NEW f, NEW a, NEW x \in Nat \ {0}, f \in [DOMAIN f -> Nat \ {0}]
  PROVE  /\ DOMAIN Credit(f, a, x) = DOMAIN f \cup {a}
         /\ Credit(f, a, x) \in [DOMAIN f \cup {a} -> Nat \ {0}]
  BY DEF Credit

LEMMA EmptyTyped == DOMAIN Empty = {} /\ \A T : Empty \in [{} -> T]
  BY DEF Empty
-----------------------------------------------------------------------------
(* The projection. *)

LEMMA BeginTyped ==
  ASSUME NEW l, DOMAIN l \subseteq Ids, l \in [DOMAIN l -> Row],
         NEW y \in Nat \ {0}, NEW date, Begin(l, y, date)
  PROVE  ProjectionTypeOK'
<1>1. [a \in DOMAIN l |-> l[a].balance] \in [DOMAIN l -> Int]  BY DEF Row
<1>2. month' \in 0..(12 * years' + 1)  BY DEF Begin
<1>3. /\ payouts' \in [DOMAIN payouts' -> Nat \ {0}]
      /\ DOMAIN payouts' = {}
      /\ paid' = {}
  BY EmptyTyped DEF Begin
<1> QED  BY <1>1, <1>2, <1>3 DEF Begin, ProjectionTypeOK

LEMMA ClearTyped ==
  ASSUME Clear PROVE ProjectionTypeOK'
<1>1. /\ years' = 0 /\ month' = 0 /\ left' = {} /\ paid' = {}
      /\ list' = Empty /\ balances' = Empty /\ payouts' = Empty /\ opening' = Empty
  BY DEF Clear
<1> QED  BY <1>1, EmptyTyped DEF ProjectionTypeOK

LEMMA VisitInactiveTyped ==
  ASSUME ProjectionTypeOK, NEW s \in left, VisitInactive(s)
  PROVE  ProjectionTypeOK'
<1>1. /\ left' = left \ {s} /\ s \in DOMAIN list
      /\ list' = list /\ years' = years /\ month' = month /\ balances' = balances
      /\ payouts' = payouts /\ paid' = paid /\ opening' = opening
  BY DEF VisitInactive, ProjectionTypeOK
<1>2. DOMAIN list \ left \subseteq DOMAIN list \ left'  BY <1>1
<1>3. DOMAIN payouts' \subseteq {list'[t].target : t \in DOMAIN list' \ left'}
  BY <1>1, <1>2 DEF ProjectionTypeOK
<1>4. paid' # {} => left' = {}  BY <1>1 DEF ProjectionTypeOK
<1> QED  BY <1>1, <1>3, <1>4 DEF ProjectionTypeOK

LEMMA VisitYieldingTyped ==
  ASSUME ProjectionTypeOK, NEW s \in left, VisitYielding(s)
  PROVE  ProjectionTypeOK'
<1> DEFINE kept   == Reinvested(list[s], balances[s])
           payout == MonthlyInterest(list[s], balances[s]) - kept
<1>1. /\ left' = left \ {s} /\ s \in DOMAIN list
      /\ list' = list /\ years' = years /\ month' = month /\ paid' = paid /\ opening' = opening
      /\ balances' = [balances EXCEPT ![s] = @ + kept]
      /\ payouts' = IF payout > 0 /\ list[s].target # None
                      THEN Credit(payouts, list[s].target, payout) ELSE payouts
  BY DEF VisitYielding, ProjectionTypeOK
<1>2. list[s] \in Row /\ balances[s] \in Int /\ s \in DOMAIN balances
  BY <1>1 DEF ProjectionTypeOK
<1>3. kept \in Int /\ payout \in Int  BY <1>2, ReinvestedIsInt
<1> HIDE DEF kept, payout
<1>4. DOMAIN balances' = DOMAIN balances /\ balances' \in [DOMAIN balances -> Int]
  BY <1>1, <1>2, <1>3 DEF ProjectionTypeOK
<1>5. /\ payouts' \in [DOMAIN payouts' -> Nat \ {0}]
      /\ DOMAIN payouts \subseteq DOMAIN payouts'
      /\ DOMAIN payouts' \subseteq DOMAIN payouts \cup ({list[s].target} \ {None})
  <2>1. CASE payout > 0 /\ list[s].target # None
    <3>1. payout \in Nat \ {0}  BY <1>3, <2>1
    <3>2. payouts \in [DOMAIN payouts -> Nat \ {0}]  BY DEF ProjectionTypeOK
    <3>3. payouts' = Credit(payouts, list[s].target, payout)  BY <1>1, <2>1
    <3>4. /\ DOMAIN payouts' = DOMAIN payouts \cup {list[s].target}
          /\ payouts' \in [DOMAIN payouts \cup {list[s].target} -> Nat \ {0}]
      BY <3>1, <3>2, <3>3, CreditPositive
    <3> QED  BY <2>1, <3>4
  <2>2. CASE ~(payout > 0 /\ list[s].target # None)
    <3>1. payouts' = payouts  BY <1>1, <2>2
    <3> QED  BY <3>1 DEF ProjectionTypeOK
  <2> QED  BY <2>1, <2>2
<1>6. DOMAIN payouts' \subseteq {list'[t].target : t \in DOMAIN list' \ left'}
  <2>1. list[s].target \in {list[t].target : t \in DOMAIN list \ left'}  BY <1>1
  <2>2. {list[t].target : t \in DOMAIN list \ left} \subseteq
          {list[t].target : t \in DOMAIN list \ left'}
    BY <1>1
  <2> QED  BY <1>1, <1>5, <2>1, <2>2 DEF ProjectionTypeOK
<1>7. None \notin DOMAIN payouts'  BY <1>5 DEF ProjectionTypeOK
<1>8. paid' \subseteq DOMAIN payouts' /\ (paid' # {} => left' = {})
  BY <1>1, <1>5 DEF ProjectionTypeOK
<1>9. /\ years' \in Nat /\ month' \in 0..(12 * years' + 1)
      /\ DOMAIN list' \subseteq Ids /\ list' \in [DOMAIN list' -> Row]
      /\ left' \subseteq DOMAIN list'
      /\ DOMAIN list' \subseteq DOMAIN opening' /\ opening' \in [DOMAIN opening' -> Int]
  BY <1>1 DEF ProjectionTypeOK
<1>10. /\ DOMAIN list' \subseteq DOMAIN balances' /\ DOMAIN balances' \subseteq Ids
       /\ balances' \in [DOMAIN balances' -> Int] /\ DOMAIN opening' \subseteq DOMAIN balances'
  BY <1>1, <1>4 DEF ProjectionTypeOK
<1> QED  BY <1>5, <1>6, <1>7, <1>8, <1>9, <1>10 DEF ProjectionTypeOK

\* Targets are ids, so that a credit makes no other entry.
LEMMA PayOutTyped ==
  ASSUME ProjectionTypeOK, NEW t \in DOMAIN payouts, PayOut(t)
  PROVE  ProjectionTypeOK'
<1>1. /\ left = {} /\ left' = left /\ paid' = paid \cup {t} /\ list' = list
      /\ years' = years /\ month' = month /\ payouts' = payouts /\ opening' = opening
      /\ balances' = Credit(balances, t, payouts[t])
  BY DEF PayOut
<1>2. t \in Ids  BY DEF ProjectionTypeOK, Row
<1>3. payouts[t] \in Int  BY DEF ProjectionTypeOK
<1>4. balances \in [DOMAIN balances -> Int]  BY DEF ProjectionTypeOK
<1>5. /\ DOMAIN balances' = DOMAIN balances \cup {t}
      /\ balances' \in [DOMAIN balances \cup {t} -> Int]
  BY <1>1, <1>3, <1>4, CreditTyped
<1>6. /\ DOMAIN list' \subseteq DOMAIN balances' /\ DOMAIN balances' \subseteq Ids
      /\ balances' \in [DOMAIN balances' -> Int] /\ DOMAIN opening' \subseteq DOMAIN balances'
  BY <1>1, <1>2, <1>5 DEF ProjectionTypeOK
<1> QED  BY <1>1, <1>6 DEF ProjectionTypeOK

LEMMA EndMonthTyped ==
  ASSUME ProjectionTypeOK, EndMonth
  PROVE  ProjectionTypeOK'
<1>1. /\ left' = DOMAIN list /\ paid' = {} /\ list' = list /\ years' = years
      /\ month' = month + 1 /\ month \in 1..(12 * years)
      /\ payouts' = Empty /\ opening' = balances /\ balances' = balances
  BY DEF EndMonth, Simulating
<1>2. month' \in 0..(12 * years' + 1)  BY <1>1 DEF ProjectionTypeOK
<1>3. DOMAIN payouts' = {} /\ payouts' \in [DOMAIN payouts' -> Nat \ {0}]
  BY <1>1, EmptyTyped
<1> QED  BY <1>1, <1>2, <1>3 DEF ProjectionTypeOK

LEMMA CalculateTyped ==
  ASSUME ProjectionTypeOK, Calculate
  PROVE  ProjectionTypeOK' /\ years' = years
<1>1. ASSUME NEW s \in left, VisitInactive(s) PROVE ProjectionTypeOK' /\ years' = years
  BY <1>1, VisitInactiveTyped DEF VisitInactive
<1>2. ASSUME NEW s \in left, VisitYielding(s) PROVE ProjectionTypeOK' /\ years' = years
  BY <1>2, VisitYieldingTyped DEF VisitYielding
<1>3. ASSUME NEW t \in DOMAIN payouts, PayOut(t) PROVE ProjectionTypeOK' /\ years' = years
  BY <1>3, PayOutTyped DEF PayOut
<1>4. ASSUME EndMonth PROVE ProjectionTypeOK' /\ years' = years
  BY <1>4, EndMonthTyped DEF EndMonth
<1> QED  BY <1>1, <1>2, <1>3, <1>4 DEF Calculate

\* A visit changes the balance of the account visited only, and no credit comes
\* before the last visit.
LEMMA CalculateOnOpening ==
  ASSUME ProjectionTypeOK, InterestOnOpening, Calculate
  PROVE  InterestOnOpening'
<1>1. ASSUME NEW s \in left, VisitInactive(s) PROVE InterestOnOpening'
  BY <1>1 DEF VisitInactive, InterestOnOpening, Simulating
<1>2. ASSUME NEW s \in left, VisitYielding(s) PROVE InterestOnOpening'
  <2>1. /\ left' = left \ {s} /\ opening' = opening /\ Simulating
        /\ balances' = [balances EXCEPT ![s] = @ + Reinvested(list[s], @)]
    BY <1>2 DEF VisitYielding
  <2>2. \A t \in left' : t # s /\ t \in DOMAIN balances /\ t \in left
    BY <2>1 DEF ProjectionTypeOK
  <2>3. \A t \in left' : balances'[t] = balances[t]  BY <2>1, <2>2
  <2>4. \A t \in left' : balances[t] = opening[t]  BY <2>1, <2>2 DEF InterestOnOpening
  <2> QED  BY <2>1, <2>3, <2>4 DEF InterestOnOpening
<1>3. ASSUME NEW t \in DOMAIN payouts, PayOut(t) PROVE InterestOnOpening'
  BY <1>3 DEF PayOut, InterestOnOpening
<1>4. ASSUME EndMonth PROVE InterestOnOpening'
  BY <1>4 DEF EndMonth, InterestOnOpening
<1> QED  BY <1>1, <1>2, <1>3, <1>4 DEF Calculate

\* The last point, before the figures beside the chart are looked at.
ChartInv ==
    Finished => /\ point.index = IF InMonths(years) THEN 12 * years ELSE years
                /\ point.total = Rounded(Total(balances))

\* The last month always gets a point: its number is a multiple of twelve.
LEMMA CalculateChart ==
  ASSUME ProjectionTypeOK, ChartInv, Calculate
  PROVE  ChartInv'
<1>1. ASSUME NEW s \in left, VisitInactive(s) PROVE ChartInv'
  BY <1>1 DEF VisitInactive, Simulating, ChartInv, Finished, ProjectionTypeOK
<1>2. ASSUME NEW s \in left, VisitYielding(s) PROVE ChartInv'
  BY <1>2 DEF VisitYielding, Simulating, ChartInv, Finished, ProjectionTypeOK
<1>3. ASSUME NEW t \in DOMAIN payouts, PayOut(t) PROVE ChartInv'
  BY <1>3 DEF PayOut, Simulating, ChartInv, Finished, ProjectionTypeOK
<1>4. ASSUME EndMonth, Finished' PROVE ChartInv'
  <2>1. /\ month' = month + 1 /\ years' = years /\ balances' = balances
        /\ month \in 1..(12 * years) /\ years \in Nat
    BY <1>4 DEF EndMonth, Simulating, ProjectionTypeOK
  <2>2. month = 12 * years  BY <1>4, <2>1 DEF Finished
  <2>3. month % 12 = 0 /\ month \div 12 = years  BY <2>1, <2>2
  <2>4. Shown(month, years)  BY <2>3 DEF Shown
  <2> DEFINE index == IF InMonths(years) THEN month ELSE month \div 12
             label == IF InMonths(years) THEN MonthName(today, month)
                                         ELSE YearName(today, month \div 12)
  <2>5. point' \in YearData(index, label, list, balances)  BY <1>4, <2>4 DEF EndMonth
  <2>6. point'.index = index /\ point'.total = Rounded(Total(balances))
    BY <2>5 DEF YearData
  <2> QED  BY <2>1, <2>2, <2>3, <2>6 DEF ChartInv
<1> QED  BY <1>1, <1>2, <1>3, <1>4 DEF Calculate, ChartInv
-----------------------------------------------------------------------------
(* The ledger. *)

LEMMA GotoTyped ==
  ASSUME LedgerTypeOK, NEW r \in Slots, NEW pc \in Stages, req[r].pc # "idle", Goto(r, pc)
  PROVE  /\ req' \in [Slots -> Request]
         /\ req'[r].pc = pc
         /\ \A q \in Slots : q # r => req'[q] = req[q]
         /\ \A q \in Slots : req'[q].pc # "idle" => req'[q].user \in Users
<1>1. req \in [Slots -> Request]  BY DEF LedgerTypeOK
<1>2. req[r] \in Request /\ req[r].user \in Users  BY <1>1 DEF LedgerTypeOK
<1>3. req' = [req EXCEPT ![r].pc = pc]  BY DEF Goto
<1>4. req'[r] = [req[r] EXCEPT !.pc = pc] /\ \A q \in Slots : q # r => req'[q] = req[q]
  BY <1>1, <1>3
<1>5. req'[r] \in Request /\ req'[r].pc = pc /\ req'[r].user = req[r].user
  BY <1>2, <1>4 DEF Request
<1>6. req' \in [Slots -> Request]  BY <1>1, <1>3, <1>5, <1>4
<1> QED  BY <1>2, <1>4, <1>5, <1>6 DEF LedgerTypeOK

LEMMA RespondTyped ==
  ASSUME LedgerTypeOK, NEW r \in Slots, Respond(r)
  PROVE  /\ req' \in [Slots -> Request]
         /\ req'[r].pc = "idle"
         /\ \A q \in Slots : q # r => req'[q] = req[q]
         /\ \A q \in Slots : req'[q].pc # "idle" => req'[q].user \in Users
  BY DEF LedgerTypeOK, Respond, IdleRequest, Request

\* What a request reads are rows, whoever they belong to.
LEMMA ReadTyped ==
  ASSUME LedgerTypeOK, NEW u
  PROVE  /\ \A l \in Read(AccountsOf(u)) : DOMAIN l \subseteq Ids /\ l \in [DOMAIN l -> Row]
         /\ \A l \in Read(OperationsOf(u)) :
              DOMAIN l \subseteq OperationIds /\ l \in [DOMAIN l -> Operation]
<1>1. /\ DOMAIN AccountsOf(u) \subseteq Ids
      /\ AccountsOf(u) \in [DOMAIN AccountsOf(u) -> Row]
  BY DEF AccountsOf, LedgerTypeOK, Account
<1>2. /\ DOMAIN OperationsOf(u) \subseteq OperationIds
      /\ OperationsOf(u) \in [DOMAIN OperationsOf(u) -> Operation]
  BY DEF OperationsOf, LedgerTypeOK
<1>3. \A rows : \A l \in Read(rows) : l = rows \/ l = Empty  BY DEF Read
<1> QED  BY <1>1, <1>2, <1>3, EmptyTyped

\* The parts of the type invariant that a step may change one at a time.
AccountsTyped ==
    /\ DOMAIN accounts \subseteq used \cap Ids
    /\ accounts \in [DOMAIN accounts -> Account]

OperationsTyped ==
    /\ DOMAIN operations \subseteq used \cap OperationIds
    /\ operations \in [DOMAIN operations -> Operation]

RequestsTyped ==
    /\ req \in [Slots -> Request]
    /\ \A r \in Slots : req[r].pc # "idle" => req[r].user \in Users

ReadsTyped ==
    /\ listRead = [r \in Slots |-> listRead[r]]
    /\ opsRead = [r \in Slots |-> opsRead[r]]
    /\ \A r \in Slots : /\ DOMAIN listRead[r] \subseteq Ids
                        /\ listRead[r] \in [DOMAIN listRead[r] -> Row]
                        /\ DOMAIN opsRead[r] \subseteq OperationIds
                        /\ opsRead[r] \in [DOMAIN opsRead[r] -> Operation]

LEMMA LedgerParts ==
  LedgerTypeOK <=> /\ AccountsTyped /\ OperationsTyped /\ RequestsTyped /\ ReadsTyped
                   /\ used \subseteq Ids \cup OperationIds
  BY DEF LedgerTypeOK, AccountsTyped, OperationsTyped, RequestsTyped, ReadsTyped

LEMMA LedgerPartsNext ==
  LedgerTypeOK' <=> /\ AccountsTyped' /\ OperationsTyped' /\ RequestsTyped' /\ ReadsTyped'
                    /\ (used \subseteq Ids \cup OperationIds)'
  BY DEF LedgerTypeOK, AccountsTyped, OperationsTyped, RequestsTyped, ReadsTyped

\* Each write stores rows of the type, for its own table.
LEMMA WriteTyped ==
  ASSUME LedgerTypeOK, NEW r \in Slots, Write(r)
  PROVE  /\ LedgerTypeOK'
         /\ req[r].pc \in Writes /\ req'[r].pc \notin {"calculating"}
         /\ \A q \in Slots : q # r => req'[q] = req[q]
         /\ reads' = reads
<1> DEFINE Served == /\ RequestsTyped'
                     /\ req[r].pc \in Writes /\ req'[r].pc \notin {"calculating"}
                     /\ \A q \in Slots : q # r => req'[q] = req[q]
<1>u. req[r].pc \in Writes => req[r].user \in Users /\ req[r].pc # "idle"
  BY DEF LedgerTypeOK, Writes
<1>g. ASSUME req[r].pc \in Writes, NEW pc \in {"page", "table"}, Goto(r, pc) PROVE Served
  BY <1>g, <1>u, GotoTyped DEF Stages, Entries, RequestsTyped
<1>r. ASSUME req[r].pc \in Writes, Respond(r) PROVE Served
  BY <1>r, RespondTyped DEF RequestsTyped
<1> HIDE DEF Served
<1>q. ASSUME reads' = reads PROVE ReadsTyped'
  BY <1>q, LedgerParts DEF ReadsTyped, reads
<1>f. \A f \in AccountForms : f \in Row  BY FormsAssumption
<1>o. \A f \in OperationForms :
        /\ f.account \in Ids /\ f.to \in Ids \cup {None}
        /\ f.amount \in Int /\ -f.amount \in Int /\ f.day \in Int
        /\ Signed(f) \in Int /\ Day(f) \in Int
  <2> SUFFICES ASSUME NEW f \in OperationForms
               PROVE  /\ f.account \in Ids /\ f.to \in Ids \cup {None}
                      /\ f.amount \in Int /\ -f.amount \in Int /\ f.day \in Int
                      /\ Signed(f) \in Int /\ Day(f) \in Int
    OBVIOUS
  <2>1. f \in OperationForm  BY FormsAssumption
  <2> QED  BY <2>1 DEF OperationForm, Signed, Day
<1>a. AccountsTyped /\ OperationsTyped /\ used \subseteq Ids \cup OperationIds  BY LedgerParts
<1> DEFINE Goal == LedgerTypeOK' /\ Served /\ reads' = reads
<1>w. ASSUME AccountsTyped', OperationsTyped', (used \subseteq Ids \cup OperationIds)',
             Served, reads' = reads
      PROVE  Goal
  BY <1>w, <1>q, LedgerPartsNext DEF Served
<1>1. ASSUME InsertAccount(r) PROVE Goal
  <2>1. /\ req[r].pc \in Writes /\ Goto(r, "page")
        /\ operations' = operations /\ reads' = reads
    BY <1>1 DEF InsertAccount, At, Writes, reads
  <2>2. PICK a \in Ids \ used, f \in AccountForms :
          /\ accounts' = [c \in DOMAIN accounts \cup {a} |->
                            IF c = a THEN [owner |-> req[r].user, row |-> f] ELSE accounts[c]]
          /\ used' = used \cup {a}
    BY <1>1 DEF InsertAccount
  <2>3. [owner |-> req[r].user, row |-> f] \in Account  BY <2>1, <1>u, <1>f DEF Account
  <2>4. AccountsTyped'  BY <1>a, <2>2, <2>3 DEF AccountsTyped
  <2>5. OperationsTyped'  BY <1>a, <2>1, <2>2 DEF OperationsTyped
  <2>6. (used \subseteq Ids \cup OperationIds)'  BY <1>a, <2>2
  <2> QED  BY <2>1, <2>4, <2>5, <2>6, <1>g, <1>w
<1>n. ASSUME operations' = operations, used' = used, reads' = reads, Served,
             DOMAIN accounts' \subseteq DOMAIN accounts,
             accounts' \in [DOMAIN accounts' -> Account]
      PROVE  Goal
  <2>1. AccountsTyped' /\ OperationsTyped' /\ (used \subseteq Ids \cup OperationIds)'
    BY <1>n, <1>a DEF AccountsTyped, OperationsTyped
  <2> QED  BY <2>1, <1>n, <1>w
<1>m. \A c \in DOMAIN accounts : accounts[c] \in Account  BY <1>a DEF AccountsTyped
<1>2. ASSUME SaveAccount(r) PROVE Goal
  <2>1. /\ req[r].pc \in Writes /\ Goto(r, "page")
        /\ operations' = operations /\ used' = used /\ reads' = reads
    BY <1>2 DEF SaveAccount, At, Writes, reads
  <2>2. PICK a \in Ids, f \in AccountForms :
          accounts' = [c \in DOMAIN accounts |->
                         IF c \in Found(accounts, a, req[r].user)
                           THEN [accounts[c] EXCEPT !.row = f] ELSE accounts[c]]
    BY <1>2 DEF SaveAccount
  <2>3. \A c \in DOMAIN accounts : [accounts[c] EXCEPT !.row = f] \in Account
    BY <1>m, <1>f DEF Account
  <2>4. accounts' \in [DOMAIN accounts -> Account]  BY <2>2, <2>3, <1>m
  <2> QED  BY <2>1, <2>4, <1>g, <1>n
<1>3. ASSUME UpdateAccount(r) PROVE Goal
  <2>1. /\ req[r].pc \in Writes /\ Respond(r)
        /\ operations' = operations /\ used' = used /\ reads' = reads
    BY <1>3 DEF UpdateAccount, At, Writes, reads
  <2>2. PICK a \in Ids, f \in AccountForms :
          accounts' = [c \in DOMAIN accounts |->
                         IF c \in Found(accounts, a, req[r].user)
                           THEN [accounts[c] EXCEPT !.row.name = f.name, !.row.balance = f.balance]
                           ELSE accounts[c]]
    BY <1>3 DEF UpdateAccount
  <2>3. \A c \in DOMAIN accounts :
          [accounts[c] EXCEPT !.row.name = f.name, !.row.balance = f.balance] \in Account
    <3>1. f \in Row  BY <1>f
    <3> SUFFICES ASSUME NEW c \in DOMAIN accounts
                 PROVE  [accounts[c] EXCEPT !.row.name = f.name, !.row.balance = f.balance]
                          \in Account
      OBVIOUS
    <3>2. accounts[c] \in Account  BY <1>m
    <3> QED  BY <3>1, <3>2 DEF Account, Row
  <2>4. accounts' \in [DOMAIN accounts -> Account]  BY <2>2, <2>3, <1>m
  <2> QED  BY <2>1, <2>4, <1>r, <1>n
<1>4. ASSUME UpdateBalance(r) PROVE Goal
  <2>1. /\ req[r].pc \in Writes /\ Respond(r)
        /\ operations' = operations /\ used' = used /\ reads' = reads
    BY <1>4 DEF UpdateBalance, At, Writes, reads
  <2>2. PICK a \in Ids, f \in AccountForms :
          accounts' = [c \in DOMAIN accounts |->
                         IF c \in Found(accounts, a, req[r].user)
                           THEN [accounts[c] EXCEPT !.row.balance = f.balance] ELSE accounts[c]]
    BY <1>4 DEF UpdateBalance
  <2>3. \A c \in DOMAIN accounts : [accounts[c] EXCEPT !.row.balance = f.balance] \in Account
    <3>1. f \in Row  BY <1>f
    <3> QED  BY <3>1, <1>m DEF Account, Row
  <2>4. accounts' \in [DOMAIN accounts -> Account]  BY <2>2, <2>3, <1>m
  <2> QED  BY <2>1, <2>4, <1>r, <1>n
<1>k. \A c \in DOMAIN operations : operations[c] \in Operation  BY <1>a DEF OperationsTyped
<1>5. ASSUME DeleteAccount(r) PROVE Goal
  <2>1. req[r].pc \in Writes /\ Goto(r, "page") /\ used' = used /\ reads' = reads
    BY <1>5 DEF DeleteAccount, At, Writes, reads
  <2>s. Served  BY <2>1, <1>g
  <2>2. PICK gone :
          \/ accounts' = AccountsWithout(gone) /\ operations' = OperationsWithout(gone)
          \/ /\ accounts' = [c \in DOMAIN accounts \ gone |-> accounts[c]]
             /\ operations' = operations
    BY <1>5 DEF DeleteAccount
  <2>3. CASE operations' = operations /\ accounts' = [c \in DOMAIN accounts \ gone |-> accounts[c]]
    <3>1. /\ DOMAIN accounts' \subseteq DOMAIN accounts
          /\ accounts' \in [DOMAIN accounts' -> Account]
      BY <2>3, <1>m
    <3> QED  BY <2>1, <2>3, <2>s, <3>1, <1>n
  <2>4. CASE accounts' = AccountsWithout(gone) /\ operations' = OperationsWithout(gone)
    <3>1. \A c \in DOMAIN accounts :
            [accounts[c] EXCEPT !.row.target = Cleared(@, gone)] \in Account
      BY <1>m DEF Account, Row, Cleared
    <3>2. AccountsTyped'  BY <1>a, <2>1, <2>4, <3>1 DEF AccountsTyped, AccountsWithout
    <3>3. \A o \in DOMAIN operations : [operations[o] EXCEPT !.to = Cleared(@, gone)] \in Operation
      BY <1>k DEF Operation, Cleared
    <3>4. OperationsTyped'  BY <1>a, <2>1, <2>4, <3>3 DEF OperationsTyped, OperationsWithout
    <3> QED  BY <1>a, <2>1, <2>s, <3>2, <3>4, <1>w
  <2> QED  BY <2>2, <2>3, <2>4
<1>p. ASSUME accounts' = accounts, used' = used, reads' = reads, Served,
             DOMAIN operations' \subseteq DOMAIN operations,
             operations' \in [DOMAIN operations' -> Operation]
      PROVE  Goal
  <2>1. AccountsTyped' /\ OperationsTyped' /\ (used \subseteq Ids \cup OperationIds)'
    BY <1>p, <1>a DEF AccountsTyped, OperationsTyped
  <2> QED  BY <2>1, <1>p, <1>w
<1>6. ASSUME InsertOperation(r) PROVE Goal
  <2>1. /\ req[r].pc \in Writes /\ Goto(r, "table")
        /\ accounts' = accounts /\ reads' = reads
    BY <1>6 DEF InsertOperation, At, Writes, reads
  <2>2. PICK o \in OperationIds \ used, f \in OperationForms :
          /\ operations' =
               [c \in DOMAIN operations \cup {o} |->
                  IF c = o THEN [owner |-> req[r].user, account |-> f.account,
                                 to |-> f.to, amount |-> Signed(f), day |-> Day(f)]
                           ELSE operations[c]]
          /\ used' = used \cup {o}
    BY <1>6 DEF InsertOperation
  <2>3. [owner |-> req[r].user, account |-> f.account, to |-> f.to,
         amount |-> Signed(f), day |-> Day(f)] \in Operation
    BY <2>1, <1>u, <1>o DEF Operation
  <2>4. OperationsTyped'  BY <1>a, <2>2, <2>3 DEF OperationsTyped
  <2>5. AccountsTyped'  BY <1>a, <2>1, <2>2 DEF AccountsTyped
  <2>6. (used \subseteq Ids \cup OperationIds)'  BY <1>a, <2>2
  <2> QED  BY <2>1, <2>4, <2>5, <2>6, <1>g, <1>w
<1>c. ASSUME NEW o, NEW to \in Ids \cup {None}, NEW amount \in Int, NEW day \in Int
      PROVE  Changed(r, o, to, amount, day) \in [DOMAIN operations -> Operation]
  <2>1. \A c \in DOMAIN operations :
          [operations[c] EXCEPT !.to = to, !.amount = amount, !.day = day] \in Operation
    BY <1>c, <1>k DEF Operation
  <2> QED  BY <2>1, <1>k DEF Changed
<1>7. ASSUME SaveOperation(r) PROVE Goal
  <2>1. /\ req[r].pc \in Writes /\ Goto(r, "table")
        /\ accounts' = accounts /\ used' = used /\ reads' = reads
    BY <1>7 DEF SaveOperation, At, Writes, reads
  <2>2. PICK o \in OperationIds, f \in OperationForms :
          operations' = Changed(r, o, f.to, Signed(f), Day(f))
    BY <1>7 DEF SaveOperation
  <2>3. operations' \in [DOMAIN operations -> Operation]  BY <2>2, <1>c, <1>o
  <2> QED  BY <2>1, <2>3, <1>g, <1>p
<1>8. ASSUME UpdateOperation(r) PROVE Goal
  <2>1. /\ req[r].pc \in Writes /\ Respond(r)
        /\ accounts' = accounts /\ used' = used /\ reads' = reads
    BY <1>8 DEF UpdateOperation, At, Writes, reads
  <2>2. PICK o \in OperationIds, f \in OperationForms :
          operations' = Changed(r, o, f.to, IF f.type = "expense" THEN -f.amount ELSE f.amount,
                                f.day)
    BY <1>8 DEF UpdateOperation
  <2>3. (IF f.type = "expense" THEN -f.amount ELSE f.amount) \in Int  BY <1>o
  <2>4. operations' \in [DOMAIN operations -> Operation]  BY <2>2, <2>3, <1>c, <1>o
  <2> QED  BY <2>1, <2>4, <1>r, <1>p
<1>9. ASSUME DeleteOperation(r) PROVE Goal
  <2>1. /\ req[r].pc \in Writes /\ Goto(r, "table")
        /\ accounts' = accounts /\ used' = used /\ reads' = reads
    BY <1>9 DEF DeleteOperation, At, Writes, reads
  <2>2. PICK o \in OperationIds :
          operations' = [c \in DOMAIN operations \ Found(operations, o, req[r].user) |->
                           operations[c]]
    BY <1>9 DEF DeleteOperation
  <2>3. /\ DOMAIN operations' \subseteq DOMAIN operations
        /\ operations' \in [DOMAIN operations' -> Operation]
    BY <2>2, <1>k
  <2> QED  BY <2>1, <2>3, <1>g, <1>p
<1>e. Goal  BY <1>1, <1>2, <1>3, <1>4, <1>5, <1>6, <1>7, <1>8, <1>9 DEF Write
<1> QED  BY <1>e DEF Served

\* The steps that read, arrive, fail or answer leave the tables alone.
LEMMA OtherTyped ==
  ASSUME LedgerTypeOK, NEW r \in Slots, Submit(r) \/ Refuse(r) \/ Show(r) \/ Answer(r)
  PROVE  /\ LedgerTypeOK'
         /\ tables' = tables
         /\ req[r].pc # "calculating" /\ req'[r].pc # "calculating"
         /\ \A q \in Slots : q # r => req'[q] = req[q]
<1> DEFINE Moved == /\ RequestsTyped'
                    /\ req[r].pc # "calculating" /\ req'[r].pc # "calculating"
                    /\ \A q \in Slots : q # r => req'[q] = req[q]
<1>g. ASSUME req[r].pc \in Stages \ {"calculating"}, Goto(r, "shown") \/ Goto(r, "pageOperations")
                                                       \/ Goto(r, "tableAccounts")
      PROVE  Moved
  <2>1. "idle" \notin Stages /\ {"shown", "pageOperations", "tableAccounts"} \subseteq Stages
    BY DEF Stages, Entries, Writes
  <2> QED  BY <1>g, <2>1, GotoTyped DEF RequestsTyped
<1>r. ASSUME req[r].pc # "calculating", Respond(r) PROVE Moved
  BY <1>r, RespondTyped DEF RequestsTyped
<1>s. ASSUME Submit(r) PROVE Moved
  <2>1. PICK u \in Users, pc \in Requests : req' = [req EXCEPT ![r] = [pc |-> pc, user |-> u]]
    BY <1>s DEF Submit
  <2>2. pc \in Stages /\ pc # "calculating"
    BY RequestsAssumption DEF Entries, Stages, Writes
  <2>3. [pc |-> pc, user |-> u] \in Request  BY <2>2 DEF Request
  <2>4. req[r].pc = "idle"  BY <1>s DEF Submit, IdleRequest
  <2>5. req \in [Slots -> Request] /\ \A q \in Slots : req[q].pc # "idle" => req[q].user \in Users
    BY DEF LedgerTypeOK
  <2>6. req'[r] = [pc |-> pc, user |-> u] /\ \A q \in Slots : q # r => req'[q] = req[q]
    BY <2>1, <2>5
  <2>7. req' \in [Slots -> Request]  BY <2>1, <2>3, <2>5
  <2> QED  BY <2>2, <2>4, <2>5, <2>6, <2>7 DEF RequestsTyped
<1> HIDE DEF Moved
<1>a. /\ AccountsTyped /\ OperationsTyped /\ ReadsTyped /\ used \subseteq Ids \cup OperationIds
  BY LedgerParts
<1>w. ASSUME tables' = tables, Moved, ReadsTyped'
      PROVE  LedgerTypeOK' /\ tables' = tables /\ Moved
  <2>1. AccountsTyped' /\ OperationsTyped' /\ (used \subseteq Ids \cup OperationIds)'
    BY <1>w, <1>a DEF AccountsTyped, OperationsTyped, tables
  <2> QED  BY <2>1, <1>w, LedgerPartsNext DEF Moved
<1>q. reads' = reads => ReadsTyped'  BY <1>a DEF ReadsTyped, reads
<1>l. ReadAccounts(r) => ReadsTyped'
  <2> SUFFICES ASSUME ReadAccounts(r) PROVE ReadsTyped'
    OBVIOUS
  <2>1. PICK l \in Read(AccountsOf(req[r].user)) : listRead' = [listRead EXCEPT ![r] = l]
    BY DEF ReadAccounts
  <2>2. opsRead' = opsRead  BY DEF ReadAccounts
  <2>3. DOMAIN l \subseteq Ids /\ l \in [DOMAIN l -> Row]  BY <2>1, ReadTyped
  <2>4. listRead'[r] = l /\ \A q \in Slots : q # r => listRead'[q] = listRead[q]
    BY <2>1, <1>a DEF ReadsTyped
  <2>5. listRead' = [q \in Slots |-> listRead'[q]]  BY <2>1, <1>a DEF ReadsTyped
  <2> QED  BY <2>2, <2>3, <2>4, <2>5, <1>a DEF ReadsTyped
<1>o. ReadOperations(r) => ReadsTyped'
  <2> SUFFICES ASSUME ReadOperations(r) PROVE ReadsTyped'
    OBVIOUS
  <2>1. PICK l \in Read(OperationsOf(req[r].user)) : opsRead' = [opsRead EXCEPT ![r] = l]
    BY DEF ReadOperations
  <2>2. listRead' = listRead  BY DEF ReadOperations
  <2>3. DOMAIN l \subseteq OperationIds /\ l \in [DOMAIN l -> Operation]  BY <2>1, ReadTyped
  <2>4. opsRead'[r] = l /\ \A q \in Slots : q # r => opsRead'[q] = opsRead[q]
    BY <2>1, <1>a DEF ReadsTyped
  <2>5. opsRead' = [q \in Slots |-> opsRead'[q]]  BY <2>1, <1>a DEF ReadsTyped
  <2> QED  BY <2>2, <2>3, <2>4, <2>5, <1>a DEF ReadsTyped
<1>1. ASSUME Submit(r) PROVE LedgerTypeOK' /\ tables' = tables /\ Moved
  <2>1. tables' = tables /\ reads' = reads  BY <1>1 DEF Submit, tables, reads
  <2> QED  BY <2>1, <1>1, <1>s, <1>q, <1>w
<1>2. ASSUME Refuse(r) PROVE LedgerTypeOK' /\ tables' = tables /\ Moved
  <2>1. /\ tables' = tables /\ reads' = reads /\ Respond(r) /\ req[r].pc # "calculating"
    BY <1>2 DEF Refuse, tables, reads, Writes
  <2> QED  BY <2>1, <1>r, <1>q, <1>w
<1>3. ASSUME Show(r) PROVE LedgerTypeOK' /\ tables' = tables /\ Moved
  <2>1. tables' = tables /\ (ReadAccounts(r) \/ ReadOperations(r))
    BY <1>3 DEF Show, PageAccounts, PageOperations, TableOperations, TableAccounts,
                ReadAccounts, ReadOperations, tables
  <2>2. /\ req[r].pc \in Stages \ {"calculating"}
        /\ Goto(r, "shown") \/ Goto(r, "pageOperations") \/ Goto(r, "tableAccounts")
    BY <1>3 DEF Show, PageAccounts, PageOperations, TableOperations, TableAccounts, At,
                Stages, Entries
  <2> QED  BY <2>1, <2>2, <1>g, <1>l, <1>o, <1>w
<1>4. ASSUME Answer(r) PROVE LedgerTypeOK' /\ tables' = tables /\ Moved
  <2>1. /\ tables' = tables /\ Respond(r) /\ req[r].pc # "calculating"
        /\ listRead' = [listRead EXCEPT ![r] = Empty] /\ opsRead' = [opsRead EXCEPT ![r] = Empty]
    BY <1>4 DEF Answer, At, tables
  <2>2. ReadsTyped'  BY <2>1, <1>a, EmptyTyped DEF ReadsTyped
  <2> QED  BY <2>1, <2>2, <1>r, <1>w
<1>5. LedgerTypeOK' /\ tables' = tables /\ Moved  BY <1>1, <1>2, <1>3, <1>4
<1> QED  BY <1>5 DEF Moved
-----------------------------------------------------------------------------
(* The two composed. *)

\* Who calculates: nobody while no years are asked for, one request otherwise.
Calculators ==
    /\ years > 0 => \E r \in Slots : req[r].pc = "calculating"
    /\ \A r, s \in Slots : req[r].pc = "calculating" /\ req[s].pc = "calculating" =>
         r = s /\ years > 0

LEMMA TypeParts ==
  TypeOK <=> ProjectionTypeOK /\ LedgerTypeOK /\ written \in 0..MaxWrites /\ Calculators
  BY DEF TypeOK, Calculators

LEMMA TypePartsNext ==
  TypeOK' <=> /\ ProjectionTypeOK' /\ LedgerTypeOK' /\ (written \in 0..MaxWrites)'
              /\ Calculators'
  BY DEF TypeOK, Calculators

\* What is proved together.
Invariant == TypeOK /\ InterestOnOpening /\ ChartInv

LEMMA InitInvariant == Init => Invariant
<1> SUFFICES ASSUME Init PROVE Invariant
  OBVIOUS
<1>1. /\ list = Empty /\ years = 0 /\ month = 0 /\ left = {} /\ balances = Empty
      /\ payouts = Empty /\ paid = {} /\ opening = Empty
      /\ accounts = InitialAccounts /\ operations = Empty /\ used = DOMAIN InitialAccounts
      /\ req = [r \in Slots |-> IdleRequest] /\ listRead = [r \in Slots |-> Empty]
      /\ opsRead = [r \in Slots |-> Empty] /\ written = 0
  BY DEF Init, LedgerInit, Idle
<1>2. ProjectionTypeOK  BY <1>1, EmptyTyped DEF ProjectionTypeOK
<1>3. req \in [Slots -> Request] /\ \A r \in Slots : req[r].pc = "idle"
  BY <1>1 DEF IdleRequest, Request
<1>4. LedgerTypeOK  BY <1>1, <1>3, EmptyTyped, InitialAssumption DEF LedgerTypeOK
<1>5. Calculators  BY <1>1, <1>3 DEF Calculators
<1>6. written \in 0..MaxWrites  BY <1>1, YearsAssumption
<1>7. InterestOnOpening /\ ChartInv
  BY <1>1 DEF InterestOnOpening, ChartInv, Simulating, Finished
<1> QED  BY <1>2, <1>4, <1>5, <1>6, <1>7, TypeParts DEF Invariant

LEMMA YearsShownPositive == \A y \in Int : YearsShown(y) \in Nat \ {0}
  BY DEF YearsShown

LEMMA DashboardAccountsStep ==
  ASSUME TypeOK, NEW r \in Slots, DashboardAccounts(r)
  PROVE  ProjectionTypeOK' /\ LedgerTypeOK' /\ Calculators' /\ tables' = tables
         /\ InterestOnOpening' /\ ChartInv'
<1> DEFINE l == AccountsOf(req[r].user)
<1>t. ProjectionTypeOK /\ LedgerTypeOK /\ Calculators  BY TypeParts
<1>1. PICK y \in YearsAsked, date \in Dates : Begin(l, YearsShown(y), date)
  BY DEF DashboardAccounts
<1>2. /\ listRead' = [listRead EXCEPT ![r] = l] /\ opsRead' = opsRead
      /\ Goto(r, "calculating") /\ tables' = tables /\ req[r].pc = "dashboard"
  BY DEF DashboardAccounts, At, tables
<1>3. DOMAIN l \subseteq Ids /\ l \in [DOMAIN l -> Row]
  <2>1. l \in Read(l)  BY DEF Read
  <2> QED  BY <2>1, <1>t, ReadTyped
<1> HIDE DEF l
<1>4. YearsShown(y) \in Nat \ {0}  BY YearsAssumption, YearsShownPositive
<1>5. ProjectionTypeOK'  BY <1>1, <1>3, <1>4, BeginTyped
<1>6. years = 0 /\ years' > 0 /\ years' \in Nat  BY <1>1, <1>4 DEF Begin
<1>7. \A q \in Slots : req[q].pc # "calculating"  BY <1>6, <1>t DEF Calculators
<1>8. /\ RequestsTyped' /\ req'[r].pc = "calculating"
      /\ \A q \in Slots : q # r => req'[q] = req[q]
  <2>1. "calculating" \in Stages  BY DEF Stages
  <2> QED  BY <2>1, <1>2, <1>t, GotoTyped DEF RequestsTyped
<1>9. Calculators'  BY <1>6, <1>7, <1>8 DEF Calculators
<1>10. AccountsTyped /\ OperationsTyped /\ ReadsTyped /\ used \subseteq Ids \cup OperationIds
  BY <1>t, LedgerParts
<1>11. AccountsTyped' /\ OperationsTyped' /\ (used \subseteq Ids \cup OperationIds)'
  BY <1>2, <1>10 DEF AccountsTyped, OperationsTyped, tables
<1>12. ReadsTyped'
  <2>1. listRead'[r] = l /\ \A q \in Slots : q # r => listRead'[q] = listRead[q]
    BY <1>2, <1>10 DEF ReadsTyped
  <2>2. listRead' = [q \in Slots |-> listRead'[q]]  BY <1>2, <1>10 DEF ReadsTyped
  <2> QED  BY <1>2, <1>3, <2>1, <2>2, <1>10 DEF ReadsTyped
<1>13. LedgerTypeOK'  BY <1>8, <1>11, <1>12, LedgerPartsNext
<1>14. InterestOnOpening'  BY <1>1 DEF Begin, InterestOnOpening
<1>15. ChartInv'
  <2>1. month' = 1 /\ years' > 0 /\ years' \in Nat  BY <1>1, <1>6 DEF Begin
  <2>a. \A n \in Nat : n > 0 => 1 # 12 * n + 1  OBVIOUS
  <2>b. month' # 12 * years' + 1  BY <2>1, <2>a
  <2>2. ~Finished'  BY <2>b DEF Finished
  <2> QED  BY <2>2 DEF ChartInv
<1> QED  BY <1>2, <1>5, <1>9, <1>13, <1>14, <1>15

\* The one request that calculates ends the calculation.
LEMMA DashboardEndStep ==
  ASSUME TypeOK, NEW r \in Slots, DashboardOperations(r) \/ DashboardPartial(r)
  PROVE  ProjectionTypeOK' /\ LedgerTypeOK' /\ Calculators' /\ tables' = tables
         /\ InterestOnOpening' /\ ChartInv'
<1>t. ProjectionTypeOK /\ LedgerTypeOK /\ Calculators  BY TypeParts
<1>1. Clear /\ req[r].pc = "calculating" /\ tables' = tables
  BY DEF DashboardOperations, DashboardPartial, At, ReadOperations, tables
<1>2. ProjectionTypeOK'  BY <1>1, ClearTyped
<1>3. years' = 0 /\ month' = 0  BY <1>1 DEF Clear
<1>4. InterestOnOpening' /\ ChartInv'
  BY <1>3 DEF InterestOnOpening, ChartInv, Simulating, Finished
<1>5. AccountsTyped /\ OperationsTyped /\ ReadsTyped /\ used \subseteq Ids \cup OperationIds
  BY <1>t, LedgerParts
<1>6. AccountsTyped' /\ OperationsTyped' /\ (used \subseteq Ids \cup OperationIds)'
  BY <1>1, <1>5 DEF AccountsTyped, OperationsTyped, tables
<1>7. RequestsTyped' /\ req'[r].pc # "calculating" /\ \A q \in Slots : q # r => req'[q] = req[q]
  <2>1. CASE DashboardOperations(r)
    <3>1. Goto(r, "shown")  BY <2>1 DEF DashboardOperations
    <3>2. "shown" \in Stages  BY DEF Stages
    <3> QED  BY <3>1, <3>2, <1>1, <1>t, GotoTyped DEF RequestsTyped
  <2>2. CASE DashboardPartial(r)
    <3>1. Respond(r)  BY <2>2 DEF DashboardPartial
    <3> QED  BY <3>1, <1>t, RespondTyped DEF RequestsTyped
  <2> QED  BY <2>1, <2>2
<1>8. Calculators'
  <2>1. \A q \in Slots : q # r => req[q].pc # "calculating"  BY <1>1, <1>t DEF Calculators
  <2> QED  BY <2>1, <1>3, <1>7 DEF Calculators
<1>9. ReadsTyped'
  <2>1. CASE DashboardOperations(r)
    <3>1. PICK l \in Read(OperationsOf(req[r].user)) : opsRead' = [opsRead EXCEPT ![r] = l]
      BY <2>1 DEF DashboardOperations, ReadOperations
    <3>2. listRead' = listRead  BY <2>1 DEF DashboardOperations, ReadOperations
    <3>3. DOMAIN l \subseteq OperationIds /\ l \in [DOMAIN l -> Operation]
      BY <3>1, <1>t, ReadTyped
    <3>4. opsRead'[r] = l /\ \A q \in Slots : q # r => opsRead'[q] = opsRead[q]
      BY <3>1, <1>5 DEF ReadsTyped
    <3>5. opsRead' = [q \in Slots |-> opsRead'[q]]  BY <3>1, <1>5 DEF ReadsTyped
    <3> QED  BY <3>2, <3>3, <3>4, <3>5, <1>5 DEF ReadsTyped
  <2>2. CASE DashboardPartial(r)
    <3>1. listRead' = [listRead EXCEPT ![r] = Empty] /\ opsRead' = opsRead
      BY <2>2 DEF DashboardPartial
    <3> QED  BY <3>1, <1>5, EmptyTyped DEF ReadsTyped
  <2> QED  BY <2>1, <2>2
<1>10. LedgerTypeOK'  BY <1>6, <1>7, <1>9, LedgerPartsNext
<1> QED  BY <1>1, <1>2, <1>4, <1>8, <1>10

\* A step of another request while nothing is calculated.
LEMMA QuietStep ==
  ASSUME Invariant, NEW r \in Slots, req[r].pc # "calculating", req'[r].pc # "calculating",
         \A q \in Slots : q # r => req'[q] = req[q],
         LedgerTypeOK', (written \in 0..MaxWrites)', UNCHANGED projectionVars
  PROVE  Invariant'
<1>t. ProjectionTypeOK /\ LedgerTypeOK /\ Calculators  BY TypeParts DEF Invariant
<1>1. /\ list' = list /\ years' = years /\ month' = month /\ left' = left
      /\ balances' = balances /\ payouts' = payouts /\ paid' = paid /\ opening' = opening
      /\ point' = point
  BY DEF projectionVars
<1>2. ProjectionTypeOK'  BY <1>1, <1>t DEF ProjectionTypeOK
<1>3. Calculators'  BY <1>1, <1>t DEF Calculators
<1>4. InterestOnOpening' /\ ChartInv'
  BY <1>1 DEF Invariant, InterestOnOpening, ChartInv, Simulating, Finished
<1> QED  BY <1>2, <1>3, <1>4, TypePartsNext DEF Invariant

LEMMA NextInvariant == Invariant /\ [Next]_vars => Invariant'
<1> SUFFICES ASSUME Invariant, [Next]_vars PROVE Invariant'
  OBVIOUS
<1>t. /\ TypeOK /\ ProjectionTypeOK /\ LedgerTypeOK /\ written \in 0..MaxWrites /\ Calculators
      /\ InterestOnOpening /\ ChartInv
  BY TypeParts DEF Invariant
<1>1. ASSUME NEW r \in Slots, Serve(r), UNCHANGED projectionVars PROVE Invariant'
  <2>1. CASE Write(r) /\ written < MaxWrites /\ written' = written + 1
    <3>1. /\ LedgerTypeOK' /\ req[r].pc # "calculating" /\ req'[r].pc # "calculating"
          /\ \A q \in Slots : q # r => req'[q] = req[q]
      BY <2>1, <1>t, WriteTyped DEF Writes
    <3>2. (written \in 0..MaxWrites)'  BY <2>1, <1>t, YearsAssumption
    <3> QED  BY <1>1, <3>1, <3>2, QuietStep
  <2>2. CASE (Submit(r) \/ Refuse(r) \/ Show(r) \/ Answer(r)) /\ UNCHANGED written
    <3>1. /\ LedgerTypeOK' /\ req[r].pc # "calculating" /\ req'[r].pc # "calculating"
          /\ \A q \in Slots : q # r => req'[q] = req[q]
      BY <2>2, <1>t, OtherTyped
    <3> QED  BY <1>1, <1>t, <2>2, <3>1, QuietStep
  <2> QED  BY <1>1, <2>1, <2>2 DEF Serve
<1>2. ASSUME NEW r \in Slots, Dash(r), UNCHANGED written PROVE Invariant'
  <2>1. CASE DashboardAccounts(r)
    BY <1>2, <1>t, <2>1, DashboardAccountsStep, TypePartsNext DEF Invariant
  <2>2. CASE DashboardOperations(r) \/ DashboardPartial(r)
    BY <1>2, <1>t, <2>2, DashboardEndStep, TypePartsNext DEF Invariant
  <2>3. CASE DashboardError(r)
    <3>1. /\ req[r].pc # "calculating" /\ Respond(r) /\ tables' = tables /\ reads' = reads
          /\ UNCHANGED projectionVars
      BY <2>3 DEF DashboardError, At, tables, reads
    <3>2. /\ RequestsTyped' /\ req'[r].pc # "calculating"
          /\ \A q \in Slots : q # r => req'[q] = req[q]
      BY <3>1, <1>t, RespondTyped DEF RequestsTyped
    <3>3. AccountsTyped /\ OperationsTyped /\ ReadsTyped /\ used \subseteq Ids \cup OperationIds
      BY <1>t, LedgerParts
    <3>4. /\ AccountsTyped' /\ OperationsTyped' /\ ReadsTyped'
          /\ (used \subseteq Ids \cup OperationIds)'
      BY <3>1, <3>3 DEF AccountsTyped, OperationsTyped, ReadsTyped, tables, reads
    <3>5. LedgerTypeOK'  BY <3>2, <3>4, LedgerPartsNext
    <3> QED  BY <1>2, <1>t, <3>1, <3>2, <3>5, QuietStep
  <2> QED  BY <1>2, <2>1, <2>2, <2>3 DEF Dash
<1>3. ASSUME Calculate, UNCHANGED <<ledgerVars, written>> PROVE Invariant'
  <2>1. ProjectionTypeOK' /\ years' = years  BY <1>3, <1>t, CalculateTyped
  <2>2. InterestOnOpening' /\ ChartInv'
    BY <1>3, <1>t, CalculateOnOpening, CalculateChart
  <2>3. /\ accounts' = accounts /\ operations' = operations /\ used' = used /\ req' = req
        /\ listRead' = listRead /\ opsRead' = opsRead /\ written' = written
    BY <1>3 DEF ledgerVars, tables, reads
  <2>4. LedgerTypeOK'  BY <2>3, <1>t DEF LedgerTypeOK
  <2>5. Calculators'  BY <2>1, <2>3, <1>t DEF Calculators
  <2> QED  BY <1>t, <2>1, <2>2, <2>3, <2>4, <2>5, TypePartsNext DEF Invariant
<1>4. ASSUME UNCHANGED vars PROVE Invariant'
  <2>1. /\ accounts' = accounts /\ operations' = operations /\ used' = used /\ req' = req
        /\ listRead' = listRead /\ opsRead' = opsRead /\ written' = written
        /\ UNCHANGED projectionVars
    BY <1>4 DEF vars, ledgerVars, tables, reads
  <2>2. /\ list' = list /\ years' = years /\ month' = month /\ left' = left
        /\ balances' = balances /\ payouts' = payouts /\ paid' = paid /\ opening' = opening
        /\ point' = point
    BY <2>1 DEF projectionVars
  <2>3. ProjectionTypeOK'  BY <2>2, <1>t DEF ProjectionTypeOK
  <2>4. LedgerTypeOK'  BY <2>1, <1>t DEF LedgerTypeOK
  <2>5. Calculators'  BY <2>1, <2>2, <1>t DEF Calculators
  <2>6. InterestOnOpening' /\ ChartInv'
    BY <2>2, <1>t DEF InterestOnOpening, ChartInv, Simulating, Finished
  <2> QED  BY <1>t, <2>1, <2>3, <2>4, <2>5, <2>6, TypePartsNext DEF Invariant
<1> QED  BY <1>1, <1>2, <1>3, <1>4 DEF Next

LEMMA SpecInvariant == Spec => []Invariant
  BY InitInvariant, NextInvariant, PTL DEF Spec

\* Rows, requests and calculations are well typed, for any number of users and of
\* requests at the same time: Go's maps never hold an entry for anything but ids.
THEOREM DashboardTypesCorrect == Spec => []TypeOK
<1>1. Invariant => TypeOK  BY DEF Invariant
<1> QED  BY <1>1, SpecInvariant, PTL

\* In whatever order the map of accounts is iterated, no payout earns interest in
\* the month it is paid in: Calculate's two loops are one simultaneous step.
THEOREM InterestIsOnOpenings == Spec => []InterestOnOpening
<1>1. Invariant => InterestOnOpening  BY DEF Invariant
<1> QED  BY <1>1, SpecInvariant, PTL
-----------------------------------------------------------------------------
(* Ownership. *)

LEMMA FoundOwner ==
  \A t, i, u, c : c \in Found(t, i, u) => c = i /\ t[c].owner = u
  BY DEF Found

\* Every write is about one row, of its sender, and hands none over.
LEMMA WriteOwn ==
  ASSUME LedgerTypeOK, NEW r \in Slots, Write(r)
  PROVE  /\ \E id \in Ids \cup OperationIds : OwnOrNaming(r, id)
         /\ HandsKept
<1> DEFINE Goal == /\ \E id \in Ids \cup OperationIds : OwnOrNaming(r, id)
                   /\ HandsKept
<1>m. /\ DOMAIN accounts \subseteq used /\ DOMAIN operations \subseteq used
      /\ \A c \in DOMAIN accounts : accounts[c] \in Account
      /\ \A c \in DOMAIN operations : operations[c] \in Operation
  BY DEF LedgerTypeOK
\* Rows changed in place or removed.
<1>k. ASSUME NEW id \in Ids, NEW rows,
             \A c \in rows : c = id /\ accounts[c].owner = req[r].user,
             operations' = operations,
             \A c \in DOMAIN accounts \ rows : c \in DOMAIN accounts' /\ accounts'[c] = accounts[c],
             \A c \in DOMAIN accounts \cap DOMAIN accounts' :
                accounts'[c].owner = accounts[c].owner
      PROVE  Goal
  <2>1. ChangedOperations = {} /\ ChangedAccounts \subseteq rows
    BY <1>k DEF ChangedAccounts, ChangedOperations
  <2>2. OwnOrNaming(r, id)  BY <1>k, <2>1 DEF OwnOrNaming
  <2>3. HandsKept  BY <1>k DEF HandsKept
  <2> QED  BY <2>2, <2>3
<1>l. ASSUME NEW id \in OperationIds, NEW rows,
             \A c \in rows : c = id /\ operations[c].owner = req[r].user,
             accounts' = accounts,
             \A c \in DOMAIN operations \ rows :
                c \in DOMAIN operations' /\ operations'[c] = operations[c],
             \A c \in DOMAIN operations \cap DOMAIN operations' :
                /\ operations'[c].owner = operations[c].owner
                /\ operations'[c].account = operations[c].account
      PROVE  Goal
  <2>1. ChangedAccounts = {} /\ ChangedOperations \subseteq rows
    BY <1>l DEF ChangedAccounts, ChangedOperations
  <2>2. OwnOrNaming(r, id)  BY <1>l, <2>1 DEF OwnOrNaming
  <2>3. HandsKept  BY <1>l DEF HandsKept
  <2> QED  BY <2>2, <2>3
<1> HIDE DEF Goal
<1>1. ASSUME InsertAccount(r) PROVE Goal
  <2>1. PICK a \in Ids \ used, f \in AccountForms :
          accounts' = [c \in DOMAIN accounts \cup {a} |->
                         IF c = a THEN [owner |-> req[r].user, row |-> f] ELSE accounts[c]]
    BY <1>1 DEF InsertAccount
  <2>2. \A c \in DOMAIN accounts : c \in DOMAIN accounts' /\ accounts'[c] = accounts[c]
    BY <2>1, <1>m
  <2>3. operations' = operations  BY <1>1 DEF InsertAccount
  <2> DEFINE rows == {}
  <2>4. /\ \A c \in rows : c = a /\ accounts[c].owner = req[r].user
        /\ \A c \in DOMAIN accounts \ rows : c \in DOMAIN accounts' /\ accounts'[c] = accounts[c]
    BY <2>2
  <2> HIDE DEF rows
  <2> QED  BY <2>2, <2>3, <2>4, <1>k
<1>2. ASSUME SaveAccount(r) PROVE Goal
  <2>1. PICK a \in Ids, f \in AccountForms :
          accounts' = [c \in DOMAIN accounts |->
                         IF c \in Found(accounts, a, req[r].user)
                           THEN [accounts[c] EXCEPT !.row = f] ELSE accounts[c]]
    BY <1>2 DEF SaveAccount
  <2>2. \A c \in DOMAIN accounts : [accounts[c] EXCEPT !.row = f].owner = accounts[c].owner
    BY <1>m DEF Account
  <2>3. operations' = operations  BY <1>2 DEF SaveAccount
  <2> DEFINE rows == Found(accounts, a, req[r].user)
  <2>4. \A c \in rows : c = a /\ accounts[c].owner = req[r].user  BY FoundOwner
  <2> HIDE DEF rows
  <2>5. DOMAIN accounts' = DOMAIN accounts  BY <2>1
  <2>6. \A c \in DOMAIN accounts \ rows : accounts'[c] = accounts[c]  BY <2>1 DEF rows
  <2>7. \A c \in DOMAIN accounts : accounts'[c].owner = accounts[c].owner
    BY <2>1, <2>2 DEF rows
  <2> QED  BY <2>3, <2>4, <2>5, <2>6, <2>7, <1>k
<1>3. ASSUME UpdateAccount(r) PROVE Goal
  <2>1. PICK a \in Ids, f \in AccountForms :
          accounts' = [c \in DOMAIN accounts |->
                         IF c \in Found(accounts, a, req[r].user)
                           THEN [accounts[c] EXCEPT !.row.name = f.name, !.row.balance = f.balance]
                           ELSE accounts[c]]
    BY <1>3 DEF UpdateAccount
  <2>2. \A c \in DOMAIN accounts :
          [accounts[c] EXCEPT !.row.name = f.name, !.row.balance = f.balance].owner =
            accounts[c].owner
    BY <1>m DEF Account
  <2>3. operations' = operations  BY <1>3 DEF UpdateAccount
  <2> DEFINE rows == Found(accounts, a, req[r].user)
  <2>4. \A c \in rows : c = a /\ accounts[c].owner = req[r].user  BY FoundOwner
  <2> HIDE DEF rows
  <2>5. DOMAIN accounts' = DOMAIN accounts  BY <2>1
  <2>6. \A c \in DOMAIN accounts \ rows : accounts'[c] = accounts[c]  BY <2>1 DEF rows
  <2>7. \A c \in DOMAIN accounts : accounts'[c].owner = accounts[c].owner
    BY <2>1, <2>2 DEF rows
  <2> QED  BY <2>3, <2>4, <2>5, <2>6, <2>7, <1>k
<1>4. ASSUME UpdateBalance(r) PROVE Goal
  <2>1. PICK a \in Ids, f \in AccountForms :
          accounts' = [c \in DOMAIN accounts |->
                         IF c \in Found(accounts, a, req[r].user)
                           THEN [accounts[c] EXCEPT !.row.balance = f.balance] ELSE accounts[c]]
    BY <1>4 DEF UpdateBalance
  <2>2. \A c \in DOMAIN accounts :
          [accounts[c] EXCEPT !.row.balance = f.balance].owner = accounts[c].owner
    BY <1>m DEF Account
  <2>3. operations' = operations  BY <1>4 DEF UpdateBalance
  <2> DEFINE rows == Found(accounts, a, req[r].user)
  <2>4. \A c \in rows : c = a /\ accounts[c].owner = req[r].user  BY FoundOwner
  <2> HIDE DEF rows
  <2>5. DOMAIN accounts' = DOMAIN accounts  BY <2>1
  <2>6. \A c \in DOMAIN accounts \ rows : accounts'[c] = accounts[c]  BY <2>1 DEF rows
  <2>7. \A c \in DOMAIN accounts : accounts'[c].owner = accounts[c].owner
    BY <2>1, <2>2 DEF rows
  <2> QED  BY <2>3, <2>4, <2>5, <2>6, <2>7, <1>k
<1>5. ASSUME DeleteAccount(r) PROVE Goal
  <2>1. PICK a \in Ids :
          \/ /\ accounts' = AccountsWithout(Found(accounts, a, req[r].user))
             /\ operations' = OperationsWithout(Found(accounts, a, req[r].user))
          \/ /\ accounts' = [c \in DOMAIN accounts \ Found(accounts, a, req[r].user) |-> accounts[c]]
             /\ operations' = operations
    BY <1>5 DEF DeleteAccount
  <2> DEFINE gone == Found(accounts, a, req[r].user)
  <2>2. \A c \in gone : c = a /\ accounts[c].owner = req[r].user  BY FoundOwner
  <2>3. gone \subseteq DOMAIN accounts  BY DEF Found
  <2>4. \/ accounts' = AccountsWithout(gone) /\ operations' = OperationsWithout(gone)
        \/ /\ accounts' = [c \in DOMAIN accounts \ gone |-> accounts[c]]
           /\ operations' = operations
    BY <2>1
  <2> HIDE DEF gone
  <2>5. CASE /\ accounts' = [c \in DOMAIN accounts \ gone |-> accounts[c]]
             /\ operations' = operations
    <3>1. \A c \in DOMAIN accounts \ gone : c \in DOMAIN accounts' /\ accounts'[c] = accounts[c]
      BY <2>5
    <3>2. \A c \in DOMAIN accounts \cap DOMAIN accounts' : accounts'[c].owner = accounts[c].owner
      BY <2>5
    <3> QED  BY <2>2, <2>5, <3>1, <3>2, <1>k
  <2>6. CASE accounts' = AccountsWithout(gone) /\ operations' = OperationsWithout(gone)
    <3>1. /\ DOMAIN accounts' = DOMAIN accounts \ gone
          /\ \A c \in DOMAIN accounts \ gone :
               accounts'[c] = [accounts[c] EXCEPT !.row.target = Cleared(@, gone)]
      BY <2>6 DEF AccountsWithout
    <3>2. /\ \A o \in DOMAIN operations : o \in DOMAIN operations' \/ operations[o].account \in gone
          /\ \A o \in DOMAIN operations' :
               o \in DOMAIN operations => operations'[o] = [operations[o] EXCEPT !.to = Cleared(@, gone)]
      BY <2>6 DEF OperationsWithout
    <3>3. \A c \in DOMAIN accounts : accounts[c].row.target \notin gone =>
            [accounts[c] EXCEPT !.row.target = Cleared(@, gone)] = accounts[c]
      BY <1>m DEF Account, Row, Cleared
    <3>4. \A o \in DOMAIN operations : operations[o].to \notin gone =>
            [operations[o] EXCEPT !.to = Cleared(@, gone)] = operations[o]
      BY <1>m DEF Operation, Cleared
    <3>5. \A c \in gone : c = a /\ a \in DOMAIN accounts \ DOMAIN accounts'
      BY <2>2, <2>3, <3>1
    <3>6. ASSUME NEW c \in ChangedAccounts, c \notin gone
          PROVE  /\ accounts[c].row.target = a /\ a \in DOMAIN accounts \ DOMAIN accounts'
                 /\ c \in DOMAIN accounts'
                 /\ accounts'[c] = [accounts[c] EXCEPT !.row.target = None]
      <4>1. /\ c \in DOMAIN accounts /\ c \in DOMAIN accounts'
            /\ accounts'[c] = [accounts[c] EXCEPT !.row.target = Cleared(@, gone)]
            /\ accounts'[c] # accounts[c]
        BY <3>1, <3>6 DEF ChangedAccounts
      <4>2. accounts[c].row.target \in gone  BY <3>3, <4>1
      <4>3. [accounts[c] EXCEPT !.row.target = Cleared(@, gone)] =
              [accounts[c] EXCEPT !.row.target = None]
        BY <4>2, <4>1, <1>m DEF Account, Row, Cleared
      <4> QED  BY <3>5, <4>1, <4>2, <4>3
    <3>7. ASSUME NEW o \in ChangedOperations
          PROVE  /\ a \in {operations[o].account, operations[o].to}
                 /\ a \in DOMAIN accounts \ DOMAIN accounts'
      <4>1. /\ o \in DOMAIN operations
            /\ o \in DOMAIN operations' => operations'[o] # operations[o]
        BY <3>7 DEF ChangedOperations
      <4>2. operations[o].account \in gone \/ operations[o].to \in gone
        BY <3>2, <3>4, <4>1
      <4> QED  BY <3>5, <4>2
    <3>8. OwnOrNaming(r, a)  BY <2>2, <3>6, <3>7 DEF OwnOrNaming
    <3>9. HandsKept
      <4>1. \A c \in DOMAIN accounts :
              [accounts[c] EXCEPT !.row.target = Cleared(@, gone)].owner = accounts[c].owner
        BY <1>m DEF Account
      <4>2. \A o \in DOMAIN operations :
              /\ [operations[o] EXCEPT !.to = Cleared(@, gone)].owner = operations[o].owner
              /\ [operations[o] EXCEPT !.to = Cleared(@, gone)].account = operations[o].account
        BY <1>m DEF Operation
      <4> QED  BY <3>1, <3>2, <4>1, <4>2 DEF HandsKept
    <3> QED  BY <3>8, <3>9 DEF Goal
  <2> QED  BY <2>4, <2>5, <2>6
<1>6. ASSUME InsertOperation(r) PROVE Goal
  <2>1. PICK o \in OperationIds \ used, f \in OperationForms :
          operations' = [c \in DOMAIN operations \cup {o} |->
                           IF c = o THEN [owner |-> req[r].user, account |-> f.account,
                                          to |-> f.to, amount |-> Signed(f), day |-> Day(f)]
                                    ELSE operations[c]]
    BY <1>6 DEF InsertOperation
  <2>2. \A c \in DOMAIN operations : c \in DOMAIN operations' /\ operations'[c] = operations[c]
    BY <2>1, <1>m
  <2>3. accounts' = accounts  BY <1>6 DEF InsertOperation
  <2> DEFINE rows == {}
  <2>4. /\ \A c \in rows : c = o /\ operations[c].owner = req[r].user
        /\ \A c \in DOMAIN operations \ rows :
             c \in DOMAIN operations' /\ operations'[c] = operations[c]
    BY <2>2
  <2> HIDE DEF rows
  <2> QED  BY <2>2, <2>3, <2>4, <1>l
<1>c. ASSUME NEW o \in OperationIds, NEW to, NEW amount, NEW day,
             operations' = Changed(r, o, to, amount, day), accounts' = accounts
      PROVE  Goal
  <2>1. \A c \in DOMAIN operations :
          /\ [operations[c] EXCEPT !.to = to, !.amount = amount, !.day = day].owner =
               operations[c].owner
          /\ [operations[c] EXCEPT !.to = to, !.amount = amount, !.day = day].account =
               operations[c].account
    BY <1>m DEF Operation
  <2> DEFINE rows == Found(operations, o, req[r].user)
  <2>2. \A c \in rows : c = o /\ operations[c].owner = req[r].user  BY FoundOwner
  <2>3. operations' = [c \in DOMAIN operations |->
                         IF c \in rows
                           THEN [operations[c] EXCEPT !.to = to, !.amount = amount, !.day = day]
                           ELSE operations[c]]
    BY <1>c DEF Changed
  <2> HIDE DEF rows
  <2>4. DOMAIN operations' = DOMAIN operations  BY <2>3
  <2>5. \A c \in DOMAIN operations \ rows : operations'[c] = operations[c]  BY <2>3
  <2>6. \A c \in DOMAIN operations : /\ operations'[c].owner = operations[c].owner
                                     /\ operations'[c].account = operations[c].account
    BY <2>1, <2>3
  <2> QED  BY <1>c, <2>2, <2>4, <2>5, <2>6, <1>l
<1>7. ASSUME SaveOperation(r) PROVE Goal
  BY <1>7, <1>c DEF SaveOperation
<1>8. ASSUME UpdateOperation(r) PROVE Goal
  BY <1>8, <1>c DEF UpdateOperation
<1>9. ASSUME DeleteOperation(r) PROVE Goal
  <2>1. PICK o \in OperationIds :
          operations' = [c \in DOMAIN operations \ Found(operations, o, req[r].user) |->
                           operations[c]]
    BY <1>9 DEF DeleteOperation
  <2> DEFINE gone == Found(operations, o, req[r].user)
  <2>2. accounts' = accounts  BY <1>9 DEF DeleteOperation
  <2>3. \A c \in gone : c = o /\ operations[c].owner = req[r].user  BY FoundOwner
  <2> HIDE DEF gone
  <2>4. DOMAIN operations' = DOMAIN operations \ gone  BY <2>1 DEF gone
  <2>5. \A c \in DOMAIN operations \ gone :
          c \in DOMAIN operations' /\ operations'[c] = operations[c]
    BY <2>1 DEF gone
  <2>6. \A c \in DOMAIN operations \cap DOMAIN operations' : operations'[c] = operations[c]
    BY <2>4, <2>5
  <2> QED  BY <2>2, <2>3, <2>5, <2>6, <1>l
<1>e. Goal  BY <1>1, <1>2, <1>3, <1>4, <1>5, <1>6, <1>7, <1>8, <1>9 DEF Write
<1> QED  BY <1>e DEF Goal

\* A write is over when it returns: its request goes on.
LEMMA WriteMoves ==
  ASSUME LedgerTypeOK, NEW r \in Slots, Write(r)
  PROVE  req'[r] # req[r]
<1>1. req \in [Slots -> Request]  BY DEF LedgerTypeOK
<1>2. req[r].pc \in Writes /\ (Goto(r, "page") \/ Goto(r, "table") \/ Respond(r))
  BY DEF Write, InsertAccount, SaveAccount, UpdateAccount, UpdateBalance, DeleteAccount,
         InsertOperation, SaveOperation, UpdateOperation, DeleteOperation, At, Writes
<1>3. req'[r].pc \in {"page", "table", "idle"}
  <2>1. req[r] \in Request  BY <1>1
  <2> QED  BY <1>1, <1>2, <2>1 DEF Goto, Respond, IdleRequest, Request
<1> QED  BY <1>2, <1>3 DEF Writes

\* Steps without a write touch no row.
LEMMA OthersKeepTables ==
  ASSUME TypeOK, [Next]_vars, \A r \in Slots : ~Write(r)
  PROVE  accounts' = accounts /\ operations' = operations
<1>t. LedgerTypeOK  BY DEF TypeOK
<1>1. ASSUME NEW r \in Slots, Submit(r) \/ Refuse(r) \/ Show(r) \/ Answer(r)
      PROVE  tables' = tables
  BY <1>1, <1>t, OtherTyped
<1>2. ASSUME NEW r \in Slots, Dash(r) PROVE tables' = tables
  BY <1>2 DEF Dash, DashboardAccounts, DashboardError, DashboardOperations, DashboardPartial,
              ReadOperations, tables
<1>3. ASSUME UNCHANGED ledgerVars PROVE tables' = tables  BY <1>3 DEF ledgerVars
<1>4. tables' = tables  BY <1>1, <1>2, <1>3 DEF Next, Serve, vars
<1> QED  BY <1>4 DEF tables

\* Every UPDATE and DELETE of the ledger, of any number of users at the same time,
\* changes one row of its sender; what a foreign key does to others is bounded to
\* rows that name the account deleted, and no row changes hands or account.
THEOREM RowsStayWithTheirOwners == Spec => OwnRowsOnly
<1> DEFINE Own ==
      /\ ChangedAccounts \cup ChangedOperations # {} =>
           \E r \in Slots, id \in Ids \cup OperationIds :
             req[r].pc \in Writes /\ req'[r] # req[r] /\ OwnOrNaming(r, id)
      /\ HandsKept
<1>1. Invariant /\ [Next]_vars => [Own]_vars
  <2> SUFFICES ASSUME Invariant, [Next]_vars PROVE Own
    OBVIOUS
  <2>t. TypeOK /\ LedgerTypeOK  BY DEF Invariant, TypeOK
  <2>1. CASE \E r \in Slots : Write(r)
    <3>1. PICK r \in Slots : Write(r)  BY <2>1
    <3>2. req[r].pc \in Writes /\ req'[r] # req[r]  BY <3>1, <2>t, WriteTyped, WriteMoves
    <3> QED  BY <3>1, <3>2, <2>t, WriteOwn
  <2>2. CASE \A r \in Slots : ~Write(r)
    <3>1. accounts' = accounts /\ operations' = operations  BY <2>2, <2>t, OthersKeepTables
    <3> QED  BY <3>1 DEF ChangedAccounts, ChangedOperations, HandsKept
  <2> QED  BY <2>1, <2>2
<1> QED  BY <1>1, SpecInvariant, PTL DEF Spec, OwnRowsOnly
-----------------------------------------------------------------------------
(* The labels of a chart of months. *)

\* What the clock says, on a day that every month has.
ShortDates == [day : 1..28, month : 1..12, year : Int]

LEMMA DaysInRange == \A m, y : DaysIn(m, y) \in 28..31
<1> SUFFICES ASSUME NEW m, NEW y PROVE DaysIn(m, y) \in 28..31
  OBVIOUS
<1>1. CASE m = 2  BY <1>1 DEF DaysIn
<1>2. CASE m \in {4, 6, 9, 11}  BY <1>2 DEF DaysIn
<1>3. CASE m # 2 /\ m \notin {4, 6, 9, 11}  BY <1>3 DEF DaysIn
<1> QED  BY <1>1, <1>2, <1>3

\* Such a day is never carried over to the next month.
LEMMA ShortDateName ==
  ASSUME NEW d \in ShortDates, NEW m \in Int
  PROVE  MonthName(d, m) = 12 * d.year + d.month - 1 + m
<1> DEFINE n == 12 * d.year + d.month - 1 + m
<1>1. d.day \in 1..28  BY DEF ShortDates
<1>2. DaysIn((n % 12) + 1, n \div 12) \in 28..31  BY DaysInRange
<1>3. d.day <= DaysIn((n % 12) + 1, n \div 12)  BY <1>1, <1>2
<1> QED  BY <1>3 DEF MonthName

\* The last point is that of the month before the one being calculated.
LabelInv ==
  (years > 0 /\ InMonths(years)) =>
    /\ today \in Dates
    /\ point.index = month - 1
    /\ point.label = MonthName(today, month - 1)

LEMMA NextLabel ==
  ASSUME TypeOK, LabelInv, [Next]_vars
  PROVE  LabelInv'
<1>m. month \in Int /\ years \in Int  BY DEF TypeOK, ProjectionTypeOK
<1>k. ASSUME years' = years, today' = today, month' = month, point' = point PROVE LabelInv'
  BY <1>k DEF LabelInv
<1>1. ASSUME UNCHANGED projectionVars PROVE LabelInv'  BY <1>1, <1>k DEF projectionVars
<1>2. ASSUME NEW r \in Slots, DashboardAccounts(r) PROVE LabelInv'
  <2>1. PICK y \in YearsAsked, date \in Dates :
               Begin(AccountsOf(req[r].user), YearsShown(y), date)
    BY <1>2 DEF DashboardAccounts
  <2>2. /\ years' = YearsShown(y) /\ today' = date /\ month' = 1
        /\ point'.index = 0
        /\ InMonths(years') => point'.label = MonthName(date, 0)
    BY <2>1 DEF Begin, YearData
  <2> QED  BY <2>2 DEF LabelInv
<1>3. ASSUME NEW r \in Slots, DashboardOperations(r) \/ DashboardPartial(r) PROVE LabelInv'
  BY <1>3 DEF DashboardOperations, DashboardPartial, Clear, LabelInv
<1>4. ASSUME NEW r \in Slots, DashboardError(r) PROVE LabelInv'
  BY <1>1, <1>4 DEF DashboardError
<1>5. ASSUME Calculate, ~EndMonth PROVE LabelInv'
  BY <1>5, <1>k DEF Calculate, VisitInactive, VisitYielding, PayOut
<1>6. ASSUME EndMonth PROVE LabelInv'
  <2>1. years' = years /\ today' = today /\ month' = month + 1  BY <1>6 DEF EndMonth
  <2>2. ASSUME InMonths(years)
        PROVE  point'.index = month /\ point'.label = MonthName(today, month)
    BY <1>6, <2>2 DEF EndMonth, Shown, YearData
  <2>3. month' - 1 = month  BY <1>m, <2>1
  <2> QED  BY <2>1, <2>2, <2>3 DEF LabelInv
<1>7. ASSUME UNCHANGED vars PROVE LabelInv'  BY <1>1, <1>7 DEF vars
<1> QED  BY <1>1, <1>2, <1>3, <1>4, <1>5, <1>6, <1>7 DEF Next, Dash

LEMMA SpecLabel == Spec => []LabelInv
<1>1. Init => LabelInv  BY DEF Init, Idle, LabelInv
<1>2. Invariant /\ LabelInv /\ [Next]_vars => LabelInv'  BY NextLabel DEF Invariant
<1> QED  BY <1>1, <1>2, SpecInvariant, PTL DEF Spec

\* formatMonthName skips months from the 29th on only: asked for on a day that every
\* month has, a chart of months shows each month after the one before it.
THEOREM ShortDatesShowEveryMonth == (Dates \subseteq ShortDates) => (Spec => MonthsShownInOrder)
<1> SUFFICES ASSUME Dates \subseteq ShortDates
             PROVE  Spec => MonthsShownInOrder
  OBVIOUS
<1> DEFINE InOrder == (years > 0 /\ InMonths(years) /\ point'.index = point.index + 1) =>
                        point'.label = point.label + 1
<1>1. Invariant /\ LabelInv /\ [Next]_vars => [InOrder]_projectionVars
  <2> SUFFICES ASSUME Invariant, LabelInv, [Next]_vars,
                      years > 0, InMonths(years), point'.index = point.index + 1
               PROVE  point'.label = point.label + 1
    OBVIOUS
  <2>1. /\ today \in ShortDates /\ month \in Int /\ years \in Int
        /\ point.index = month - 1 /\ point.label = MonthName(today, month - 1)
    BY DEF LabelInv, Invariant, TypeOK, ProjectionTypeOK
  <2>2. CASE EndMonth
    <3>1. point'.label = MonthName(today, month)
      BY <2>2 DEF EndMonth, Shown, YearData
    <3>2. /\ MonthName(today, month) = 12 * today.year + today.month - 1 + month
          /\ MonthName(today, month - 1) = 12 * today.year + today.month - 1 + (month - 1)
      BY <2>1, ShortDateName
    <3>3. today.year \in Int /\ today.month \in Int  BY <2>1 DEF ShortDates
    <3> QED  BY <2>1, <3>1, <3>2, <3>3
  <2>3. ASSUME point' = point PROVE FALSE  BY <2>1, <2>3
  <2>4. ASSUME NEW r \in Slots, Dash(r) PROVE FALSE
    <3>1. CASE DashboardAccounts(r)  BY <3>1 DEF DashboardAccounts, Begin
    <3>2. CASE DashboardOperations(r) \/ DashboardPartial(r)
      <4>1. point'.index = 0 /\ month = 12 * years + 1
        BY <3>2 DEF DashboardOperations, DashboardPartial, Clear, NoPoint, Finished
      <4> QED  BY <2>1, <4>1
    <3>3. CASE DashboardError(r)  BY <2>3, <3>3 DEF DashboardError, projectionVars
    <3> QED  BY <2>4, <3>1, <3>2, <3>3 DEF Dash
  <2>5. CASE UNCHANGED projectionVars  BY <2>3, <2>5 DEF projectionVars
  <2>6. CASE Calculate /\ ~EndMonth
    BY <2>3, <2>6 DEF Calculate, VisitInactive, VisitYielding, PayOut
  <2> QED  BY <2>2, <2>4, <2>5, <2>6 DEF Next, vars
<1> QED  BY <1>1, SpecInvariant, SpecLabel, PTL DEF Spec, MonthsShownInOrder
=============================================================================
