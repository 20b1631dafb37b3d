# Pilot Finance: a TLA+ model of the server

Pilot Finance is a self-hosted Go server (`src/go`): people register, sign in
(password, code, passkey), keep a list of accounts with yields and recurring
operations, and look at projections. It renders HTML, keeps everything in one
SQLite file and has no background work but the clean-up of its rate limiters.
What is hard in it is not volume but *order*: every HTTP request runs in a
goroutine of its own and talks to the database statement by statement, almost
never in a transaction, so handlers interleave between any two statements, write
back what they read earlier, ignore errors, and may be cut off by a crash.

This directory holds modules that model that, configurations that check them
with TLC, and proofs that TLAPS checks.

    tlc -config MCAuth_sessions.cfg MCAuth      # a run (see the table below)
    tlapm RateLimiterProofs.tla                 # the proofs of a module

## 1. Inventory

| Component | Source (`src/go/`) | State | Operations | What is hard | Correct when |
|---|---|---|---|---|---|
| Rate limiter | `internal/ratelimit` | a map of entries per action, a goroutine per action | `Check`, `Reset`, `cleanup` | lazy expiry, clean-up, requests in flight during a block, wall clock | a key never gets more than its budget, a block is neither cut short nor prolonged |
| Users table | `internal/db/users.go`, `sqlite.go` | rows of `users` | one SQL statement per function | no transactions, NULL columns, `WHERE` that finds nothing is no error | see the handlers |
| Tokens and cookies | `internal/auth/jwt.go`, `internal/middleware/auth.go` | none on the server: signed cookies with a session version | `GenerateToken`, `RequireAuth`, `RequireAdmin` | tokens outlive what they were issued from | a revoked session is never accepted again |
| Login | `internal/handlers/auth.go` | `failed_login_attempts`, `lock_until`, cookies | `HandleLogin`, `handleFailedLogin` | the row is read before a slow bcrypt comparison and used after it | a password alone gives no valid session unless it is the current one |
| Registration | `internal/handlers/auth.go` | rows | `HandleRegister` | count, lookup and insert are three statements | there is an administrator |
| Password reset | `internal/handlers/password_reset.go` | `reset_token`, `reset_token_expiry` | `ForgotPasswordSubmit`, `ResetPasswordSubmit` | a link submitted twice, errors ignored | a link that was used and cleared serves no more |
| Settings, administration | `internal/handlers/settings.go`, `mfa.go` | rows | change of password, second factor, deletion of users | session checked once, used later | changes revoke sessions, administrators stay |
| Accounts | `internal/handlers/accounts.go`, `internal/db/accounts.go` | rows with a position | create, update, delete, move | the only transaction of the program, over a pool of one connection | moves are exchanges, the connection is given back |
| Ledger | `internal/handlers/accounts.go`, `recurring.go` | rows of `accounts` and `recurring_operations` | create, update, delete, balance; the page each answers with | last writer wins, ids of other users in paths, two update paths that treat sign and day differently, pages made of two statements whose errors are ignored | rows change by requests of their owner, and of others only where a foreign key says so; the totals of the pages reconcile |
| Projection | `internal/projection` | none | `Calculate`, `CalculateYieldPayouts`, `CalculateMonthlySummary` | balances changed while a map is iterated in any order, ids without accounts, names that are keys, month names | the result does not depend on map order, what is announced is paid, the chart ends at the totals |
| Dashboard | `internal/handlers/dashboard.go`, `pages.go` | none | `Dashboard`, `DashboardPartial`, `DashboardAPI`, `AccountsPage` | accounts are read before the calculation, operations after it | its figures belong together |
| Passkeys | `internal/handlers/passkey.go`, `internal/auth/passkey.go`, `internal/db/authenticators.go`, `static/js/passkey.js` | `authenticators`, challenge cookies | registration, login, rename, delete | a ceremony is two requests, its challenge is in a cookie that all tabs share; a login is six statements; the counter is read and written back | deleted passkeys give no session, a passkey is its holder's, changes of password sign passkey sessions out |
| Server | `cmd/server/main.go`, `internal/config`, `internal/db/sqlite.go` | process | start-up, router, shutdown | which errors stop it, requests cut off by `server.Close` | it serves only with its keys |
| Other pages, templates, mail, crypto, TOTP | the rest | none of their own | rendering, e-mail, pure functions | | |

How they interact: the router (`main.go`) puts `RequireAuth` (and `RequireAdmin`)
before the protected handlers; handlers call `ratelimit`, `auth`, `crypto` and `db`
directly; they share nothing but the database and the limiters. Browsers
carry the sessions. Clients hold the retry-after times and the links of mails.

`PROJECT.json` lists every component with its status, and the hazards of the
code line by line with the properties that cover them.

## 2. Modules

```
AttemptBudget        what the limiter promises          (abstract)
RateLimiter          limiter.go                         implements AttemptBudget
  RateLimiterProofs
  MCRateLimiter      + history of admissions
    SlidingProofs

UserTable            the users table and its statements
  Requests           browsers, cookies, goroutines, failures, crashes
    Login            HandleLogin, handleFailedLogin
    Registration     HandleRegister
    PasswordReset    ForgotPasswordSubmit, ResetPasswordSubmit
    Settings         RequireAuth, RequireAdmin, ChangePassword, MFA*, DeleteUser, Logout
      Auth           the four composed; the properties
        MCAuth       constants for TLC
        AuthProofs
          LinkProofs
        Passkeys     passkey.go and its browser side, beside all of Auth
          MCPasskeys, PasskeyProofs

AccountPositions     what the order of accounts promises (abstract)
AccountOrder         accounts.go, SwapAccountPositions   implements AccountPositions
  AccountOrderProofs

Yields               formulas and totals of one month
  MonthlyProjection  what the projection promises       (abstract)
  Projection         Calculate, loop by loop             implements MonthlyProjection
  Ledger             accounts.go, recurring.go
    Dashboard        Projection and Ledger composed; dashboard.go, pages.go
      MCDashboard
      DashboardProofs
        TotalProofs  sums, and what rests on them
```

### How state and steps correspond to the code

*RateLimiter.* `attempts` is the map of one `Limiter`. Every operation holds
`limiter.mu` and reads the clock under it, so each is one step: `CheckFirst`,
`CheckBlocked`, `CheckNewWindow` and `CheckCounted` are the four ways through
`Check`, in its order of tests; `Reset` and `Cleanup` are the other two functions.
`inflight` counts the requests that `Check` admitted and that have not returned,
since `HandleLogin` calls `Reset` only from one of those, at any later time. `told` is
a history variable: the end of the block the client was last told of. `Tick` is
the clock; `StepBack` sets it back, as `time.Now().UnixMilli()` (a wall clock)
allows, in `SteppingSpec` only. `MCRateLimiter` adds `recent`, the admissions of each key in the last `WindowMs`, as
a finite set of records: the instant, and a number that tells those of one instant apart. It follows the
limiter (`Observe`) and guards nothing.

*Auth.* `users` is the table, with the columns the handlers read or write;
timestamps are abstracted to what a comparison with the clock says (`lock`:
`null`, `running`, `elapsed`; `expired` for links). `req[r]` is the goroutine of a
request: `pc` names the statement it is about to send, the other fields what the
request asked for and what the handler has read so far. An action is everything a
handler does from one statement up to the next, since other requests can be seen
only there. `session[b]` and `pending[b]` are the cookies of a browser;
a request carries those of the moment it was sent (`AuthedSubmit`) and the
response changes them when it arrives (`Deliver`), in any order, or never (`Lose`).
Claims are records; `proof` and `via` are history fields (the password of the row
a token was issued from, and how). Signatures are not modelled: a token is what
the server issued. `DbError` is an error that a handler looks at, `MayFail` one that
it ignores. `Crash` drops every request between any two statements; statements
that have returned survive, and so do the sessions (the signing key is
in the environment).

*AccountOrder.* `table` is what is committed, `work` what the transaction of
`SwapAccountPositions` sees, `conn` who holds the one connection of the pool
(`SetMaxOpenConns(1)`). A statement outside of a transaction needs the connection to be free
and is one step. `Rollback` is the deferred `tx.Rollback()` of every return without a
commit. `Listings` has one element per order that `ORDER BY position` may give.

*Passkeys.* Extends `Auth`: its actions are those of `Auth` (`Others`) and the steps of
ceremonies. `tab[c]` is a tab of a browser in which a ceremony is going on, from its first
request to the arrival of the second answer; `pc` is where it stands, on the server before a statement
or in the browser (`AtClient`). `authChallenge` and `regChallenge` are the challenge cookies, one of each per
browser, so that a second tab replaces the challenge of the first (`LoginOptionsArrive`,
`RegisterOptionsArrive`) and a request carries what the browser has when it is sent (`Sign`, `Create`).
`keys` is the table, `device` what the authenticators hold: the user handle they were made for and
their signature count. A login goes through `userHandler` twice (`FindKey`, `FindOwner`,
`ListKeys`; once by the library, once by `FinishLogin`, with `again`), then `StoreCounter`,
then `Issue`. What go-webauthn checks (challenge, user handle, credential, count) is external and
modelled from how the handlers use its results. `told` and `late` are history: the
passkeys whose deletion was answered, and whether an assertion was sent after that.
`Restart` drops what is on the server and leaves cookies, prompts and authenticators.
The schema may or may not delete the passkeys of a deleted user, on the connection of that
moment (`KeysFollow`).

*Projection.* One call of `Calculate`: `left` are the accounts the first loop has still to visit,
in any order, `payouts` and `paid` the map of the second loop and what it has credited.
`VisitInactive`, `VisitYielding`, `PayOut` and `EndMonth` are one iteration each; the last chooses
whether the month gets a point. Maps are functions; `Credit` adds the entry that Go adds for an id
not in the map, so that a target that is no account of the list gets a balance, without a name (`Unnamed`).
`Lines` has one element for each way the iteration may let accounts of one name overwrite
each other. `Yields` holds the formulas, each as often as the code writes it (`Reinvested`
for the simulation, `NotReinvested` for the announcements), in whole numbers; labels are counts of
months, with the carry of `AddDate` (`MonthName`). An amount is a whole number of some small part of the currency
and `Unit` is how many of these parts make one: `Rounded` is `math.Round`, to the next multiple of `Unit`, halves
away from zero. It stands where the code rounds, and nowhere else: in each line of a point (`projection.go:66`), once in its
total, after the sum (71 to 73), and in `TotalInterests` (143). `TotalBalance` is shown as it is.

*Ledger, Dashboard.* `accounts` and `operations` are the two tables without positions, colours and descriptions;
a write is one action up to its statement, with the ids and forms chosen there, and pages are two reads
(`listRead`, `opsRead`) that other requests come between. `Dashboard` calculates between its two
reads. `Calculate` touches nothing that is shared, so the composition runs one at a
time, while the others wait; nothing else is lost by that. `sqlite.go:41` turns foreign keys on for the connection it is sent on, which the pool
replaces after an hour, and the schema is not in the repository: `DeleteAccount` has both outcomes. With foreign keys, what names
the deleted account follows it, whoever owns the row: operations of the account are deleted (`OperationsWithout`), references to it as a target
are set to NULL (`Cleared`). Without, all of it stays as it is. Deletion of users is in `Auth` only.

### Conventions

A definition whose comment starts with "Mistake:" is a plausible bug of the definition
that follows; no specification uses it. It is there so that a reader can put it in
its place and see the property of the table below fail.

## 3. Runs

| Run | Module, configuration | Checks | Shows |
|---|---|---|---|
| limiter_budget | MCRateLimiter | `SlidingBudget`, `ImplementsBudget`, `RetriedKeyIsAdmitted` | see below |
| limiter_stepping | RateLimiter | `TypeOK`, `CleanupSparesBlocks`, `RetryAfterHonoured` | the same code on a host whose clock is set back |
| auth_sessions | MCAuth | `TypeOK`, `SessionProvesPassword`, `PasswordChangeSignsOut`, `RevokedStaysRevoked`, `SpentLinkRefused` | sessions against changes of password and of the second factor and against a link, used twice and late |
| auth_admins | MCAuth | `AdminRemains` | first registrations, deletions, pages and logouts between them, crashes, failing statements |
| order_exchange | AccountOrder | `TypeOK`, `ImplementsExchange`, `RequestsEnd` | moves are exchanges, all or nothing, and every request ends |
| passkey_logins | MCPasskeys | `DeletedPasskeyRefused`, `PasswordChangeSignsOutPasskeys`, `CounterSetBackOnlyByOverlap` | two logins by one passkey against deletion, changes of password, failures and restarts |
| passkey_owners | MCPasskeys | `PasskeyTypeOK`, `RegisteredForItsHolder` | two registrations in a browser that changes hands |
| dashboard | MCDashboard | `TypeOK`, `InterestOnOpening`, `ChartEndsAtTheTotals`, `PayoutsAsAnnounced`, `LinesAddUp`, `TotalsReconcile`, `MonthGrowsByInterest`, `OwnRowsOnly`, `ImplementsMonths` | the projection and the pages over tables that change |
| auth_closed, auth_lock, auth_link, dashboard_months | MCAuth, MCDashboard | one property each, expected to be violated | section 5 |

**What they show.** The limiter's fixed windows bound a sliding window too:
`2 * MaxAttempts` in any `WindowMs`. This needs blocks at least as long as windows, which
every entry of `Configs` has and nothing in the code says (`BlockCoversWindow`). `ImplementsBudget` says what becomes of a budget between
two calls of `Reset`, not when `Reset` may come: the abstract budget is forgiven at any time, a block included. The clean-up
deletes by the age of the first attempt although a block starts later; it is right only
because `WindowMs + BlockMs` fits in its literal of two hours, with equality for
three entries (`ConfigAssumption`). Sessions carry the version of the row *as read before the
password was compared*: this looks like a stale read and is what makes a login that
overlaps a change of password end signed out (`CompleteFresh` shows what reading it
again would do). That holds of sessions had by a password alone, or by registering, and `SessionProvesPassword` says no more: a
`pending_2fa` token has no version, so that a login whose password was right before a change of it, and whose code comes after, ends in a
session of the *new* version. Sessions that are there or on their way when the password changes are signed out however they were had
(`PasswordChangeSignsOut`), which does not ask which password `ChangePassword` had verified. `SpentLinkRefused` is about links that were used and
cleared; two submissions that both look the link up before either clears it both set the password. That every change increments the version, none starting it over, is what makes
revocation final (`AfterMFAStartsOver`). The test of the role in `DeleteUser`, one
statement before the DELETE, is enough for an administrator to remain because no statement ever changes a
role and ids are not given twice.
A passkey session is signed with the version of a row read after the ceremony, not before: this is right
because the assertion, unlike a password, does not go stale by a change of password, and any change after
that read revokes it. A login whose assertion was sent before the
deletion of its passkey was answered may still end in a session, so `DeletedPasskeyRefused` is about those sent later. The counter is
written without a condition: two overlapping logins can move it back, and only they
can. The projection may change balances while it iterates because an account touches its own entry only
and payouts wait for the second loop (`VisitYieldingAtOnce` shows the dependence on order otherwise).
The page of accounts and the dashboard show different totals for one month; `TotalsReconcile` says by what:
transfers, which the page counts by their sign and the dashboard not at all, and yields without a target
account, which only the dashboard counts. It compares the two sums over the rows that one request has read; what another request changes between
the reads of two pages is a difference of the tables, not of the rules.
The chart rounds each line, its total and the interests by themselves, so they meet only as far as that lets them: the lines add up to
the total within half a unit for each line and half a unit for the total (`LinesAddUp`), and the chart ends within one unit of the balance plus
the interests shown (`ChartEndsAtTheTotals`). In the run the two lines of the first month are 176 and 296 beside a total of 468.
A write changes one row, which is its sender's; a row of somebody else changes only if it names the account that its owner deletes
(`OwnRowsOnly`), which happens because the account that `CreateRecurring` is given is not looked up.
`TotalInterests` is a difference of two totals and says "interest" rightly: a month adds the interest of all
accounts, less the rests that no account is to receive (`MonthGrowsByInterest`). A target that is no account of the
list is credited like any other, which is what keeps this true (`PayOutToListed`).

**Bounds.** Limiter: one key (two when stepping; keys share only the clean-up), budgets of
1 and 3, windows and blocks of 2 and 3 ticks, and a clock that lets a key go through several
windows and blocks. Auth: two requests at a time (`Slots`), enough for every race
of two handlers; one or two browsers; two passwords, the least that distinguishes a current
from an old one; three user ids for registrations (two racing ones and one after a
deletion), one elsewhere; `MaxVersion` 3, so two changes; one link, submitted by both
requests (for any number of links see section 4); `LockAfter` 1 in the
passing runs, so that locks are reached, and 2 in `auth_lock`. Three addresses where
spelling matters (`alice`, `Alice`, `bob`). `Ops` chooses which requests a run
exercises. `MaxVersion`, `MaxNow`, `MaxInflight`, `MaxCount` and `MaxWrites`, and the finite sets of ids,
links and challenges, are the only guards that the code
does not have. Order: two accounts and two requests. Passkeys: one passkey, two tabs of one browser,
two challenges, two signatures (`MaxCount`), one other request at a time: what can overtake a ceremony is
another one, or one change of the account; in `passkey_owners` both users have one password, because
only who is signed in matters there. Dashboard: two accounts that pay each other (one a range, one fixed), room for a third id,
forms of a debt and of an account with the name of another one, one operation with and without a target, two users,
two requests, two writes (`MaxWrites`), so that an account that is a target can be deleted and
replaced before the projection or between the reads of a page; one year by month and three by year.
The amounts are chosen so that the first month divides without remainder, which is what lets
`PayoutsAsAnnounced` compare a rest with a product; later months leave remainders. `Unit` is 4, and two balances of the first month, 174 and 294, lie half way
between multiples of it, so that both lines are rounded up and their total, 468, is not rounded at all. A date in the middle of a
month, and the 31st in `dashboard_months`; no midnight within a calculation. The proofs of section 4 lift the bounds
of what they prove.
Requests and browsers are interchangeable (`SlotsAndBrowsers`); symmetry is used in safety runs only.

**Fairness.** `RateLimiter!Fairness`: the clock goes on, a client that is refused asks again, and
an admitted handler returns (its timeouts are 15 s). `AccountOrder!Fairness` is strong
fairness of each request's next step: `database/sql` hands a free connection to a waiting request
chosen at random, so none is passed over for ever, and SQLite statements return.
No other run has a liveness property.

**Deadlock** is checked in every run.

## 4. Proofs

TLC checks the instances above; TLAPS proves the following for all values of the
constants that satisfy the named assumptions.

*RateLimiterProofs* (any number of keys, any budget, window and block, any
clock up to `MaxNow`, any number of requests in flight; from `ConfigAssumption` and
`BoundAssumption`): `TypeCorrect`, `SteppingInvariant`, `CleanupSparesRunningBlocks`,
`RetryAfterIsHonoured`, `LimiterImplementsBudget`. That the clean-up lifts no running block
is not inductive: it looks at `firstTry` and the block at `blockedAt`. The invariant
`IInv` relates them: a blocked entry started its window at most `WindowMs` before it
blocked (`blockedAt - firstTry <= WindowMs`), an unblocked one has not used up its budget, an
entry without a count is the absent one; and what clients were told (`told`) is the end of
the block their entry is in. `ConfigAssumption` (`WindowMs + BlockMs <= CleanupMs`) then
closes the gap. The safety theorems are about `SteppingSpec`, so they hold on a
host whose clock is set back; the refinement of `AttemptBudget` is about `Spec`, where it only
advances (set back, a window lasts longer than the budget allows for).

*SlidingProofs* (the same, from `BlockCoversWindow` too; about `MCSpec`): `SlidingBudgetHolds`. The bound is about a set of
instants and the limiter keeps a count, so the invariant `SInv` puts each entry beside the history of
its key: the recent admissions that are older than its window are one budget at most, those of its window no more than its
count (than the budget, once it is blocked), and none is later than the window or than the block. When a window
starts, or a block has run out, what the entry counted becomes what is older: the window before the last has then left the
span, which for a block needs that it is as long as the window. A key without an entry has no recent admission; for an
entry that the clean-up deletes that is because its window ended longer ago than the span.

*AccountOrderProofs* (any set of accounts, any number of requests, with or without
failing statements; from `NoneAssumption`): `TypeCorrect`, whose last conjunct says that the
connection is held by exactly the one request inside a transaction, and
`PositionsAreExchanged`, the refinement of `AccountPositions`. The invariant adds `TxProgress`, what the
transaction of a request has read and written by each of its statements: up to the first UPDATE it sees
the committed table, and at the commit it sees the exchange of the two positions *of the
committed table*, because every other statement waits for the connection.
That a listing has a length needs that finitely many ids were given (`IsFiniteSet(used)`).

*LinkProofs* (the same, for `DbMayFail = FALSE`): `SpentLinksAreRefused`. That a link used once is
not accepted again needs `LinkInv`: every link in a row was generated and has not been spent, no two rows
hold one link, and while a request is using a link, the row it is about to clear is the only one that may still hold it.
The assumption is needed: `ResetPasswordSubmit` ignores the error of the statement that clears the
link, and a link that stays in its row serves again.

*PasskeyProofs* (any passkeys, tabs, browsers, users and requests, statements that fail or not, restarts; from
`PasskeyAssumption` and those of `Auth`): `PasskeyTypesCorrect`, `DeletedPasskeysRefused`,
`PasskeysBelongToTheirHolders`, `PasswordChangesSignOutPasskeys`, `CountersSetBackOnlyByOverlap`, and
`SessionsAmongPasskeys`, which carries the two safety properties of `Auth` over to the composition. The invariant
`PasskeyInvariant` adds to that of `AuthProofs`: an assertion sent after the deletion of its passkey
was answered (`late`) is still to look for its row, which is deleted for good, or has been refused; the user
of a live row, of its authenticator and of a credential that is about to be stored agree; no two ceremonies
make one passkey; the count a login is about to store is at least the one it compared with. Steps of `Auth` leave ceremonies
alone and steps of ceremonies evolve nothing that `Auth` relies on (`Evolves` again).

*DashboardProofs* (any users, ids, forms, amounts and years; from the assumptions of `Yields`, `Projection`, `Ledger` and
`Dashboard`): `DashboardTypesCorrect`, `InterestIsOnOpenings`,
`RowsStayWithTheirOwners`, `ShortDatesShowEveryMonth`. The inductive invariant is the conjunction of the first two and of `ChartInv`,
which says that after the last month the last point is the one of that month, with the rounded total of the balances: that the first loop
adds to the entry of the visited account only is what keeps the others at their opening balance, and
that needs the types (credits wait until nothing is left to visit). `ShortDatesShowEveryMonth` is the other half of
the violation of `dashboard_months`: if every date is the 1st to the 28th of a month, charts by month show each month once and in
order, so the labels go wrong on the 29th, 30th and 31st only. Its invariant `LabelInv` is that the last
point carries the index and the label of the month before the one being calculated.

*TotalProofs* (the same; that a table holds finitely many rows is part of `InitialAssumption`):
`PageAndDashboardReconcile`, `ChartsEndAtTheTotals`, `ChartLinesAddUp`, `LoopsImplementMonths`, `FirstMonthAsAnnounced`,
`MonthsGrowByInterest`. All six compare sums over maps of any size. `Total` is a fold of the community modules;
its laws (taking an element out, two disjoint parts, renaming, grouping the payers by their target) are proved by
`SubsetInduction`, an induction over the subsets of a finite set obtained from the well-foundedness of strict inclusion, with
a set of good subsets where a theorem of the library would have a predicate. `FiniteInv` says that the tables,
what requests have read and the maps of a calculation are finite. `PointInv` says that the lines of a point are those of some
balances of the list, each rounded, with the rounded total of these balances. `RoundedNear` (a rounded amount is within half a unit) and
`SumWithin` (what is within a bound term by term is within as many bounds as there are terms) then give `ChartLinesAddUp` for any number
of lines and any `Unit`, and `RoundedNear`, twice, `ChartsEndAtTheTotals`. `MonthInv` is the invariant of the two loops: while accounts are being visited,
each payout is the sum of the rests of the *visited* accounts that pay into that target (`PayoutsInv`), and each balance
is the opening one, plus the part reinvested if the account has been visited, plus its payout if that has been
credited (`BalancesInv`). When both loops are done this is the month of `MonthlyProjection`, whatever the order, and every other step
leaves the opening balances alone. `FirstMonth` adds that month 1 opens with the balances of the list. `FirstMonthAsAnnounced` is
proved where the interest of every yielding account splits into whole shares and at most all of it is
reinvested (`WholeShares`). The first is the price of whole numbers: the code multiplies by a share and by its complement, which agree
up to rounding in `float64` and not after two divisions. The second is the code's: see the end of section 5.

*AuthProofs* (any users, addresses, passwords, browsers and requests, any `Ops`, statements that
fail or not, any accounts to start from; from `NoneAssumption`, `LockAssumption` and
`InitialAssumption`): `TypeCorrect`, `AnAdministratorRemains`,
`SessionsProvePasswords`, `PasswordChangesSignOut` and `RevocationIsFinal`. The argument is about one relation,
`Evolves`: whatever a statement does to the table, versions only grow, a password changes with the version,
roles stay and no administrator goes. Hence what somebody has read stays
*true of the past* (`ReadInv`): the version in a token, or in a row that a login holds while it
compares the password, is at most that of the table, and if it is equal the password is still
the one that was read; whoever counted accounts before registering as a plain user
may rely on an administrator; and a user that `DeleteUser` is about to delete is none. `Filled`
says which fields a request has at each statement. Each action then needs only its
statement shown to keep `Evolves` and its next request shown to satisfy `Filled` and `ReadInv`;
a change of password is also shown to come with no new session (`Preserved`).

**Only model-checked.** Liveness (`RetriedKeyIsAdmitted`, `RequestsEnd`): TLAPS does not
prove properties that rest on fairness and `ENABLED`. `PayoutsAsAnnounced` is proved under `WholeShares` only, and
the run checks it on amounts that meet that. No module uses a RECURSIVE operator. The induction theorems of the library
take a predicate as a parameter, which the provers cannot instantiate; the one induction that is needed, over the subsets of a finite set, goes
through well-foundedness instead (`SubsetInduction`).

## 5. Where the code and its own words differ

Each is a run whose one property TLC violates; the trace is the shortest scenario.

| Run | The repository says | The code does |
|---|---|---|
| auth_closed | `README.md:128`: ALLOW_REGISTER "Permet ou bloque la création de nouveaux comptes." | `HandleRegister` never reads it; only the page with the form does |
| auth_lock | `auth.go:145`: "Compte verrouillé. Réessayez dans N min." | a failure whose row was read before the lock writes `lock_until = NULL` |
| auth_link | `smtp.go:180`: "Ce lien expire dans 1 heure." | `GetUserByResetToken` cannot scan a NULL `lock_until`: the link of a user without a past lock is refused |
| dashboard_months | `projection.go:51`: "Pour les projections courtes (<=2 ans), afficher par mois" | `formatMonthName` adds months to today's day: on the 29th to 31st the shorter months are skipped and the ones after them stand twice |

Seen while modelling, in the model, and without a run: the count of `auth.go:262` and the INSERT are two
statements, so that two racing first registrations make two administrators; the UPDATE of
`settings.go:67` does not depend on the password verified at line 54, so that the later of two changes replaces a
password it never verified; a `pending_2fa` token (`auth.go:52`) carries no version, so that it survives a change of password, and
the code that comes after it gives a session of the new version to somebody who gave the old password; two submissions of one reset link that
both pass the lookup both set the password (`password_reset.go:156`); a login admitted before a block of its address lifts that block for everyone behind
the address when it succeeds (`limiter.go:186`); the lines of the chart are rounded one by one (`projection.go:66`) and its total once (71 to 73), so
that `n` lines may miss the total shown beside them by `(n + 1) / 2`: balances of 0.5 and 0.5 are drawn as 1 and 1 beside 1; `CreateRecurring` does not ask whose account it is
given, so that, where foreign keys are on and the schema lets them cascade, deleting an account deletes operations that other users have put on its id; a new account takes position `len(accounts)` (`accounts.go:109`), which another one has
after a deletion, and exchanging equal positions moves nothing; `UpdateRecurring` negates every expense
(`recurring.go:150`) and stores any day, unlike `CreateRecurring`; payouts to an account that is gone make a line
without a name in the chart; two accounts of one name share a line; a share reinvested above 100 % (`accounts.go:82` takes any number, the slider of the
page none above 100) makes a debt pay into its target each month (`projection.go:114`) while `CalculateYieldPayouts` announces nothing
(`projection.go:188`); a passkey login of a user who
is deleted meanwhile dereferences nil (`passkey.go:245`); `DeleteUser` dereferences the nil
that `GetUserByID` returns for a missing row (`settings.go:98`) although `settings.go:94` has an answer for
it; `DisableMFA` revokes the session that `mfa.go:101` redirects to the settings page;
`ResetPasswordSubmit` reports success when its UPDATE failed (`password_reset.go:175`); a
`pending_2fa` cookie whose user has switched the second factor off makes `auth.go:65` dereference nil;
addresses are lowered by `HandleRegister` and not by `HandleLogin`. Outside of the model:
the form for operations (`templates/pages/accounts.html:196`) offers transfers and has no field `toAccountId`;
the limits `twoFactor` and `verifyEmail` of `Configs` are used by no handler.

## 6. Not modelled, and the plan

Not modelled, by choice: HTML, templates, e-mail and its transport, encryption and hashing
(pure functions; equality of plaintexts stands for them), TOTP (a code is right or
wrong), the inside of the WebAuthn library, start-up (sequential, before the first request), the schema (the repository does not hold it; what is assumed
of it is written in `UserTable`, `AccountOrder`, `Passkeys` and `Ledger`), forms and JSON listings without a computation
(`Page` in `Auth`). Amounts are whole numbers: the rounding of `math.Round` is modelled, that of `float64` arithmetic
is not. Verification of e-mail addresses is dead code (`SetVerificationToken` has no caller).

What could still be added, most important first:

1. **SessionPolicy**: an abstract specification of sessions (granted, revoked, current) that
   `Auth` and `Passkeys` implement. Their properties state its guarantees one by one.
2. **LoginThrottle**: `RateLimiter` composed with `Login`, the address limit and the account lock
   together.
3. **Orders in Ledger**: one table of accounts for `AccountOrder` and `Ledger`.
4. **Server**: which errors of start-up stop it.
