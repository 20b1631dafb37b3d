----------------------------- MODULE UserTable -----------------------------
(***************************************************************************)
(* The users table and the statements of internal/db/users.go and          *)
(* sqlite.go that read or write it.  The pool has one connection           *)
(* (SetMaxOpenConns(1)) and each function issues one statement outside of  *)
(* any transaction, so each is atomic.  An operator is either a query over *)
(* users or the value of users after a statement; an UPDATE or DELETE      *)
(* whose WHERE finds no row changes nothing and is no error.               *)
(*                                                                         *)
(* The schema is not in the repository.  From its uses: id is never given  *)
(* twice, email_blind_index is unique, failed_login_attempts starts at 0   *)
(* and the columns that CreateUser leaves out are NULL.                    *)
(***************************************************************************)
EXTENDS Integers, FiniteSets

CONSTANTS UserIds,       \* ids of rows
          Emails,        \* addresses as they are typed
          Lower(_),      \* strings.ToLower(strings.TrimSpace(_))
          Passwords,
          Links,         \* tokens of password reset links
          LockAfter,     \* failures that lock an account (5)
          None,          \* NULL, nil, no value
          InitialUsers   \* accounts that exist when the server first starts

ASSUME NoneAssumption ==
    /\ None \notin Emails \cup Passwords \cup Links \cup UserIds
    /\ \A e \in Emails : Lower(e) \in Emails

ASSUME LockAssumption == LockAfter \in Nat \ {0}

\* Accounts made by an earlier run: the first of them is an administrator.
ASSUME InitialAssumption ==
    /\ DOMAIN InitialUsers \subseteq UserIds
    /\ \A u \in DOMAIN InitialUsers :
         InitialUsers[u] \in [email : Emails, password : Passwords, role : {"ADMIN", "USER"}]
    /\ DOMAIN InitialUsers # {} =>
         \E u \in DOMAIN InitialUsers : InitialUsers[u].role = "ADMIN"

VARIABLE users   \* id -> row

\* lock and reset stand for a timestamp column compared with the clock: NULL,
\* in the future or in the past.
Row == [state    : {"absent", "live", "deleted"},
        email    : Emails \cup {None},
        password : Passwords \cup {None},
        role     : {"ADMIN", "USER"},
        version  : Nat,
        mfa      : BOOLEAN,
        attempts : 0..(LockAfter - 1),
        lock     : {"null", "running", "elapsed"},
        reset    : Links \cup {None},
        expired  : BOOLEAN]

NoRow == [state |-> "absent", email |-> None, password |-> None, role |-> "USER",
          version |-> 0, mfa |-> FALSE, attempts |-> 0, lock |-> "null",
          reset |-> None, expired |-> FALSE]

NewRow(email, password, role) ==
    [NoRow EXCEPT !.state = "live", !.email = email, !.password = password,
                  !.role = role, !.version = 1]

UsersInit == users = [u \in UserIds |->
                        IF u \in DOMAIN InitialUsers
                          THEN NewRow(InitialUsers[u].email, InitialUsers[u].password,
                                      InitialUsers[u].role)
                          ELSE NoRow]
-----------------------------------------------------------------------------
\* Queries.

Live == {u \in UserIds : users[u].state = "live"}

NoUsers == Live = {}    \* CountUsers() == 0

ByEmail(email) == {u \in Live : users[u].email = email}

\* GetUserByResetToken scans lock_until into an int64, which has no NULL.
ByResetToken(link) ==
    {u \in Live : users[u].reset = link /\ ~users[u].expired /\ users[u].lock # "null"}
-----------------------------------------------------------------------------
\* Statements: the table after them.

Updated(u, row) == IF u \in Live THEN [users EXCEPT ![u] = row] ELSE users

AfterLoginAttempts(u, attempts, lock) ==
    Updated(u, [users[u] EXCEPT !.attempts = attempts, !.lock = lock])

\* Mistake: the password is replaced and the sessions are not revoked.
AfterPasswordOnly(u, password) == Updated(u, [users[u] EXCEPT !.password = password])

AfterPassword(u, password) ==
    Updated(u, [users[u] EXCEPT !.password = password, !.version = users[u].version + 1])

\* Mistake: switching the second factor off starts the versions over.
AfterMFAStartsOver(u, enabled) ==
    Updated(u, [users[u] EXCEPT !.mfa = enabled,
                                !.version = IF enabled THEN users[u].version + 1 ELSE 1])

AfterMFA(u, enabled) ==
    Updated(u, [users[u] EXCEPT !.mfa = enabled, !.version = users[u].version + 1])

AfterSetResetToken(u, link) ==
    Updated(u, [users[u] EXCEPT !.reset = link, !.expired = FALSE])

AfterClearResetToken(u) ==
    Updated(u, [users[u] EXCEPT !.reset = None, !.expired = FALSE])

AfterDelete(u) == Updated(u, [NoRow EXCEPT !.state = "deleted", !.version = users[u].version])

AfterCreate(u, email, password, role) ==
    [users EXCEPT ![u] = NewRow(email, password, role)]
-----------------------------------------------------------------------------
\* The clock passes lock_until, or reset_token_expiry.

LockElapses(u) ==
    /\ users[u].lock = "running"
    /\ users' = [users EXCEPT ![u].lock = "elapsed"]

LinkExpires(u) ==
    /\ users[u].reset # None
    /\ ~users[u].expired
    /\ users' = [users EXCEPT ![u].expired = TRUE]
=============================================================================
