------------------------------- MODULE Login -------------------------------
(***************************************************************************)
(* HandleLogin (internal/handlers/auth.go): the password step, the         *)
(* bookkeeping of failed attempts and the second factor.                   *)
(***************************************************************************)
EXTENDS Requests

IssuedFor(u, row, proof, via) ==
    [user |-> u, role |-> row.role, version |-> row.version, proof |-> proof, via |-> via]

LoginSubmit(r, b, email, password) ==
    /\ "login" \in Ops
    /\ Send(r, b, "loginLookup", [Idle EXCEPT !.email = email, !.password = password])

CodeSubmit(r, b) ==
    /\ "code" \in Ops
    /\ pending[b] # None
    /\ Send(r, b, "loginSecond", [Idle EXCEPT !.cookie = pending[b]])

\* Mistake: the session version is read again when the token is signed.
CompleteFresh(r, u, row) ==
    IF row.mfa THEN Respond(r, "needCode", None, [user |-> u, proof |-> row.password])
    ELSE Respond(r, "home", IssuedFor(u, users[u], row.password, "password"), None)

\* The password was right: a pending_2fa cookie or a session, from the row as read.
Complete(r, u, row) ==
    IF row.mfa THEN Respond(r, "needCode", None, [user |-> u, proof |-> row.password])
    ELSE Respond(r, "home", IssuedFor(u, row, row.password, "password"), None)

\* The address is looked up as typed, trimmed but not lowered.
LoginLookup(r) ==
    /\ At(r, "loginLookup")
    /\ \/ /\ ByEmail(req[r].email) = {}
          /\ Reply(r, "badCredentials")
       \/ \E u \in ByEmail(req[r].email) :
            LET row == users[u]
                found == [req[r] EXCEPT !.user = u, !.row = row] IN
            \/ row.lock = "running" /\ Reply(r, "locked")
            \/ /\ row.lock # "running"
               /\ row.password # req[r].password
               /\ Goto(r, "loginFail", found)
            \/ /\ row.lock # "running"
               /\ row.password = req[r].password
               /\ IF row.attempts > 0 \/ row.lock # "null"
                    THEN Goto(r, "loginReset", found)
                    ELSE Complete(r, u, row)
    /\ UNCHANGED <<users, browserVars, linkVars>>

\* Mistake: the account locks one failure too late (> for >=).
LoginFailLate(r) ==
    LET count == req[r].row.attempts + 1 IN
    /\ At(r, "loginFail")
    /\ MayFail(IF count > LockAfter
                 THEN AfterLoginAttempts(req[r].user, 0, "running")
                 ELSE AfterLoginAttempts(req[r].user, count, "null"))
    /\ Reply(r, "badCredentials")
    /\ UNCHANGED <<browserVars, linkVars>>

\* handleFailedLogin: the new count and lock come from the row read by LoginLookup,
\* and an error is ignored.
LoginFail(r) ==
    LET count == req[r].row.attempts + 1 IN
    /\ At(r, "loginFail")
    /\ MayFail(IF count >= LockAfter
                 THEN AfterLoginAttempts(req[r].user, 0, "running")
                 ELSE AfterLoginAttempts(req[r].user, count, "null"))
    /\ Reply(r, "badCredentials")
    /\ UNCHANGED <<browserVars, linkVars>>

LoginReset(r) ==
    /\ At(r, "loginReset")
    /\ MayFail(AfterLoginAttempts(req[r].user, 0, "null"))
    /\ Complete(r, req[r].user, req[r].row)
    /\ UNCHANGED <<browserVars, linkVars>>

\* The second factor: the row is read again, and dereferenced without a test of
\* its mfa_secret.
LoginSecond(r) ==
    LET u == req[r].cookie.user IN
    /\ At(r, "loginSecond")
    /\ \/ u \notin Live /\ Reply(r, "badCredentials")
       \/ u \in Live /\ ~users[u].mfa /\ Reply(r, "panic")
       \/ u \in Live /\ users[u].mfa /\ Reply(r, "badCredentials")
       \/ /\ u \in Live
          /\ users[u].mfa
          /\ Respond(r, "home", IssuedFor(u, users[u], req[r].cookie.proof, "code"), Delete)
    /\ UNCHANGED <<users, browserVars, linkVars>>

LoginNext ==
    \/ \E r \in Slots, b \in Browsers :
         \/ \E email \in Emails, password \in Passwords : LoginSubmit(r, b, email, password)
         \/ CodeSubmit(r, b)
    \/ \E r \in Slots : LoginLookup(r) \/ LoginFail(r) \/ LoginReset(r) \/ LoginSecond(r)
=============================================================================
