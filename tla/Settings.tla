------------------------------ MODULE Settings ------------------------------
(***************************************************************************)
(* The handlers behind RequireAuth that touch the users table: change of   *)
(* password, second factor on and off, deletion of a user by an            *)
(* administrator; "page" stands for the ones that do not.  RequireAuth     *)
(* compares the version in the cookie with the row once, before the        *)
(* handler: what happens later in the request does not look at it again.   *)
(***************************************************************************)
EXTENDS Requests

\* Where the handler of each operation starts, once RequireAuth lets it.
Entry == [page |-> "page", password |-> "passwordVerify", mfaEnable |-> "mfaEnable",
          mfaDisable |-> "mfaDisable", delete |-> "deleteLookup"]

\* A request of a browser that may be signed in; field user is its target.
AuthedSubmit(r, b, op, form) ==
    /\ op \in Ops
    /\ Send(r, b, "auth", [form EXCEPT !.cookie = session[b], !.op = op])

SettingsSubmit(r, b) ==
    \/ \E op \in {"page", "mfaEnable", "mfaDisable"} : AuthedSubmit(r, b, op, Idle)
    \/ \E old, new \in Passwords :
         AuthedSubmit(r, b, "password", [Idle EXCEPT !.password = old, !.new = new])
    \/ \E u \in UserIds : AuthedSubmit(r, b, "delete", [Idle EXCEPT !.user = u])

SessionCurrent(token) ==
    token.user \in Live /\ users[token.user].version = token.version

\* RequireAuth sends the browser to /login; a token that no longer matches (or is
\* no longer valid by its date) is deleted, one whose user is gone is not.
AuthReject(r) ==
    LET token == req[r].cookie IN
    /\ At(r, "auth")
    /\ \/ token = None /\ Reply(r, "toLogin")
       \/ /\ token # None
          /\ token.user \notin Live
          /\ Reply(r, "toLogin")
       \/ /\ token # None
          /\ token.user \in Live
          /\ ~SessionCurrent(token)
          /\ Respond(r, "toLogin", Delete, None)
       \/ /\ token # None
          /\ Respond(r, "toLogin", Delete, None)
    /\ UNCHANGED <<users, browserVars, linkVars>>

\* The handler goes on with the claims of the token; RequireAdmin looks at its role.
AuthAdmit(r) ==
    LET token == req[r].cookie IN
    /\ At(r, "auth")
    /\ token # None
    /\ SessionCurrent(token)
    /\ IF req[r].op = "delete" /\ token.role # "ADMIN" THEN Reply(r, "forbidden")
       ELSE Goto(r, Entry[req[r].op], [req[r] EXCEPT !.op = None])
    /\ UNCHANGED <<users, browserVars, linkVars>>

Page(r) ==
    /\ At(r, "page")
    /\ Reply(r, "page")
    /\ UNCHANGED <<users, browserVars, linkVars>>

\* ChangePassword compares the current password with the row ...
PasswordVerify(r) ==
    LET u == req[r].cookie.user IN
    /\ At(r, "passwordVerify")
    /\ \/ u \notin Live /\ Reply(r, "notFound")
       \/ u \in Live /\ users[u].password # req[r].password /\ Reply(r, "badCredentials")
       \/ /\ u \in Live
          /\ users[u].password = req[r].password
          /\ Goto(r, "passwordWrite", req[r])
    /\ UNCHANGED <<users, browserVars, linkVars>>

\* ... and writes the new one later, into whatever the row has become.
PasswordWrite(r) ==
    LET u == req[r].cookie.user IN
    /\ At(r, "passwordWrite")
    /\ users[u].version < MaxVersion
    /\ users' = AfterPassword(u, req[r].new)
    /\ Reply(r, "ok")
    /\ UNCHANGED <<browserVars, linkVars>>

\* The code is checked against the secret of the request itself.
MFAEnable(r) ==
    LET u == req[r].cookie.user IN
    /\ At(r, "mfaEnable")
    /\ \/ Reply(r, "badCode") /\ UNCHANGED users
       \/ /\ users[u].version < MaxVersion
          /\ users' = AfterMFA(u, TRUE)
          /\ Reply(r, "ok")
    /\ UNCHANGED <<browserVars, linkVars>>

MFADisable(r) ==
    LET u == req[r].cookie.user IN
    /\ At(r, "mfaDisable")
    /\ users[u].version < MaxVersion
    /\ users' = AfterMFA(u, FALSE)
    /\ Reply(r, "toSettings")
    /\ UNCHANGED <<browserVars, linkVars>>

\* Mistake: an administrator may delete any account but the one it is signed in to.
DeleteLookupOthers(r) ==
    LET u == req[r].user IN
    /\ At(r, "deleteLookup")
    /\ \/ u \notin Live /\ Reply(r, "panic")
       \/ u \in Live /\ u = req[r].cookie.user /\ Reply(r, "forbidden")
       \/ u \in Live /\ u # req[r].cookie.user /\ Goto(r, "deleteWrite", req[r])
    /\ UNCHANGED <<users, browserVars, linkVars>>

\* GetUserByID answers (nil, nil) for an id without a row; the handler reads the
\* role of what it got.
DeleteLookup(r) ==
    LET u == req[r].user IN
    /\ At(r, "deleteLookup")
    /\ \/ u \notin Live /\ Reply(r, "panic")
       \/ u \in Live /\ users[u].role = "ADMIN" /\ Reply(r, "forbidden")
       \/ u \in Live /\ users[u].role # "ADMIN" /\ Goto(r, "deleteWrite", req[r])
    /\ UNCHANGED <<users, browserVars, linkVars>>

DeleteWrite(r) ==
    /\ At(r, "deleteWrite")
    /\ users' = AfterDelete(req[r].user)
    /\ Reply(r, "ok")
    /\ UNCHANGED <<browserVars, linkVars>>

\* Logout deletes the cookie and changes nothing on the server.
LogoutSubmit(r, b) ==
    /\ "logout" \in Ops
    /\ Send(r, b, "logout", Idle)

Logout(r) ==
    /\ At(r, "logout")
    /\ Respond(r, "toLogin", Delete, None)
    /\ UNCHANGED <<users, browserVars, linkVars>>

SettingsNext ==
    \/ \E r \in Slots, b \in Browsers : SettingsSubmit(r, b) \/ LogoutSubmit(r, b)
    \/ \E r \in Slots :
         \/ AuthReject(r) \/ AuthAdmit(r) \/ Page(r)
         \/ PasswordVerify(r) \/ PasswordWrite(r)
         \/ MFAEnable(r) \/ MFADisable(r)
         \/ DeleteLookup(r) \/ DeleteWrite(r)
         \/ Logout(r)
=============================================================================
