-------------------------------- MODULE Auth --------------------------------
(***************************************************************************)
(* The handlers that read and write the users table, composed: requests of *)
(* Login, Registration, PasswordReset and Settings interleave statement by *)
(* statement, responses are late or lost, the process crashes and          *)
(* restarts, statements may fail (DbMayFail), locks and links age.         *)
(***************************************************************************)
EXTENDS Login, Registration, PasswordReset, Settings

CONSTANT AllowRegister   \* ALLOW_REGISTER = "true"

Init == RequestsInit

Environment ==
    \/ \E r \in Slots : Deliver(r) \/ Lose(r) \/ DbError(r) \/ RateLimited(r)
    \/ \E b \in Browsers : CookieExpires(b)
    \/ \E u \in Live : (LockElapses(u) \/ LinkExpires(u)) /\ UNCHANGED <<req, browserVars, linkVars>>

\* What the process does while it is up.
Serving == \/ LoginNext
           \/ RegistrationNext
           \/ PasswordResetNext
           \/ SettingsNext
           \/ Environment

Next == Serving \/ Crash

Spec == Init /\ [][Next]_vars
-----------------------------------------------------------------------------
Pending == [user : UserIds, proof : Passwords]

Request ==
    [pc         : {"idle", "respond", "auth", "page", "logout", "loginLookup", "loginFail",
                   "loginReset", "loginSecond", "registerCount", "registerLookup",
                   "registerInsert", "forgotLookup", "forgotWrite", "resetLookup",
                   "resetWrite", "resetClear", "passwordVerify", "passwordWrite",
                   "mfaEnable", "mfaDisable", "deleteLookup", "deleteWrite"},
     op         : {None, "page", "password", "mfaEnable", "mfaDisable", "delete"},
     browser    : Browsers \cup {None},
     cookie     : Token \cup Pending \cup {None},
     user       : UserIds \cup {None},
     row        : Row \cup {None},
     email      : Emails \cup {None},
     password   : Passwords \cup {None},
     new        : Passwords \cup {None},
     link       : Links \cup {None},
     first      : BOOLEAN,
     reply      : {None, "home", "needCode", "badCredentials", "badCode", "locked", "tooMany",
                   "taken", "serverError", "notFound", "forbidden", "mailSent", "linkExpired",
                   "resetDone", "toLogin", "toSettings", "page", "ok", "panic"},
     set        : Token \cup {None, Delete},
     setPending : Pending \cup {None, Delete}]

\* Rows, requests and cookies are well formed, and only a link that was generated
\* is mailed or spent.
TypeOK ==
    /\ users \in [UserIds -> Row]
    /\ req \in [Slots -> Request]
    /\ session \in [Browsers -> Token \cup {None}]
    /\ pending \in [Browsers -> Pending \cup {None}]
    /\ issued \subseteq Links
    /\ mailed \subseteq issued
    /\ spent \subseteq mailed

\* The session cookies that exist: held by a browser or on their way to one.
Tokens == {session[b] : b \in Browsers} \cup {req[r].set : r \in Slots}

SessionTokens == Tokens \ {None, Delete}

\* Whoever holds a session that RequireAuth would accept, and got it by a password
\* alone or by registering, gave the password the account has now: a login that
\* overlaps a change of password ends with a session of the past.  Not so a login
\* that a code completes: the pending_2fa token has no version, outlives a change of
\* password, and ends in a session of the version of that later moment.
SessionProvesPassword ==
    \A t \in SessionTokens :
        t.via # "code" /\ SessionCurrent(t) => users[t.user].password = t.proof

\* A change of password (by ChangePassword or a reset) signs out every browser,
\* those included whose new session is still on its way.
PasswordChangeSignsOut ==
    [][\A u \in Live :
         users'[u].password # users[u].password =>
           \A t \in SessionTokens' : t.user = u => ~SessionCurrent(t)']_vars

\* A session that was refused once is refused for ever: no interleaving of changes
\* of password and second factor brings its version back.
RevokedStaysRevoked ==
    [][\A b \in Browsers :
         session[b] # None /\ ~SessionCurrent(session[b]) /\ session'[b] = session[b]
           => ~SessionCurrent(session[b])']_vars

\* As long as there is an account there is an administrator, whatever the order of
\* the first registrations and of the deletions.
AdminRemains == Live # {} => \E u \in Live : users[u].role = "ADMIN"

\* A link that was used and cleared is not accepted by a later lookup.
SpentLinkRefused ==
    [][\A r \in Slots :
         At(r, "resetLookup") /\ req'[r].pc = "resetWrite" => req[r].link \notin spent]_vars
-----------------------------------------------------------------------------
(***************************************************************************)
(* What messages and comments of the code say, and the code does not do.   *)
(***************************************************************************)

\* README: ALLOW_REGISTER permits or blocks the creation of accounts.
ClosedRegistrationCreatesNothing ==
    [][~AllowRegister => \A u \in UserIds : users[u].state = "absent" => users'[u].state = "absent"]_vars

\* auth.go: a locked account is opened again after some minutes ("Reessayez dans N
\* min."); in particular one more wrong password does not open it.
FailureKeepsLock ==
    [][\A r \in Slots :
         LET u == req[r].user IN
         At(r, "loginFail") /\ req'[r].reply = "badCredentials" /\ u \in Live
           /\ users[u].lock = "running" => users'[u].lock = "running"]_vars

\* smtp.go: the link of the mail works for an hour.
FreshLinkAccepted ==
    [][\A r \in Slots :
         At(r, "resetLookup") /\ req'[r].reply = "linkExpired" =>
           ~\E u \in Live : users[u].reset = req[r].link /\ ~users[u].expired]_vars
=============================================================================
