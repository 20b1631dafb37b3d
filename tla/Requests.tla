------------------------------ MODULE Requests ------------------------------
(***************************************************************************)
(* Browsers, their cookies and the HTTP requests that the server is        *)
(* working on.  net/http runs each request in a goroutine of its own; its  *)
(* steps interleave with those of other requests between two statements.   *)
(* A request carries the cookies its browser had when it was sent, and its *)
(* response changes them when it arrives, if it does.                      *)
(*                                                                         *)
(* A session cookie is a JWT that carries the claims of GenerateToken;     *)
(* proof is a history field, the password of the row it was issued from.   *)
(* pending is the pending_2fa cookie.                                      *)
(***************************************************************************)
EXTENDS UserTable

CONSTANTS Slots,       \* requests the server may work on at the same time
          Browsers,
          Delete,      \* a Set-Cookie that removes the cookie
          Ops,         \* the operations exercised
          MaxVersion,  \* bound on session_version
          DbMayFail    \* whether statements may fail

ASSUME RequestsAssumption == MaxVersion \in Nat /\ DbMayFail \in BOOLEAN

VARIABLES req,       \* slot -> request
          session,   \* browser -> session cookie
          pending,   \* browser -> pending_2fa cookie
          issued,    \* reset links generated so far
          mailed,    \* reset links that reached their owner
          spent      \* history: links of a completed reset

vars == <<users, req, session, pending, issued, mailed, spent>>
browserVars == <<session, pending>>
linkVars == <<issued, mailed, spent>>

Token == [user : UserIds, role : {"ADMIN", "USER"}, version : Nat,
          proof : Passwords \cup {None}, via : {"password", "register", "code", "passkey"}]

\* op, user, email, password, new and link are what the request asks for; user and
\* row are also what its handler has read; first is isFirstUser.
Idle == [pc |-> "idle", op |-> None, browser |-> None, cookie |-> None, user |-> None, row |-> None,
         email |-> None, password |-> None, new |-> None, link |-> None,
         first |-> FALSE, reply |-> None, set |-> None, setPending |-> None]

RequestsInit ==
    /\ UsersInit
    /\ req = [r \in Slots |-> Idle]
    /\ session = [b \in Browsers |-> None]
    /\ pending = [b \in Browsers |-> None]
    /\ issued = {}
    /\ mailed = {}
    /\ spent = {}
-----------------------------------------------------------------------------
\* Browser b sends a request whose handler starts at pc; form holds its fields.
Send(r, b, pc, form) ==
    /\ req[r] = Idle
    /\ req' = [req EXCEPT ![r] = [form EXCEPT !.pc = pc, !.browser = b]]
    /\ UNCHANGED <<users, session, pending, linkVars>>

At(r, pc) == req[r].pc = pc

\* Request r goes on at pc, having changed some of its fields to those of q.
Goto(r, pc, q) == req' = [req EXCEPT ![r] = [q EXCEPT !.pc = pc]]

\* Its handler returns: reply says what the response shows, set and setPending
\* what its Set-Cookie headers do (None: nothing).
Respond(r, reply, set, setPending) ==
    req' = [req EXCEPT ![r] = [Idle EXCEPT !.pc = "respond", !.browser = req[r].browser,
                                           !.reply = reply, !.set = set,
                                           !.setPending = setPending]]

Reply(r, reply) == Respond(r, reply, None, None)

\* users after a statement whose error the handler ignores.
MayFail(after) == users' \in {after} \cup (IF DbMayFail THEN {users} ELSE {})

After(cookie, set) ==
    IF set = None THEN cookie ELSE IF set = Delete THEN None ELSE set

Deliver(r) ==
    LET b == req[r].browser IN
    /\ At(r, "respond")
    /\ session' = [session EXCEPT ![b] = After(session[b], req[r].set)]
    /\ pending' = [pending EXCEPT ![b] = After(pending[b], req[r].setPending)]
    /\ req' = [req EXCEPT ![r] = Idle]
    /\ UNCHANGED <<users, linkVars>>

\* The response is lost: the client has gone or the write timeout has passed.
Lose(r) ==
    /\ At(r, "respond")
    /\ req' = [req EXCEPT ![r] = Idle]
    /\ UNCHANGED <<users, browserVars, linkVars>>

\* A cookie reaches its MaxAge, which is the lifetime of its token too.
CookieExpires(b) ==
    /\ \/ session[b] # None /\ session' = [session EXCEPT ![b] = None] /\ UNCHANGED pending
       \/ pending[b] # None /\ pending' = [pending EXCEPT ![b] = None] /\ UNCHANGED session
    /\ UNCHANGED <<users, req, linkVars>>

\* The process dies and starts again: requests are lost, statements that have
\* returned are not, the signing key comes from the environment.
Crash ==
    /\ \E r \in Slots : req[r] # Idle
    /\ req' = [r \in Slots |-> Idle]
    /\ UNCHANGED <<users, browserVars, linkVars>>

\* What a handler answers when the statement at pc fails and it looks at the error.
ErrorReply == [auth           |-> "toLogin",
               loginLookup    |-> "serverError",
               loginSecond    |-> "badCredentials",
               registerCount  |-> "serverError",
               registerLookup |-> "serverError",
               registerInsert |-> "serverError",
               forgotLookup   |-> "mailSent",
               resetLookup    |-> "linkExpired",
               passwordVerify |-> "notFound",
               passwordWrite  |-> "serverError",
               mfaEnable      |-> "serverError",
               mfaDisable     |-> "serverError",
               deleteLookup   |-> "notFound",
               deleteWrite    |-> "serverError"]

DbError(r) ==
    /\ DbMayFail
    /\ req[r].pc \in DOMAIN ErrorReply
    /\ Reply(r, ErrorReply[req[r].pc])
    /\ UNCHANGED <<users, browserVars, linkVars>>

\* ratelimit.Check refuses the request before its handler does anything (see
\* RateLimiter for when it does).
RateLimited(r) ==
    /\ req[r].pc \in {"loginLookup", "loginSecond", "registerCount", "forgotLookup"}
    /\ Reply(r, "tooMany")
    /\ UNCHANGED <<users, browserVars, linkVars>>
=============================================================================
