------------------------------ MODULE Passkeys ------------------------------
(***************************************************************************)
(* The ceremonies of internal/handlers/passkey.go beside the handlers of   *)
(* Auth: registration and login by a passkey, deletion and renaming, down  *)
(* to the statements of internal/db/authenticators.go.                     *)
(*                                                                         *)
(* A ceremony is two requests with the authenticator between them          *)
(* (static/js/passkey.js).  What the server must remember from one to the  *)
(* other, webauthn.SessionData, is in a cookie of the browser: the tabs of *)
(* a browser share it, and the server forgets nothing when it restarts.    *)
(* The checks of go-webauthn are modelled from how its results are used.   *)
(***************************************************************************)
EXTENDS Auth

CONSTANTS PasskeyIds,   \* credential ids, each made once by an authenticator
          Counting,     \* those of authenticators that count their signatures
          InitialKeys,  \* passkeys registered by an earlier run: id -> user
          Ceremonies,   \* tabs in which a ceremony may be going on
          Challenges,   \* random challenges
          MaxCount      \* bound on the signature counts

ASSUME PasskeyAssumption ==
    /\ Counting \subseteq PasskeyIds
    /\ None \notin PasskeyIds \cup Challenges \cup Browsers
    /\ MaxCount \in Nat
    /\ DOMAIN InitialKeys \subseteq PasskeyIds
    /\ \A k \in DOMAIN InitialKeys : InitialKeys[k] \in DOMAIN InitialUsers

VARIABLES keys,           \* passkey -> row of authenticators
          device,         \* passkey -> what its authenticator holds
          authChallenge,  \* browser -> passkey_auth_challenge cookie
          regChallenge,   \* browser -> passkey_challenge cookie
          given,          \* challenges generated so far
          told,           \* history: passkeys whose owner was told of their deletion
          tab             \* ceremony -> where it stands

keyVars == <<keys, device, told>>
challengeVars == <<authChallenge, regChallenge, given>>
allVars == <<vars, keyVars, challengeVars, tab>>

SessionData == [challenge : Challenges, user : UserIds \cup {None}]

Authenticator == [state : {"absent", "live", "deleted"}, user : UserIds \cup {None}, counter : Nat]

\* user is the user handle, None as long as no credential has been made.
Device == [user : UserIds \cup {None}, count : Nat]

\* cookie is the session cookie of the request, got its challenge cookie, asked what
\* the options of the browser said; count is the signature count, of the assertion
\* and then as the library leaves it, read that of the row when it was listed; late is a
\* history field: the passkey, if it had been deleted when the assertion was sent.
Quiet == [pc |-> "idle", browser |-> None, cookie |-> None, key |-> None, asked |-> None,
          got |-> None, count |-> 0, read |-> 0, again |-> FALSE, late |-> {},
          reply |-> None, set |-> None]

PasskeyInit ==
    /\ Init
    /\ keys = [k \in PasskeyIds |->
                 IF k \in DOMAIN InitialKeys
                   THEN [state |-> "live", user |-> InitialKeys[k], counter |-> 0]
                   ELSE [state |-> "absent", user |-> None, counter |-> 0]]
    /\ device = [k \in PasskeyIds |->
                   [user |-> IF k \in DOMAIN InitialKeys THEN InitialKeys[k] ELSE None,
                    count |-> 0]]
    /\ authChallenge = [b \in Browsers |-> None]
    /\ regChallenge = [b \in Browsers |-> None]
    /\ given = {}
    /\ told = {}
    /\ tab = [c \in Ceremonies |-> Quiet]
-----------------------------------------------------------------------------
In(c, pc) == tab[c].pc = pc

Proceed(c, pc, q) == tab' = [tab EXCEPT ![c] = [q EXCEPT !.pc = pc]]

\* A handler returns; late goes on to show what the answer was given to.
Answer(c, reply, set) ==
    Proceed(c, "respond", [Quiet EXCEPT !.browser = tab[c].browser, !.late = tab[c].late,
                                        !.reply = reply, !.set = set])

Registered == {k \in PasskeyIds : keys[k].state = "live"}

\* A tab sends a request whose handler starts at pc, with the session cookie.
Ask(c, b, pc, form) ==
    /\ "passkey" \in Ops
    /\ tab[c] = Quiet
    /\ Proceed(c, pc, [form EXCEPT !.browser = b, !.cookie = session[b]])
    /\ UNCHANGED <<vars, keyVars, challengeVars>>
-----------------------------------------------------------------------------
\* Login.  PasskeyLoginStart sends no statement.
LoginStart(c, b) ==
    /\ "passkey" \in Ops
    /\ tab[c] = Quiet
    /\ \E x \in Challenges \ given :
         /\ given' = given \cup {x}
         /\ Proceed(c, "loginOptions",
                    [Quiet EXCEPT !.browser = b,
                                  !.asked = [challenge |-> x, user |-> None]])
    /\ UNCHANGED <<vars, keyVars, authChallenge, regChallenge>>

\* The options arrive; their cookie replaces that of a ceremony in another tab.
LoginOptionsArrive(c) ==
    /\ In(c, "loginOptions")
    /\ authChallenge' = [authChallenge EXCEPT ![tab[c].browser] = tab[c].asked]
    /\ Proceed(c, "prompt", tab[c])
    /\ UNCHANGED <<vars, keyVars, regChallenge, given>>

\* The authenticator signs the challenge of this tab; the request takes the cookie
\* that the browser has by now.  PasskeyLoginFinish stops without one.
Sign(c) ==
    /\ In(c, "prompt")
    /\ \E k \in PasskeyIds :
         LET n == IF k \in Counting THEN device[k].count + 1 ELSE 0 IN
         /\ device[k].user # None
         /\ n <= MaxCount
         /\ device' = [device EXCEPT ![k].count = n]
         /\ IF authChallenge[tab[c].browser] = None THEN Answer(c, "expired", None)
            ELSE Proceed(c, "key", [tab[c] EXCEPT !.key = k, !.count = n, !.late = told \cap {k},
                                                  !.got = authChallenge[tab[c].browser]])
    /\ UNCHANGED <<vars, keys, told, challengeVars>>

\* userHandler, first statement: the row of the passkey.
FindKey(c) ==
    /\ In(c, "key")
    /\ IF tab[c].key \in Registered THEN Proceed(c, "owner", tab[c])
       ELSE Answer(c, "refused", None)
    /\ UNCHANGED <<vars, keyVars, challengeVars>>

\* Second statement: its user.  For a user that is gone it returns (nil, nil), which
\* the library, and FinishLogin the second time, take for a user.
FindOwner(c) ==
    /\ In(c, "owner")
    /\ IF keys[tab[c].key].user \in Live THEN Proceed(c, "list", tab[c])
       ELSE Answer(c, "panic", None)
    /\ UNCHANGED <<vars, keyVars, challengeVars>>

\* Mistake: the count before the assertion is kept; that of an authenticator that
\* does not count is 0.
SignCountBefore(stored, n) == n - 1

\* Authenticator.UpdateCounter of the library: a count that does not grow is a clone
\* warning, which nobody reads, and leaves the stored count.
SignCount(stored, n) == IF n <= stored /\ (n # 0 \/ stored # 0) THEN stored ELSE n

\* Mistake: the credentials are made without the counts of their rows, as those of
\* PasskeyRegistrationFinish are.
ListedCountMissing(k) == 0

\* The count that the credential of a row carries to the library.
ListedCount(k) == keys[k].counter

\* Third statement: the passkeys of the user (none if it fails).  The library wants the
\* challenge, the user handle and the passkey to fit; FinishLogin then calls
\* userHandler again, for the user only.
ListKeys(c) ==
    LET q == tab[c] IN
    /\ In(c, "list")
    /\ \/ q.again /\ Proceed(c, "count", q)
       \/ /\ ~q.again
          /\ q.key \in Registered
          /\ q.got = q.asked
          /\ keys[q.key].user = device[q.key].user
          /\ Proceed(c, "key", [q EXCEPT !.again = TRUE, !.read = keys[q.key].counter,
                                         !.count = SignCount(ListedCount(q.key), q.count)])
       \/ /\ ~q.again
          /\ \/ q.key \notin Registered
             \/ q.got # q.asked
             \/ keys[q.key].user # device[q.key].user
             \/ DbMayFail
          /\ Answer(c, "refused", None)
    /\ UNCHANGED <<vars, keyVars, challengeVars>>

\* UpdateAuthenticatorCounter, its error ignored.
StoreCounter(c) ==
    LET k == tab[c].key IN
    /\ In(c, "count")
    /\ keys' \in {IF k \in Registered THEN [keys EXCEPT ![k].counter = tab[c].count] ELSE keys}
                 \cup (IF DbMayFail THEN {keys} ELSE {})
    /\ Proceed(c, "issue", tab[c])
    /\ UNCHANGED <<vars, device, told, challengeVars>>

\* The user is read once more, and dereferenced without a test; the session is of the
\* version it has now.
Issue(c) ==
    LET u == device[tab[c].key].user IN
    /\ In(c, "issue")
    /\ IF u \in Live THEN Answer(c, "home", IssuedFor(u, users[u], users[u].password, "passkey"))
       ELSE Answer(c, "panic", None)
    /\ UNCHANGED <<vars, keyVars, challengeVars>>
-----------------------------------------------------------------------------
\* Registration.  Each of its two requests passes RequireAuth.
RegisterStart(c, b) == Ask(c, b, "startAuth", Quiet)

DeleteSubmit(c, b) ==
    \E k \in PasskeyIds :
        /\ keys[k].state # "absent"
        /\ Ask(c, b, "deleteAuth", [Quiet EXCEPT !.key = k])

RenameSubmit(c, b) ==
    \E k \in PasskeyIds :
        /\ keys[k].state # "absent"
        /\ Ask(c, b, "renameAuth", [Quiet EXCEPT !.key = k])

KeyReject(c) ==
    LET token == tab[c].cookie IN
    /\ tab[c].pc \in {"startAuth", "finishAuth", "deleteAuth", "renameAuth"}
    /\ \/ /\ token # None => token.user \notin Live
          /\ Answer(c, "toLogin", None)
       \/ /\ token # None
          /\ Answer(c, "toLogin", Delete)
    /\ UNCHANGED <<vars, keyVars, challengeVars>>

Admitted(c, pc) ==
    /\ In(c, pc)
    /\ tab[c].cookie # None
    /\ SessionCurrent(tab[c].cookie)

StartAdmit(c) ==
    /\ Admitted(c, "startAuth")
    /\ Proceed(c, "startList", tab[c])
    /\ UNCHANGED <<vars, keyVars, challengeVars>>

\* The passkeys of the user are listed; the options are for the user of the session.
StartList(c) ==
    /\ In(c, "startList")
    /\ \E x \in Challenges \ given :
         /\ given' = given \cup {x}
         /\ Proceed(c, "registerOptions",
                    [tab[c] EXCEPT !.asked = [challenge |-> x, user |-> tab[c].cookie.user],
                                   !.cookie = None])
    /\ UNCHANGED <<vars, keyVars, authChallenge, regChallenge>>

RegisterOptionsArrive(c) ==
    /\ In(c, "registerOptions")
    /\ regChallenge' = [regChallenge EXCEPT ![tab[c].browser] = tab[c].asked]
    /\ Proceed(c, "create", tab[c])
    /\ UNCHANGED <<vars, keyVars, authChallenge, given>>

\* The authenticator makes a credential for the user of the options; the request takes
\* the cookies that the browser has by now.
Create(c) ==
    /\ In(c, "create")
    /\ \E k \in PasskeyIds :
         /\ device[k].user = None
         /\ device' = [device EXCEPT ![k].user = tab[c].asked.user]
         /\ Proceed(c, "finishAuth", [tab[c] EXCEPT !.key = k,
                                                    !.cookie = session[tab[c].browser],
                                                    !.got = regChallenge[tab[c].browser]])
    /\ UNCHANGED <<vars, keys, told, challengeVars>>

\* Mistake: the user that the challenge was given to is not compared.
FinishAdmitAnyone(c) ==
    LET q == tab[c] IN
    /\ Admitted(c, "finishAuth")
    /\ \/ q.got = None /\ Answer(c, "expired", None)
       \/ q.got # None /\ q.got # q.asked /\ Answer(c, "refused", None)
       \/ q.got = q.asked /\ Proceed(c, "insert", q)
    /\ UNCHANGED <<vars, keyVars, challengeVars>>

\* PasskeyRegistrationFinish: the library wants the challenge of the cookie, given to
\* the user of the session.
FinishAdmit(c) ==
    LET q == tab[c] IN
    /\ Admitted(c, "finishAuth")
    /\ \/ q.got = None /\ Answer(c, "expired", None)
       \/ /\ q.got # None
          /\ q.got # q.asked \/ q.got.user # q.cookie.user
          /\ Answer(c, "refused", None)
       \/ /\ q.got = q.asked
          /\ q.got.user = q.cookie.user
          /\ Proceed(c, "insert", q)
    /\ UNCHANGED <<vars, keyVars, challengeVars>>

\* A schema with a reference to users refuses the row of a user that is gone.
Insert(c) ==
    LET q == tab[c] IN
    /\ In(c, "insert")
    /\ \/ /\ keys' = [keys EXCEPT ![q.key] = [state |-> "live", user |-> q.cookie.user,
                                              counter |-> device[q.key].count]]
          /\ Answer(c, "registered", None)
       \/ /\ q.cookie.user \notin Live
          /\ Answer(c, "serverError", None)
          /\ UNCHANGED keys
    /\ UNCHANGED <<vars, device, told, challengeVars>>

DeleteAdmit(c) ==
    /\ Admitted(c, "deleteAuth")
    /\ Proceed(c, "delete", tab[c])
    /\ UNCHANGED <<vars, keyVars, challengeVars>>

Owned(c) == {k \in Registered : k = tab[c].key /\ keys[k].user = tab[c].cookie.user}

\* Mistake: the two ids of the WHERE clause are swapped: no row is deleted.
DeleteKeySwapped(c) ==
    /\ In(c, "delete")
    /\ told' = told \cup Owned(c)
    /\ Answer(c, "ok", None)
    /\ UNCHANGED <<vars, keys, device, challengeVars>>

\* DeleteAuthenticator, of the passkeys of the user only.
DeleteKey(c) ==
    /\ In(c, "delete")
    /\ keys' = [k \in PasskeyIds |->
                  IF k \in Owned(c) THEN [keys[k] EXCEPT !.state = "deleted"] ELSE keys[k]]
    /\ told' = told \cup Owned(c)
    /\ Answer(c, "ok", None)
    /\ UNCHANGED <<vars, device, challengeVars>>

RenameAdmit(c) ==
    /\ Admitted(c, "renameAuth")
    /\ Proceed(c, "rename", tab[c])
    /\ UNCHANGED <<vars, keyVars, challengeVars>>

\* RenameAuthenticator writes a name, which nothing here reads.
RenameKey(c) ==
    /\ In(c, "rename")
    /\ Answer(c, "ok", None)
    /\ UNCHANGED <<vars, keyVars, challengeVars>>
-----------------------------------------------------------------------------
\* A response arrives; success takes the challenge cookie of its ceremony away.
Arrive(c) ==
    LET q == tab[c]  b == q.browser IN
    /\ In(c, "respond")
    /\ session' = [session EXCEPT ![b] = After(session[b], q.set)]
    /\ authChallenge' = IF q.reply = "home" THEN [authChallenge EXCEPT ![b] = None]
                        ELSE authChallenge
    /\ regChallenge' = IF q.reply = "registered" THEN [regChallenge EXCEPT ![b] = None]
                       ELSE regChallenge
    /\ tab' = [tab EXCEPT ![c] = Quiet]
    /\ UNCHANGED <<users, req, pending, linkVars, keyVars, given>>

\* A response is lost, or the user gives up at the prompt.
GiveUp(c) ==
    /\ tab[c].pc \in {"loginOptions", "prompt", "registerOptions", "create", "respond"}
    /\ tab' = [tab EXCEPT ![c] = Quiet]
    /\ UNCHANGED <<vars, keyVars, challengeVars>>

\* The five minutes of a challenge cookie are over.
ChallengeExpires(b) ==
    /\ \/ /\ authChallenge[b] # None
          /\ authChallenge' = [authChallenge EXCEPT ![b] = None]
          /\ UNCHANGED regChallenge
       \/ /\ regChallenge[b] # None
          /\ regChallenge' = [regChallenge EXCEPT ![b] = None]
          /\ UNCHANGED authChallenge
    /\ UNCHANGED <<vars, keyVars, given, tab>>

KeyErrorReply == [key |-> "refused", owner |-> "refused", issue |-> "serverError",
                  startAuth |-> "toLogin", finishAuth |-> "toLogin", deleteAuth |-> "toLogin",
                  renameAuth |-> "toLogin", startList |-> "serverError",
                  insert |-> "serverError", delete |-> "serverError", rename |-> "serverError"]

KeyDbError(c) ==
    /\ DbMayFail
    /\ tab[c].pc \in DOMAIN KeyErrorReply
    /\ Answer(c, KeyErrorReply[tab[c].pc], None)
    /\ UNCHANGED <<vars, keyVars, challengeVars>>

\* The rows of authenticators when statements of other handlers delete their users:
\* foreign keys delete them too, if the schema has them and the connection of that
\* moment enforces them.
KeysFollow ==
    keys' \in {keys,
               [k \in PasskeyIds |->
                  IF k \in Registered /\ keys[k].user \in Live \ Live'
                    THEN [keys[k] EXCEPT !.state = "deleted"] ELSE keys[k]]}

Others == /\ Serving
          /\ KeysFollow
          /\ UNCHANGED <<device, told, challengeVars, tab>>

AtClient == {"idle", "loginOptions", "prompt", "registerOptions", "create", "respond"}

\* The process dies and starts again; what is on its way to a browser or shown by it
\* stays where it is.
Restart ==
    /\ (\E r \in Slots : req[r] # Idle) \/ (\E c \in Ceremonies : tab[c].pc \notin AtClient)
    /\ req' = [r \in Slots |-> Idle]
    /\ tab' = [c \in Ceremonies |-> IF tab[c].pc \in AtClient THEN tab[c] ELSE Quiet]
    /\ UNCHANGED <<users, browserVars, linkVars, keyVars, challengeVars>>

Ceremony(c) ==
    \/ LoginOptionsArrive(c) \/ Sign(c) \/ FindKey(c) \/ FindOwner(c) \/ ListKeys(c)
    \/ StoreCounter(c) \/ Issue(c)
    \/ KeyReject(c) \/ StartAdmit(c) \/ StartList(c) \/ RegisterOptionsArrive(c)
    \/ Create(c) \/ FinishAdmit(c) \/ Insert(c)
    \/ DeleteAdmit(c) \/ DeleteKey(c) \/ RenameAdmit(c) \/ RenameKey(c)
    \/ Arrive(c) \/ GiveUp(c) \/ KeyDbError(c)

PasskeyNext ==
    \/ \E c \in Ceremonies, b \in Browsers :
         LoginStart(c, b) \/ RegisterStart(c, b) \/ DeleteSubmit(c, b) \/ RenameSubmit(c, b)
    \/ \E c \in Ceremonies : Ceremony(c)
    \/ \E b \in Browsers : ChallengeExpires(b)
    \/ Others
    \/ Restart

PasskeySpec == PasskeyInit /\ [][PasskeyNext]_allVars
-----------------------------------------------------------------------------
Tab ==
    [pc      : AtClient \cup DOMAIN KeyErrorReply \cup {"list", "count"},
     browser : Browsers \cup {None},
     cookie  : Token \cup {None},
     key     : PasskeyIds \cup {None},
     asked   : SessionData \cup {None},
     got     : SessionData \cup {None},
     count   : Nat,
     read    : Nat,
     again   : BOOLEAN,
     late    : SUBSET PasskeyIds,
     reply   : {None, "expired", "refused", "panic", "home", "toLogin", "registered",
                "serverError", "ok"},
     set     : Token \cup {None, Delete}]

\* Rows, authenticators, challenges and ceremonies are well formed.
PasskeyTypeOK ==
    /\ keys \in [PasskeyIds -> Authenticator]
    /\ device \in [PasskeyIds -> Device]
    /\ authChallenge \in [Browsers -> SessionData \cup {None}]
    /\ regChallenge \in [Browsers -> SessionData \cup {None}]
    /\ given \subseteq Challenges
    /\ told \subseteq PasskeyIds
    /\ tab \in [Ceremonies -> Tab]

\* Sessions on their way from PasskeyLoginFinish count too.
AllSessionTokens == SessionTokens \cup ({tab[c].set : c \in Ceremonies} \ {None, Delete})

\* A change of password (ChangePassword, a reset) signs out the sessions that
\* PasskeyLoginFinish has issued as well, delivered or not.
PasswordChangeSignsOutPasskeys ==
    [][\A u \in Live :
         users'[u].password # users[u].password =>
           \A t \in AllSessionTokens' : t.user = u => ~SessionCurrent(t)']_allVars

\* Once DeletePasskey has answered, no assertion of that passkey that is sent later is
\* given a session, whatever logins by it are under way.
DeletedPasskeyRefused == \A c \in Ceremonies : tab[c].late # {} => tab[c].set \in {None, Delete}

\* The owner of a passkey in the table is the one its authenticator names, or no login
\* by it would ever succeed: a browser that changes hands between the two requests of
\* a registration, or has two in progress, registers nothing for the wrong user.
RegisteredForItsHolder == \A k \in Registered : keys[k].user = device[k].user

\* UpdateAuthenticatorCounter sets a counter back only if another login has written it
\* since this one compared with it: assertions that are late, or out of order, do not.
CounterSetBackOnlyByOverlap ==
    [][\A c \in Ceremonies :
         In(c, "count") /\ tab'[c].pc = "issue"
           /\ keys'[tab[c].key].counter < keys[tab[c].key].counter
             => tab[c].read # keys[tab[c].key].counter]_allVars
=============================================================================
