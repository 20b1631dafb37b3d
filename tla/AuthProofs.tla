----------------------------- MODULE AuthProofs -----------------------------
(***************************************************************************)
(* Proofs about Auth for any number of users, requests and browsers, any   *)
(* order of their statements, with or without failing statements: types,   *)
(* sessions and administrators.                                            *)
(***************************************************************************)
EXTENDS Auth, TLAPS

Table == [UserIds -> Row]

Admins(T) == {u \in UserIds : T[u].state = "live" /\ T[u].role = "ADMIN"}

AdminInv(T) == (\E u \in UserIds : T[u].state = "live") => Admins(T) # {}

\* What the row (of user u, with this version and password) that somebody has
\* read still says of table T.
Remembers(T, u, version) ==
    /\ T[u].state # "absent"
    /\ version <= T[u].version

StillHas(T, u, version, password) ==
    T[u].state = "live" /\ T[u].version = version => T[u].password = password

TokenInv(t, T) ==
    /\ Remembers(T, t.user, t.version)
    /\ t.via # "code" => StillHas(T, t.user, t.version, t.proof)

AuthedPc == {"page", "passwordVerify", "passwordWrite", "mfaEnable", "mfaDisable",
             "deleteLookup", "deleteWrite"}

\* The fields that a handler has filled when it gets to pc.
Filled(q, links) ==
    /\ q.pc # "idle" => q.browser \in Browsers
    /\ q.pc # "respond" => q.set = None
    /\ q.pc \in {"loginLookup", "registerCount", "registerLookup", "registerInsert"} =>
         q.email \in Emails /\ q.password \in Passwords
    /\ q.pc \in {"loginFail", "loginReset"} => q.user \in UserIds /\ q.row \in Row
    /\ q.pc = "loginReset" => q.row.password \in Passwords
    /\ q.pc = "loginSecond" => q.cookie \in Pending
    /\ q.pc = "auth" => q.cookie \in Token \cup {None} /\ q.op \in DOMAIN Entry
    /\ q.pc \in AuthedPc => q.cookie \in Token
    /\ q.pc \in {"forgotWrite", "resetWrite", "resetClear", "deleteLookup", "deleteWrite"} =>
         q.user \in UserIds
    /\ q.pc = "auth" /\ q.op = "delete" => q.user \in UserIds
    /\ q.pc = "auth" /\ q.op = "password" => q.new \in Passwords
    /\ q.pc \in {"passwordVerify", "passwordWrite", "resetLookup", "resetWrite"} =>
         q.new \in Passwords
    /\ q.pc \in {"resetLookup", "resetWrite", "resetClear"} => q.link \in links

\* What has been read is true of the table or of its past.
ReadInv(q, T) ==
    /\ q.set \notin {None, Delete} => TokenInv(q.set, T)
    /\ q.pc = "loginReset" =>
         /\ Remembers(T, q.user, q.row.version)
         /\ StillHas(T, q.user, q.row.version, q.row.password)
    /\ q.pc \in {"registerLookup", "registerInsert"} /\ ~q.first => Admins(T) # {}
    /\ q.pc = "deleteWrite" => T[q.user].state # "absent" /\ q.user \notin Admins(T)

Invariant ==
    /\ TypeOK
    /\ \A r \in Slots : Filled(req[r], mailed) /\ ReadInv(req[r], users)
    /\ \A b \in Browsers : session[b] # None => TokenInv(session[b], users)
    /\ AdminInv(users)

\* How one statement may change the table: versions only grow, a password changes
\* with the version, no role changes and no administrator goes.
Evolves(T, U) ==
    /\ Admins(T) \subseteq Admins(U)
    /\ \A u \in UserIds : T[u].state # "absent" =>
         /\ U[u].state # "absent"
         /\ T[u].version <= U[u].version
         /\ U[u].state = "live" => T[u].state = "live" /\ T[u].role = U[u].role
         /\ U[u].state = "live" /\ U[u].version = T[u].version => U[u].password = T[u].password
-----------------------------------------------------------------------------
LEMMA EvolvesSame ==
    ASSUME NEW T \in Table
    PROVE  Evolves(T, T)
<1>1. \A u \in UserIds : T[u].version \in Nat
  BY DEF Table, Row
<1> QED
  BY <1>1 DEF Evolves

LEMMA TokenKept ==
    ASSUME NEW T \in Table, NEW U \in Table, Evolves(T, U), NEW t \in Token, TokenInv(t, T)
    PROVE  TokenInv(t, U)
<1>1. /\ t.user \in UserIds /\ t.version \in Nat
      /\ T[t.user].version \in Nat /\ U[t.user].version \in Nat
  BY DEF Table, Row, Token
<1>2. Remembers(U, t.user, t.version)
  BY <1>1 DEF Evolves, TokenInv, Remembers
<1>3. StillHas(T, t.user, t.version, t.proof) => StillHas(U, t.user, t.version, t.proof)
  BY <1>1 DEF Evolves, TokenInv, Remembers, StillHas
<1> QED
  BY <1>2, <1>3 DEF TokenInv

LEMMA ReadKept ==
    ASSUME NEW T \in Table, NEW U \in Table, Evolves(T, U), NEW q \in Request,
           NEW links, Filled(q, links), ReadInv(q, T)
    PROVE  ReadInv(q, U)
<1>1. q.set \notin {None, Delete} => TokenInv(q.set, U)
  BY TokenKept DEF ReadInv, Request
<1>2. q.pc = "loginReset" =>
        /\ Remembers(U, q.user, q.row.version)
        /\ StillHas(U, q.user, q.row.version, q.row.password)
  <2> SUFFICES ASSUME q.pc = "loginReset"
               PROVE  /\ Remembers(U, q.user, q.row.version)
                      /\ StillHas(U, q.user, q.row.version, q.row.password)
    OBVIOUS
  <2>1. /\ q.user \in UserIds /\ q.row.version \in Nat
        /\ T[q.user].version \in Nat /\ U[q.user].version \in Nat
    BY DEF Filled, Table, Row
  <2>2. /\ Remembers(T, q.user, q.row.version)
        /\ StillHas(T, q.user, q.row.version, q.row.password)
    BY DEF ReadInv
  <2> QED
    BY <2>1, <2>2 DEF Evolves, Remembers, StillHas
<1>3. q.pc \in {"registerLookup", "registerInsert"} /\ ~q.first => Admins(U) # {}
  BY DEF ReadInv, Evolves
<1>4. q.pc = "deleteWrite" => U[q.user].state # "absent" /\ q.user \notin Admins(U)
  BY DEF ReadInv, Filled, Evolves, Admins
<1> QED
  BY <1>1, <1>2, <1>3, <1>4 DEF ReadInv

\* U is a table that one statement may leave.
StatementLeaves(U) == U \in Table /\ Evolves(users, U) /\ AdminInv(U)

LinksGrow == /\ issued' \subseteq Links
             /\ mailed \subseteq mailed'
             /\ mailed' \subseteq issued'
             /\ spent' \subseteq mailed'

KeepsPasswords(T, U) ==
    \A u \in UserIds : T[u].state = "live" => U[u].password = T[u].password

\* What is shown of every action: a statement that changes a password comes with no
\* new session.
Preserved ==
    /\ Invariant'
    /\ Evolves(users, users')
    /\ KeepsPasswords(users, users') \/ SessionTokens' \subseteq SessionTokens

\* The request at r goes on as q, by one statement at most.
LEMMA RequestMoves ==
    ASSUME Invariant, NEW r \in Slots, NEW q \in Request, req' = [req EXCEPT ![r] = q],
           StatementLeaves(users'), UNCHANGED browserVars, LinksGrow, Filled(q, mailed'),
           ReadInv(q, users'), q.set \in {None, Delete} \/ KeepsPasswords(users, users')
    PROVE  Preserved
<1>1. req'[r] = q /\ \A s \in Slots \ {r} : req'[s] = req[s]
  BY DEF Invariant, TypeOK
<1>2. /\ users \in Table /\ users' \in Table /\ Evolves(users, users') /\ AdminInv(users')
      /\ \A s \in Slots : req[s] \in Request
  BY DEF Invariant, TypeOK, Table, StatementLeaves
<1>3. TypeOK'
  BY <1>1, <1>2 DEF Invariant, TypeOK, browserVars, Table, LinksGrow
<1>4. \A s \in Slots : Filled(req'[s], mailed')
  BY <1>1 DEF Invariant, Filled, LinksGrow
<1>5. \A s \in Slots : ReadInv(req'[s], users')
  BY <1>1, <1>2, ReadKept DEF Invariant
<1>6. \A b \in Browsers : session'[b] # None => TokenInv(session'[b], users')
  BY <1>2, TokenKept DEF Invariant, TypeOK, browserVars
<1>7. q.set \in {None, Delete} => SessionTokens' \subseteq SessionTokens
  BY <1>1 DEF SessionTokens, Tokens, browserVars
<1> QED
  BY <1>2, <1>3, <1>4, <1>5, <1>6, <1>7 DEF Invariant, Preserved
-----------------------------------------------------------------------------
(***************************************************************************)
(* What each statement makes of the table.                                 *)
(***************************************************************************)

LEMMA RowChanges ==
    ASSUME users \in Table, AdminInv(users), NEW u \in UserIds, users[u].state = "live",
           NEW row \in Row, row.state \in {"live", "deleted"}, users[u].version <= row.version,
           row.state = "live" => row.role = users[u].role,
           row.state = "live" /\ row.version = users[u].version =>
             row.password = users[u].password,
           row.state = "live" \/ users[u].role # "ADMIN"
    PROVE  StatementLeaves([users EXCEPT ![u] = row])
<1> DEFINE U == [users EXCEPT ![u] = row]
<1>1. U \in Table /\ U[u] = row /\ \A v \in UserIds \ {u} : U[v] = users[v]
  BY DEF Table
<1>2. \A v \in UserIds : users[v].version \in Nat
  BY DEF Table, Row
<1> HIDE DEF U
<1>3. Admins(users) \subseteq Admins(U)
  BY <1>1 DEF Admins
<1>4. Evolves(users, U)
  BY <1>1, <1>2, <1>3 DEF Evolves
<1>5. (\E v \in UserIds : U[v].state = "live") => (\E v \in UserIds : users[v].state = "live")
  BY <1>1
<1>6. AdminInv(U)
  BY <1>3, <1>5 DEF AdminInv
<1> QED
  BY <1>1, <1>4, <1>6 DEF StatementLeaves, U

LEMMA SameTable ==
    ASSUME Invariant
    PROVE  users \in Table /\ StatementLeaves(users) /\ KeepsPasswords(users, users)
BY EvolvesSame DEF Invariant, TypeOK, Table, StatementLeaves, KeepsPasswords

\* Any UPDATE: without a row for u it changes nothing.
LEMMA UpdatedEvolves ==
    ASSUME Invariant, NEW u \in UserIds, NEW row \in Row,
           users[u].state = "live" =>
             /\ row.state = "live" /\ row.role = users[u].role
             /\ users[u].version <= row.version
             /\ row.version = users[u].version => row.password = users[u].password
    PROVE  StatementLeaves(Updated(u, row))
<1>1. CASE u \in Live
  BY <1>1, SameTable, RowChanges DEF Updated, Live, Invariant
<1>2. CASE u \notin Live
  BY <1>2, SameTable DEF Updated
<1> QED
  BY <1>1, <1>2

LEMMA AttemptsEvolve ==
    ASSUME Invariant, NEW u \in UserIds, NEW n \in 0..(LockAfter - 1),
           NEW lock \in {"null", "running", "elapsed"}
    PROVE  /\ StatementLeaves(AfterLoginAttempts(u, n, lock))
           /\ KeepsPasswords(users, AfterLoginAttempts(u, n, lock))
<1> DEFINE row == [users[u] EXCEPT !.attempts = n, !.lock = lock]
<1>1. users[u] \in Row
  BY SameTable DEF Table
<1>2. /\ row \in Row /\ row.state = users[u].state /\ row.role = users[u].role
      /\ row.version = users[u].version /\ row.password = users[u].password
  BY <1>1 DEF Row
<1>3. users[u].version \in Nat
  BY <1>1 DEF Row
<1> HIDE DEF row
<1>4. StatementLeaves(Updated(u, row))
  BY <1>2, <1>3, UpdatedEvolves
<1>5. KeepsPasswords(users, Updated(u, row))
  BY <1>2, SameTable DEF KeepsPasswords, Updated, Table
<1> QED
  BY <1>4, <1>5 DEF AfterLoginAttempts, row

LEMMA PasswordEvolves ==
    ASSUME Invariant, NEW u \in UserIds, NEW p \in Passwords
    PROVE  StatementLeaves(AfterPassword(u, p))
<1> DEFINE row == [users[u] EXCEPT !.password = p, !.version = users[u].version + 1]
<1>1. users[u] \in Row /\ users[u].version \in Nat
  BY SameTable DEF Table, Row
<1>2. ASSUME NEW n \in Nat, NEW w, w = [users[u] EXCEPT !.password = p, !.version = n]
      PROVE  w \in Row /\ w.state = users[u].state /\ w.role = users[u].role /\ w.version = n
  BY <1>1, <1>2 DEF Row
<1>3. /\ row \in Row /\ row.state = users[u].state /\ row.role = users[u].role
      /\ row.version = users[u].version + 1
  <2>1. users[u].version + 1 \in Nat
    BY <1>1
  <2> QED
    BY <1>2, <2>1
<1> HIDE DEF row
<1>4. StatementLeaves(Updated(u, row))
  BY <1>1, <1>3, UpdatedEvolves
<1> QED
  BY <1>4 DEF AfterPassword, row

LEMMA MFAEvolves ==
    ASSUME Invariant, NEW u \in UserIds, NEW enabled \in BOOLEAN
    PROVE  StatementLeaves(AfterMFA(u, enabled))
<1> DEFINE row == [users[u] EXCEPT !.mfa = enabled, !.version = users[u].version + 1]
<1>1. users[u] \in Row /\ users[u].version \in Nat
  BY SameTable DEF Table, Row
<1>2. ASSUME NEW n \in Nat, NEW w, w = [users[u] EXCEPT !.mfa = enabled, !.version = n]
      PROVE  w \in Row /\ w.state = users[u].state /\ w.role = users[u].role /\ w.version = n
  BY <1>1, <1>2 DEF Row
<1>3. /\ row \in Row /\ row.state = users[u].state /\ row.role = users[u].role
      /\ row.version = users[u].version + 1
  <2>1. users[u].version + 1 \in Nat
    BY <1>1
  <2> QED
    BY <1>2, <2>1
<1> HIDE DEF row
<1>4. StatementLeaves(Updated(u, row))
  BY <1>1, <1>3, UpdatedEvolves
<1> QED
  BY <1>4 DEF AfterMFA, row

LEMMA LinkEvolves ==
    ASSUME Invariant, NEW u \in UserIds, NEW link \in Links
    PROVE  StatementLeaves(AfterSetResetToken(u, link)) /\ StatementLeaves(AfterClearResetToken(u))
<1>1. users[u] \in Row /\ users[u].version \in Nat
  BY SameTable DEF Table, Row
<1>2. ASSUME NEW l \in Links \cup {None}, NEW row, row = [users[u] EXCEPT !.reset = l, !.expired = FALSE]
      PROVE  StatementLeaves(Updated(u, row))
  <2>1. /\ row \in Row /\ row.state = users[u].state /\ row.role = users[u].role
        /\ row.version = users[u].version /\ row.password = users[u].password
    BY <1>1, <1>2 DEF Row
  <2> QED
    BY <1>1, <2>1, UpdatedEvolves
<1> QED
  BY <1>2 DEF AfterSetResetToken, AfterClearResetToken

LEMMA NoRowTyped == NoRow \in Row
<1>1. 0 \in 0..(LockAfter - 1)
  BY LockAssumption
<1> QED
  BY <1>1 DEF NoRow, Row

\* A deletion of somebody who is no administrator.
LEMMA DeleteEvolves ==
    ASSUME Invariant, NEW u \in UserIds, u \notin Admins(users)
    PROVE  StatementLeaves(AfterDelete(u))
<1> DEFINE row == [NoRow EXCEPT !.state = "deleted", !.version = users[u].version]
<1>1. users[u].version \in Nat
  BY SameTable DEF Table, Row
<1>2. ASSUME NEW n \in Nat, NEW w, w = [NoRow EXCEPT !.state = "deleted", !.version = n]
      PROVE  w \in Row /\ w.state = "deleted" /\ w.version = n
  BY <1>2, NoRowTyped DEF Row
<1>3. row \in Row /\ row.state = "deleted" /\ row.version = users[u].version
  BY <1>1, <1>2
<1> HIDE DEF row
<1>4. CASE u \in Live
  <2>1. users[u].state = "live" /\ users[u].role # "ADMIN"
    BY <1>4 DEF Live, Admins
  <2>2. StatementLeaves([users EXCEPT ![u] = row])
    BY <1>1, <1>3, <2>1, SameTable, RowChanges DEF Invariant
  <2> QED
    BY <1>4, <2>2 DEF AfterDelete, Updated, row
<1>5. CASE u \notin Live
  BY <1>5, SameTable DEF AfterDelete, Updated
<1> QED
  BY <1>4, <1>5

LEMMA NewRowTyped ==
    ASSUME NEW email \in Emails, NEW p \in Passwords, NEW role \in {"ADMIN", "USER"},
           NEW row, row = NewRow(email, p, role)
    PROVE  /\ row \in Row /\ row.state = "live" /\ row.role = role /\ row.version = 1
           /\ row.password = p
<1>1. row = [NoRow EXCEPT !.state = "live", !.email = email, !.password = p, !.role = role,
                          !.version = 1]
  BY DEF NewRow
<1>2. row.state = "live" /\ row.role = role /\ row.version = 1 /\ row.password = p
  BY <1>1, NoRowTyped DEF Row
<1>3. ASSUME NEW w \in Row, NEW n \in Nat, NEW v,
             v = [w EXCEPT !.state = "live", !.email = email, !.password = p, !.role = role,
                           !.version = n]
      PROVE  v \in Row
  BY <1>3 DEF Row
<1>4. row \in Row
  BY <1>1, <1>3, NoRowTyped
<1> QED
  BY <1>2, <1>4

\* A new account: an administrator, unless there is one.
LEMMA CreateEvolves ==
    ASSUME Invariant, NEW u \in UserIds, users[u].state = "absent", NEW email \in Emails,
           NEW p \in Passwords, NEW role \in {"ADMIN", "USER"},
           role = "ADMIN" \/ Admins(users) # {}
    PROVE  LET U == AfterCreate(u, email, p, role) IN
           /\ StatementLeaves(U) /\ KeepsPasswords(users, U)
           /\ U[u].state = "live" /\ U[u].version = 1 /\ U[u].password = p
<1> DEFINE row == NewRow(email, p, role)
           U == AfterCreate(u, email, p, role)
<1>1. row \in Row /\ row.state = "live" /\ row.role = role /\ row.version = 1 /\ row.password = p
  BY NewRowTyped
<1>2. users \in Table /\ \A v \in UserIds : users[v].version \in Nat
  BY SameTable DEF Table, Row
<1>3. U = [users EXCEPT ![u] = row]
  BY DEF AfterCreate
<1> HIDE DEF row, U
<1>4. U \in Table /\ U[u] = row /\ \A v \in UserIds \ {u} : U[v] = users[v]
  BY <1>1, <1>2, <1>3 DEF Table
<1>5. Admins(users) \subseteq Admins(U)
  BY <1>4 DEF Admins
<1>6. Evolves(users, U)
  BY <1>2, <1>4, <1>5 DEF Evolves
<1>7. AdminInv(U)
  BY <1>1, <1>4, <1>5 DEF AdminInv, Admins
<1>8. KeepsPasswords(users, U)
  BY <1>4 DEF KeepsPasswords
<1> QED
  BY <1>1, <1>4, <1>6, <1>7, <1>8 DEF StatementLeaves, U
-----------------------------------------------------------------------------
(***************************************************************************)
(* What the three ways to go on (Send, Goto, Respond) make of a request.   *)
(***************************************************************************)

Pcs == {"idle", "respond", "auth", "page", "logout", "loginLookup", "loginFail", "loginReset",
        "loginSecond", "registerCount", "registerLookup", "registerInsert", "forgotLookup",
        "forgotWrite", "resetLookup", "resetWrite", "resetClear", "passwordVerify",
        "passwordWrite", "mfaEnable", "mfaDisable", "deleteLookup", "deleteWrite"}

Replies == {None, "home", "needCode", "badCredentials", "badCode", "locked", "tooMany", "taken",
            "serverError", "notFound", "forbidden", "mailSent", "linkExpired", "resetDone",
            "toLogin", "toSettings", "page", "ok", "panic"}

LEMMA IdleTyped ==
    /\ Idle \in Request
    /\ Idle.pc = "idle" /\ Idle.set = None /\ Idle.first = FALSE
BY DEF Idle, Request

Moved(q, pc) == [q EXCEPT !.pc = pc]

Sent(q, pc, b) == [q EXCEPT !.pc = pc, !.browser = b]

Answered(b, reply, set, setPending) ==
    [Idle EXCEPT !.pc = "respond", !.browser = b, !.reply = reply, !.set = set,
                 !.setPending = setPending]

Keeps(p, q) ==
    /\ p.op = q.op /\ p.cookie = q.cookie /\ p.user = q.user /\ p.row = q.row
    /\ p.email = q.email /\ p.password = q.password /\ p.new = q.new /\ p.link = q.link
    /\ p.first = q.first /\ p.set = q.set

LEMMA GotoFields ==
    ASSUME NEW q \in Request, NEW pc \in Pcs
    PROVE  /\ Moved(q, pc) \in Request
           /\ Moved(q, pc).pc = pc
           /\ Moved(q, pc).browser = q.browser
           /\ Keeps(Moved(q, pc), q)
<1>1. Moved(q, pc) \in Request
  BY DEF Request, Pcs, Moved
<1> QED
  BY <1>1 DEF Request, Moved, Keeps

LEMMA SendFields ==
    ASSUME NEW q \in Request, NEW pc \in Pcs, NEW b \in Browsers
    PROVE  /\ Sent(q, pc, b) \in Request
           /\ Sent(q, pc, b).pc = pc
           /\ Sent(q, pc, b).browser = b
           /\ Keeps(Sent(q, pc, b), q)
<1> DEFINE w == Moved(q, pc)
           p == Sent(q, pc, b)
<1>1. w \in Request
  BY GotoFields
<1>2. p = [w EXCEPT !.browser = b]
  BY DEF Request, Sent, Moved
<1> HIDE DEF w
<1>3. p \in Request
  BY <1>1, <1>2 DEF Request
<1> QED
  BY <1>3 DEF Request, Sent, Keeps

LEMMA RespondFields ==
    ASSUME NEW b \in Browsers, NEW reply \in Replies, NEW set \in Token \cup {None, Delete},
           NEW setPending \in Pending \cup {None, Delete}
    PROVE  /\ Answered(b, reply, set, setPending) \in Request
           /\ Answered(b, reply, set, setPending).pc = "respond"
           /\ Answered(b, reply, set, setPending).browser = b
           /\ Answered(b, reply, set, setPending).set = set
<1> DEFINE w == Sent(Idle, "respond", b)
           v == [w EXCEPT !.reply = reply]
           x == [v EXCEPT !.set = set]
           p == Answered(b, reply, set, setPending)
<1>1. w \in Request /\ w.pc = "respond" /\ w.browser = b
  BY IdleTyped, SendFields DEF Pcs
<1>2. p = [x EXCEPT !.setPending = setPending]
  BY IdleTyped DEF Request, Sent, Answered
<1> HIDE DEF w
<1>3. v \in Request /\ v.pc = "respond" /\ v.browser = b
  BY <1>1 DEF Request, Replies
<1> HIDE DEF v
<1>4. x \in Request /\ x.pc = "respond" /\ x.browser = b /\ x.set = set
  BY <1>3 DEF Request
<1> HIDE DEF x, p
<1>5. p \in Request
  BY <1>2, <1>4 DEF Request
<1> QED
  BY <1>2, <1>4, <1>5 DEF Request, p

LEMMA SendMoves ==
    ASSUME Invariant, NEW r \in Slots, NEW b \in Browsers, NEW form \in Request,
           form.set = None,
           NEW pc \in {"loginLookup", "loginSecond", "registerCount", "forgotLookup",
                       "resetLookup", "auth", "logout"},
           Send(r, b, pc, form),
           pc \in {"loginLookup", "registerCount"} =>
             form.email \in Emails /\ form.password \in Passwords,
           pc = "loginSecond" => form.cookie \in Pending,
           pc = "resetLookup" => form.new \in Passwords /\ form.link \in mailed,
           pc = "auth" =>
             /\ form.cookie \in Token \cup {None} /\ form.op \in DOMAIN Entry
             /\ form.op = "delete" => form.user \in UserIds
             /\ form.op = "password" => form.new \in Passwords
    PROVE  Preserved
<1> DEFINE q == Sent(form, pc, b)
<1>1. q \in Request /\ q.pc = pc /\ q.browser = b /\ Keeps(q, form)
  <2>1. pc \in Pcs
    BY DEF Pcs
  <2> QED
    BY <2>1, SendFields
<1>2. /\ req' = [req EXCEPT ![r] = q]
      /\ users' = users /\ UNCHANGED browserVars /\ UNCHANGED linkVars
  BY DEF Send, browserVars, Sent
<1> HIDE DEF q
<1>3. Filled(q, mailed)
  BY <1>1 DEF Filled, AuthedPc, Keeps
<1>4. ReadInv(q, users)
  BY <1>1 DEF ReadInv, Keeps
<1>5. LinksGrow /\ mailed' = mailed
  BY <1>2 DEF LinksGrow, linkVars, Invariant, TypeOK
<1> QED
  BY <1>1, <1>2, <1>3, <1>4, <1>5, SameTable, RequestMoves

LEMMA RespondMoves ==
    ASSUME Invariant, NEW r \in Slots, req[r].pc # "idle", NEW reply \in Replies,
           NEW set \in Token \cup {None, Delete}, NEW setPending \in Pending \cup {None, Delete},
           Respond(r, reply, set, setPending), StatementLeaves(users'), UNCHANGED browserVars, LinksGrow,
           set \notin {None, Delete} => TokenInv(set, users'),
           set \in {None, Delete} \/ KeepsPasswords(users, users')
    PROVE  Preserved
<1>1. PICK b \in Browsers : req[r].browser = b
  BY DEF Invariant, Filled
<1> DEFINE q == Answered(b, reply, set, setPending)
<1>2. q \in Request /\ q.pc = "respond" /\ q.browser = b /\ q.set = set
  BY RespondFields
<1>3. req' = [req EXCEPT ![r] = q]
  BY <1>1 DEF Respond, Answered
<1> HIDE DEF q
<1>4. Filled(q, mailed')
  BY <1>1, <1>2 DEF Filled, AuthedPc
<1>5. ReadInv(q, users')
  BY <1>2 DEF ReadInv
<1> QED
  BY <1>2, <1>3, <1>4, <1>5, RequestMoves

\* A response that sets no cookie.
LEMMA ReplyMoves ==
    ASSUME Invariant, NEW r \in Slots, req[r].pc # "idle", NEW reply \in Replies,
           Reply(r, reply), StatementLeaves(users'), UNCHANGED browserVars, LinksGrow
    PROVE  Preserved
BY RespondMoves DEF Reply

LEMMA UnchangedLinks ==
    ASSUME Invariant, UNCHANGED linkVars
    PROVE  LinksGrow /\ mailed' = mailed
BY DEF Invariant, TypeOK, linkVars, LinksGrow

\* A response by a handler that has only looked.
LEMMA ReplyOnly ==
    ASSUME Invariant, NEW r \in Slots, req[r].pc # "idle", NEW reply \in Replies,
           Reply(r, reply), UNCHANGED <<users, browserVars, linkVars>>
    PROVE  Preserved
BY ReplyMoves, SameTable, UnchangedLinks

LEMMA GotoMoves ==
    ASSUME Invariant, NEW r \in Slots, NEW q \in Request, NEW pc \in Pcs, Goto(r, pc, q),
           StatementLeaves(users'), UNCHANGED <<browserVars, linkVars>>,
           Filled(Moved(q, pc), mailed), ReadInv(Moved(q, pc), users'), pc # "respond"
    PROVE  Preserved
<1> DEFINE p == Moved(q, pc)
<1>1. p \in Request /\ p.pc = pc
  BY GotoFields
<1>2. req' = [req EXCEPT ![r] = p]
  BY DEF Goto, Moved
<1>3. Filled(p, mailed) /\ ReadInv(p, users')
  OBVIOUS
<1> HIDE DEF p
<1>4. p.set = None
  BY <1>1, <1>3 DEF Filled
<1> QED
  BY <1>1, <1>2, <1>3, <1>4, UnchangedLinks, RequestMoves
-----------------------------------------------------------------------------
(***************************************************************************)
(* Login.                                                                  *)
(***************************************************************************)

Credentials(email, password) == [Idle EXCEPT !.email = email, !.password = password]

LEMMA CredentialsTyped ==
    ASSUME NEW email \in Emails, NEW password \in Passwords
    PROVE  /\ Credentials(email, password) \in Request
           /\ Credentials(email, password).set = None
           /\ Credentials(email, password).email = email
           /\ Credentials(email, password).password = password
<1> DEFINE w == [Idle EXCEPT !.email = email]
           form == Credentials(email, password)
<1>1. w \in Request /\ w.set = None /\ w.email = email
  BY IdleTyped DEF Request
<1>2. form = [w EXCEPT !.password = password]
  BY IdleTyped DEF Request, Credentials
<1> HIDE DEF w, form
<1>3. form \in Request
  BY <1>1, <1>2 DEF Request
<1>4. form.set = None /\ form.email = email /\ form.password = password
  BY <1>1, <1>2, <1>3 DEF Request
<1> QED
  BY <1>3, <1>4 DEF form

LEMMA LoginSubmitStep ==
    ASSUME Invariant, NEW r \in Slots, NEW b \in Browsers, NEW email \in Emails,
           NEW password \in Passwords, LoginSubmit(r, b, email, password)
    PROVE  Preserved
<1> DEFINE form == Credentials(email, password)
<1>1. form \in Request /\ form.set = None /\ form.email = email /\ form.password = password
  BY CredentialsTyped
<1>2. Send(r, b, "loginLookup", form)
  BY DEF LoginSubmit, Credentials
<1> HIDE DEF form
<1> QED
  BY <1>1, <1>2, SendMoves

LEMMA CodeSubmitStep ==
    ASSUME Invariant, NEW r \in Slots, NEW b \in Browsers, CodeSubmit(r, b)
    PROVE  Preserved
<1> DEFINE form == [Idle EXCEPT !.cookie = pending[b]]
<1>1. pending[b] \in Pending
  BY DEF CodeSubmit, Invariant, TypeOK
<1>2. form \in Request /\ form.set = None /\ form.cookie = pending[b]
  BY <1>1, IdleTyped DEF Request
<1>3. Send(r, b, "loginSecond", form)
  BY DEF CodeSubmit
<1> HIDE DEF form
<1> QED
  BY <1>1, <1>2, <1>3, SendMoves

\* A session from a row of u as it was read, now or before.
LEMMA CompleteStep ==
    ASSUME Invariant, NEW r \in Slots, req[r].pc # "idle", NEW u \in UserIds, NEW row \in Row,
           Complete(r, u, row), row.password \in Passwords, StatementLeaves(users'),
           UNCHANGED <<browserVars, linkVars>>, Remembers(users', u, row.version),
           StillHas(users', u, row.version, row.password), KeepsPasswords(users, users')
    PROVE  Preserved
<1>1. "needCode" \in Replies /\ "home" \in Replies
  BY DEF Replies
<1>2. LinksGrow
  BY UnchangedLinks
<1>3. CASE row.mfa
  <2> DEFINE p == [user |-> u, proof |-> row.password]
  <2>1. p \in Pending
    BY DEF Pending
  <2>2. Respond(r, "needCode", None, p)
    BY <1>3 DEF Complete
  <2> HIDE DEF p
  <2> QED
    BY <1>1, <1>2, <2>1, <2>2, RespondMoves
<1>4. CASE ~row.mfa
  <2> DEFINE t == IssuedFor(u, row, row.password, "password")
  <2>1. /\ t \in Token /\ t.user = u /\ t.version = row.version /\ t.proof = row.password
    BY DEF IssuedFor, Token, Row
  <2>2. Respond(r, "home", t, None)
    BY <1>4 DEF Complete
  <2> HIDE DEF t
  <2>3. TokenInv(t, users')
    BY <2>1 DEF TokenInv
  <2> QED
    BY <1>1, <1>2, <2>1, <2>2, <2>3, RespondMoves
<1> QED
  BY <1>3, <1>4

LEMMA LoginLookupStep ==
    ASSUME Invariant, NEW r \in Slots, LoginLookup(r)
    PROVE  Preserved
<1>1. /\ req[r].pc = "loginLookup" /\ UNCHANGED <<users, browserVars, linkVars>>
      /\ req[r] \in Request /\ req[r].browser \in Browsers /\ req[r].set = None
      /\ req[r].password \in Passwords
  BY DEF LoginLookup, At, Invariant, TypeOK, Filled
<1>2. StatementLeaves(users')
  BY <1>1, SameTable
<1>3. CASE Reply(r, "badCredentials") \/ Reply(r, "locked")
  <2>1. "badCredentials" \in Replies /\ "locked" \in Replies
    BY DEF Replies
  <2> QED
    BY <1>1, <1>3, <2>1, ReplyOnly
<1>4. ASSUME NEW u \in Live, NEW found, found = [req[r] EXCEPT !.user = u, !.row = users[u]],
             NEW pc \in {"loginFail", "loginReset"}, Goto(r, pc, found),
             pc = "loginReset" => users[u].password = req[r].password
      PROVE  Preserved
  <2>1. users[u] \in Row /\ users[u].version \in Nat /\ u \in UserIds /\ users[u].state = "live"
    BY SameTable DEF Table, Live, Row
  <2>2. /\ found \in Request /\ found.user = u /\ found.row = users[u]
        /\ found.browser = req[r].browser /\ found.set = None
    <3> DEFINE w == [req[r] EXCEPT !.user = u]
    <3>1. w \in Request /\ w.user = u /\ w.browser = req[r].browser /\ w.set = None
      BY <1>1, <2>1 DEF Request
    <3>2. found = [w EXCEPT !.row = users[u]]
      BY <1>1, <1>4 DEF Request
    <3> HIDE DEF w
    <3> QED
      BY <2>1, <3>1, <3>2 DEF Request
  <2>3. /\ Moved(found, pc).pc = pc /\ Moved(found, pc).browser = req[r].browser
        /\ Keeps(Moved(found, pc), found)
    BY <2>2, GotoFields DEF Pcs
  <2>4. Filled(Moved(found, pc), mailed)
    BY <1>1, <1>4, <2>1, <2>2, <2>3 DEF Filled, AuthedPc, Keeps
  <2>5. ReadInv(Moved(found, pc), users')
    BY <1>1, <2>1, <2>2, <2>3 DEF ReadInv, Keeps, Remembers, StillHas
  <2>6. pc \in Pcs
    BY DEF Pcs
  <2> QED
    BY <1>1, <1>2, <1>4, <2>2, <2>4, <2>5, <2>6, GotoMoves
<1>5. ASSUME NEW u \in Live, Complete(r, u, users[u]), users[u].password = req[r].password
      PROVE  Preserved
  <2>1. users[u] \in Row /\ users[u].version \in Nat /\ u \in UserIds /\ users[u].state = "live"
    BY SameTable DEF Table, Live, Row
  <2>2. /\ Remembers(users', u, users[u].version)
        /\ StillHas(users', u, users[u].version, users[u].password)
    BY <1>1, <2>1 DEF Remembers, StillHas
  <2> QED
    BY <1>1, <1>2, <1>5, <2>1, <2>2, SameTable, CompleteStep
<1> QED
  BY <1>3, <1>4, <1>5 DEF LoginLookup, ByEmail

\* An UPDATE whose error is ignored.
LEMMA MayFailEvolves ==
    ASSUME Invariant, NEW U, StatementLeaves(U), MayFail(U)
    PROVE  StatementLeaves(users') /\ (KeepsPasswords(users, U) => KeepsPasswords(users, users'))
BY SameTable DEF MayFail

LEMMA LoginFailStep ==
    ASSUME Invariant, NEW r \in Slots, LoginFail(r)
    PROVE  Preserved
<1> DEFINE n == req[r].row.attempts + 1
           u == req[r].user
<1>1. req[r].pc = "loginFail" /\ u \in UserIds /\ req[r].row \in Row
  BY DEF LoginFail, At, Invariant, Filled
<1>2. n \in Nat /\ 0 \in 0..(LockAfter - 1) /\ LockAfter \in Nat
  BY <1>1, LockAssumption DEF Row
<1>3. PICK m \in 0..(LockAfter - 1), lock \in {"null", "running", "elapsed"} :
        MayFail(AfterLoginAttempts(u, m, lock))
  <2>1. CASE n >= LockAfter
    BY <1>2, <2>1 DEF LoginFail
  <2>2. CASE n < LockAfter
    <3>1. n \in 0..(LockAfter - 1) /\ ~(n >= LockAfter)
      BY <1>2, <2>2
    <3> QED
      BY <3>1 DEF LoginFail
  <2> QED
    BY <1>2, <2>1, <2>2
<1>4. StatementLeaves(users')
  BY <1>1, <1>3, AttemptsEvolve, MayFailEvolves
<1>5. "badCredentials" \in Replies
  BY DEF Replies
<1> QED
  BY <1>1, <1>4, <1>5, UnchangedLinks, ReplyMoves DEF LoginFail

LEMMA LoginResetStep ==
    ASSUME Invariant, NEW r \in Slots, LoginReset(r)
    PROVE  Preserved
<1> DEFINE u == req[r].user
           row == req[r].row
<1>1. /\ req[r].pc = "loginReset" /\ u \in UserIds /\ row \in Row /\ row.password \in Passwords
      /\ Remembers(users, u, row.version) /\ StillHas(users, u, row.version, row.password)
  BY DEF LoginReset, At, Invariant, Filled, ReadInv
<1>2. 0 \in 0..(LockAfter - 1)
  BY LockAssumption
<1>3. StatementLeaves(users') /\ KeepsPasswords(users, users')
  BY <1>1, <1>2, AttemptsEvolve, MayFailEvolves DEF LoginReset
<1>4. row.version \in Nat /\ users[u].version \in Nat /\ users'[u].version \in Nat
  BY <1>1, <1>3, SameTable DEF StatementLeaves, Table, Row
<1>5. Remembers(users', u, row.version) /\ StillHas(users', u, row.version, row.password)
  BY <1>1, <1>3, <1>4 DEF StatementLeaves, Evolves, Remembers, StillHas
<1> QED
  BY <1>1, <1>3, <1>5, CompleteStep DEF LoginReset

LEMMA LoginSecondStep ==
    ASSUME Invariant, NEW r \in Slots, LoginSecond(r)
    PROVE  Preserved
<1>1. /\ req[r].pc = "loginSecond" /\ UNCHANGED <<users, browserVars, linkVars>>
      /\ req[r].cookie \in Pending
  BY DEF LoginSecond, At, Invariant, Filled
<1>2. /\ "badCredentials" \in Replies /\ "panic" \in Replies /\ "badCode" \in Replies
      /\ "home" \in Replies
  BY DEF Replies
<1>3. CASE Reply(r, "badCredentials") \/ Reply(r, "panic") \/ Reply(r, "badCode")
  BY <1>1, <1>2, <1>3, ReplyOnly
<1>4. ASSUME NEW u \in Live,
             Respond(r, "home", IssuedFor(u, users[u], req[r].cookie.proof, "code"), Delete)
      PROVE  Preserved
  <2> DEFINE t == IssuedFor(u, users[u], req[r].cookie.proof, "code")
  <2>1. users[u] \in Row /\ users[u].version \in Nat /\ u \in UserIds /\ users[u].state = "live"
    BY SameTable DEF Table, Live, Row
  <2>2. t \in Token /\ t.user = u /\ t.version = users[u].version /\ t.via = "code"
    BY <1>1, <2>1 DEF IssuedFor, Token, Row, Pending
  <2> HIDE DEF t
  <2>3. TokenInv(t, users')
    BY <1>1, <2>1, <2>2 DEF TokenInv, Remembers
  <2>4. Respond(r, "home", t, Delete)
    BY <1>4 DEF t
  <2> QED
    BY <1>1, <1>2, <2>2, <2>3, <2>4, SameTable, UnchangedLinks, RespondMoves
<1> QED
  BY <1>3, <1>4 DEF LoginSecond

LEMMA LoginStep ==
    ASSUME Invariant, LoginNext
    PROVE  Preserved
BY LoginSubmitStep, CodeSubmitStep, LoginLookupStep, LoginFailStep, LoginResetStep,
   LoginSecondStep DEF LoginNext
-----------------------------------------------------------------------------
(***************************************************************************)
(* Registration.                                                           *)
(***************************************************************************)

LEMMA RegisterSubmitStep ==
    ASSUME Invariant, NEW r \in Slots, NEW b \in Browsers, NEW email \in Emails,
           NEW password \in Passwords, RegisterSubmit(r, b, email, password)
    PROVE  Preserved
<1> DEFINE form == Credentials(email, password)
<1>1. form \in Request /\ form.set = None /\ form.email = email /\ form.password = password
  BY CredentialsTyped
<1>2. Send(r, b, "registerCount", form)
  BY DEF RegisterSubmit, Credentials
<1> HIDE DEF form
<1> QED
  BY <1>1, <1>2, SendMoves

\* An account that is found later was there before: an administrator too.
LEMMA RegisterCountStep ==
    ASSUME Invariant, NEW r \in Slots, RegisterCount(r)
    PROVE  Preserved
<1> DEFINE w == [req[r] EXCEPT !.email = Lower(req[r].email)]
           q == [req[r] EXCEPT !.email = Lower(req[r].email), !.first = NoUsers]
<1>1. /\ req[r].pc = "registerCount" /\ UNCHANGED <<users, browserVars, linkVars>>
      /\ req[r] \in Request /\ req[r].browser \in Browsers /\ req[r].set = None
      /\ req[r].email \in Emails /\ req[r].password \in Passwords
  BY DEF RegisterCount, At, Invariant, TypeOK, Filled
<1>2. Lower(req[r].email) \in Emails
  BY <1>1, NoneAssumption
<1>3. /\ w \in Request /\ w.email = Lower(req[r].email) /\ w.browser = req[r].browser
      /\ w.set = None /\ w.password = req[r].password
  BY <1>1, <1>2 DEF Request
<1>4. NoUsers \in BOOLEAN
  BY DEF NoUsers
<1>5. q = [w EXCEPT !.first = NoUsers]
  BY <1>1 DEF Request
<1>6. Goto(r, "registerLookup", q)
  BY DEF RegisterCount
<1> HIDE DEF w, q
<1>7. q \in Request
  BY <1>3, <1>4, <1>5 DEF Request
<1>8. /\ q.email = Lower(req[r].email) /\ q.browser = req[r].browser
      /\ q.set = None /\ q.password = req[r].password /\ q.first = NoUsers
  BY <1>3, <1>5 DEF Request
<1>9. /\ Moved(q, "registerLookup").pc = "registerLookup"
      /\ Moved(q, "registerLookup").browser = q.browser
      /\ Keeps(Moved(q, "registerLookup"), q)
  BY <1>7, GotoFields DEF Pcs
<1>10. Filled(Moved(q, "registerLookup"), mailed)
  BY <1>1, <1>2, <1>8, <1>9 DEF Filled, AuthedPc, Keeps
<1>11. ~NoUsers => Admins(users) # {}
  BY DEF NoUsers, Live, Invariant, AdminInv
<1>12. ReadInv(Moved(q, "registerLookup"), users')
  BY <1>1, <1>8, <1>9, <1>11 DEF ReadInv, Keeps
<1>13. "registerLookup" \in Pcs
  BY DEF Pcs
<1> QED
  BY <1>1, <1>6, <1>7, <1>10, <1>12, <1>13, SameTable, GotoMoves

LEMMA RegisterLookupStep ==
    ASSUME Invariant, NEW r \in Slots, RegisterLookup(r)
    PROVE  Preserved
<1>1. /\ req[r].pc = "registerLookup" /\ UNCHANGED <<users, browserVars, linkVars>>
      /\ req[r] \in Request /\ req[r].browser \in Browsers /\ req[r].set = None
      /\ req[r].email \in Emails /\ req[r].password \in Passwords
      /\ ~req[r].first => Admins(users) # {}
  BY DEF RegisterLookup, At, Invariant, TypeOK, Filled, ReadInv
<1>2. CASE Reply(r, "taken")
  <2>1. "taken" \in Replies
    BY DEF Replies
  <2> QED
    BY <1>1, <1>2, <2>1, ReplyOnly
<1>3. CASE Goto(r, "registerInsert", req[r])
  <2> DEFINE p == Moved(req[r], "registerInsert")
  <2>1. "registerInsert" \in Pcs
    BY DEF Pcs
  <2>2. p.pc = "registerInsert" /\ p.browser = req[r].browser /\ Keeps(p, req[r])
    BY <1>1, <2>1, GotoFields
  <2> HIDE DEF p
  <2>3. Filled(p, mailed)
    BY <1>1, <2>2 DEF Filled, AuthedPc, Keeps
  <2>4. ReadInv(p, users')
    BY <1>1, <2>2 DEF ReadInv, Keeps
  <2> QED
    BY <1>1, <1>3, <2>1, <2>3, <2>4, SameTable, GotoMoves DEF p
<1> QED
  BY <1>2, <1>3 DEF RegisterLookup

LEMMA RegisterInsertStep ==
    ASSUME Invariant, NEW r \in Slots, RegisterInsert(r)
    PROVE  Preserved
<1>1. /\ req[r].pc = "registerInsert" /\ UNCHANGED <<browserVars, linkVars>>
      /\ req[r].email \in Emails /\ req[r].password \in Passwords
      /\ ~req[r].first => Admins(users) # {}
  BY DEF RegisterInsert, At, Invariant, Filled, ReadInv
<1>2. "serverError" \in Replies /\ "home" \in Replies
  BY DEF Replies
<1>3. CASE Reply(r, "serverError") /\ UNCHANGED users
  BY <1>1, <1>2, <1>3, ReplyOnly
<1>4. ASSUME NEW u \in UserIds, users[u].state = "absent",
             users' = AfterCreate(u, req[r].email, req[r].password, NewRole(r)),
             Respond(r, "home", [user |-> u, role |-> NewRole(r), version |-> 1,
                                 proof |-> req[r].password, via |-> "register"], None)
      PROVE  Preserved
  <2> DEFINE t == [user |-> u, role |-> NewRole(r), version |-> 1,
                   proof |-> req[r].password, via |-> "register"]
  <2>1. /\ NewRole(r) \in {"ADMIN", "USER"}
        /\ NewRole(r) = "ADMIN" \/ Admins(users) # {}
    BY <1>1 DEF NewRole
  <2>2. /\ StatementLeaves(users') /\ KeepsPasswords(users, users')
        /\ users'[u].state = "live" /\ users'[u].version = 1
        /\ users'[u].password = req[r].password
    BY <1>1, <1>4, <2>1, CreateEvolves
  <2>3. t \in Token /\ t.user = u /\ t.version = 1 /\ t.proof = req[r].password
    BY <1>1, <2>1 DEF Token
  <2>4. Respond(r, "home", t, None)
    BY <1>4
  <2> HIDE DEF t
  <2>5. TokenInv(t, users')
    BY <2>2, <2>3 DEF TokenInv, Remembers, StillHas
  <2> QED
    BY <1>1, <1>2, <2>2, <2>3, <2>4, <2>5, UnchangedLinks, RespondMoves
<1> QED
  BY <1>1, <1>3, <1>4 DEF RegisterInsert

LEMMA RegistrationStep ==
    ASSUME Invariant, RegistrationNext
    PROVE  Preserved
BY RegisterSubmitStep, RegisterCountStep, RegisterLookupStep, RegisterInsertStep
   DEF RegistrationNext
-----------------------------------------------------------------------------
(***************************************************************************)
(* Password reset.                                                         *)
(***************************************************************************)

LEMMA ForgotSubmitStep ==
    ASSUME Invariant, NEW r \in Slots, NEW b \in Browsers, NEW email \in Emails,
           ForgotSubmit(r, b, email)
    PROVE  Preserved
<1> DEFINE form == [Idle EXCEPT !.email = Lower(email)]
<1>1. Lower(email) \in Emails
  BY NoneAssumption
<1>2. form \in Request /\ form.set = None
  BY <1>1, IdleTyped DEF Request
<1>3. Send(r, b, "forgotLookup", form)
  BY DEF ForgotSubmit
<1> HIDE DEF form
<1> QED
  BY <1>2, <1>3, SendMoves

\* A handler has found the user whose row it will write.
LEMMA UserFound ==
    ASSUME Invariant, NEW r \in Slots, UNCHANGED <<users, browserVars, linkVars>>,
           NEW u \in UserIds, NEW pc \in {"forgotWrite", "resetWrite"},
           req[r].pc \in {"forgotLookup", "resetLookup"},
           pc = "resetWrite" => req[r].pc = "resetLookup",
           Goto(r, pc, [req[r] EXCEPT !.user = u])
    PROVE  Preserved
<1> DEFINE q == [req[r] EXCEPT !.user = u]
           p == Moved(q, pc)
<1>1. /\ req[r] \in Request /\ req[r].browser \in Browsers /\ req[r].set = None
      /\ pc = "resetWrite" => req[r].new \in Passwords /\ req[r].link \in mailed
  BY DEF Invariant, TypeOK, Filled
<1>2. /\ q \in Request /\ q.user = u /\ q.browser = req[r].browser /\ q.set = None
      /\ q.new = req[r].new /\ q.link = req[r].link
  BY <1>1 DEF Request
<1>3. pc \in Pcs
  BY DEF Pcs
<1>4. Goto(r, pc, q)
  OBVIOUS
<1> HIDE DEF q
<1>5. p.pc = pc /\ p.browser = q.browser /\ Keeps(p, q)
  BY <1>2, <1>3, GotoFields
<1> HIDE DEF p
<1>6. Filled(p, mailed)
  BY <1>1, <1>2, <1>5 DEF Filled, AuthedPc, Keeps
<1>7. ReadInv(p, users')
  BY <1>2, <1>5 DEF ReadInv, Keeps
<1> QED
  BY <1>2, <1>3, <1>4, <1>6, <1>7, SameTable, GotoMoves DEF p

LEMMA ForgotLookupStep ==
    ASSUME Invariant, NEW r \in Slots, ForgotLookup(r)
    PROVE  Preserved
<1>1. req[r].pc = "forgotLookup" /\ UNCHANGED <<users, browserVars, linkVars>>
  BY DEF ForgotLookup, At
<1>2. CASE Reply(r, "mailSent")
  <2>1. "mailSent" \in Replies
    BY DEF Replies
  <2> QED
    BY <1>1, <1>2, <2>1, ReplyOnly
<1>3. ASSUME NEW u \in UserIds, Goto(r, "forgotWrite", [req[r] EXCEPT !.user = u])
      PROVE  Preserved
  BY <1>1, <1>3, UserFound
<1> QED
  BY <1>2, <1>3 DEF ForgotLookup, ByEmail, Live

LEMMA ForgotWriteStep ==
    ASSUME Invariant, NEW r \in Slots, ForgotWrite(r)
    PROVE  Preserved
<1>1. req[r].pc = "forgotWrite" /\ req[r].user \in UserIds
  BY DEF ForgotWrite, At, Invariant, Filled
<1>2. PICK link \in Links \ issued :
        /\ MayFail(AfterSetResetToken(req[r].user, link))
        /\ issued' = issued \cup {link}
        /\ mailed' \in {mailed, mailed \cup {link}}
  BY DEF ForgotWrite
<1>3. StatementLeaves(users')
  BY <1>1, <1>2, LinkEvolves, MayFailEvolves
<1>4. LinksGrow
  BY <1>2 DEF ForgotWrite, LinksGrow, Invariant, TypeOK
<1>5. "mailSent" \in Replies
  BY DEF Replies
<1> QED
  BY <1>1, <1>3, <1>4, <1>5, ReplyMoves DEF ForgotWrite

LEMMA ResetSubmitStep ==
    ASSUME Invariant, NEW r \in Slots, NEW b \in Browsers, NEW link \in Links,
           NEW password \in Passwords, ResetSubmit(r, b, link, password)
    PROVE  Preserved
<1> DEFINE w == [Idle EXCEPT !.link = link]
           form == [Idle EXCEPT !.link = link, !.new = password]
<1>1. w \in Request /\ w.set = None /\ w.link = link
  BY IdleTyped DEF Request
<1>2. form = [w EXCEPT !.new = password]
  BY IdleTyped DEF Request
<1>3. Send(r, b, "resetLookup", form) /\ link \in mailed
  BY DEF ResetSubmit
<1> HIDE DEF w, form
<1>4. form \in Request
  BY <1>1, <1>2 DEF Request
<1>5. form.set = None /\ form.link = link /\ form.new = password
  BY <1>1, <1>2, <1>4 DEF Request
<1> QED
  BY <1>3, <1>4, <1>5, SendMoves

LEMMA ResetLookupStep ==
    ASSUME Invariant, NEW r \in Slots, ResetLookup(r)
    PROVE  Preserved
<1>1. req[r].pc = "resetLookup" /\ UNCHANGED <<users, browserVars, linkVars>>
  BY DEF ResetLookup, At
<1>2. CASE Reply(r, "linkExpired")
  <2>1. "linkExpired" \in Replies
    BY DEF Replies
  <2> QED
    BY <1>1, <1>2, <2>1, ReplyOnly
<1>3. ASSUME NEW u \in UserIds, Goto(r, "resetWrite", [req[r] EXCEPT !.user = u])
      PROVE  Preserved
  BY <1>1, <1>3, UserFound
<1> QED
  BY <1>2, <1>3 DEF ResetLookup, ByResetToken, Live

LEMMA ResetWriteStep ==
    ASSUME Invariant, NEW r \in Slots, ResetWrite(r)
    PROVE  Preserved
<1> DEFINE p == Moved(req[r], "resetClear")
<1>1. /\ req[r].pc = "resetWrite" /\ UNCHANGED <<browserVars, linkVars>>
      /\ req[r] \in Request /\ req[r].browser \in Browsers /\ req[r].set = None
      /\ req[r].user \in UserIds /\ req[r].new \in Passwords /\ req[r].link \in mailed
      /\ Goto(r, "resetClear", req[r])
  BY DEF ResetWrite, At, Invariant, TypeOK, Filled
<1>2. StatementLeaves(users')
  BY <1>1, PasswordEvolves, MayFailEvolves DEF ResetWrite
<1>3. "resetClear" \in Pcs
  BY DEF Pcs
<1>4. p.pc = "resetClear" /\ p.browser = req[r].browser /\ Keeps(p, req[r])
  BY <1>1, <1>3, GotoFields
<1> HIDE DEF p
<1>5. Filled(p, mailed)
  BY <1>1, <1>4 DEF Filled, AuthedPc, Keeps
<1>6. ReadInv(p, users')
  BY <1>1, <1>4 DEF ReadInv, Keeps
<1> QED
  BY <1>1, <1>2, <1>3, <1>5, <1>6, GotoMoves DEF p

LEMMA ResetClearStep ==
    ASSUME Invariant, NEW r \in Slots, ResetClear(r)
    PROVE  Preserved
<1>1. /\ req[r].pc = "resetClear" /\ req[r].user \in UserIds /\ req[r].link \in mailed
  BY DEF ResetClear, At, Invariant, Filled
<1>2. PICK link \in Links : link = req[r].link
  BY <1>1 DEF Invariant, TypeOK
<1>3. StatementLeaves(users')
  BY <1>1, <1>2, LinkEvolves, MayFailEvolves DEF ResetClear
<1>4. LinksGrow
  BY <1>1 DEF ResetClear, LinksGrow, Invariant, TypeOK
<1>5. "resetDone" \in Replies
  BY DEF Replies
<1> QED
  BY <1>1, <1>3, <1>4, <1>5, ReplyMoves DEF ResetClear

LEMMA PasswordResetStep ==
    ASSUME Invariant, PasswordResetNext
    PROVE  Preserved
BY ForgotSubmitStep, ResetSubmitStep, ForgotLookupStep, ForgotWriteStep, ResetLookupStep,
   ResetWriteStep, ResetClearStep DEF PasswordResetNext
-----------------------------------------------------------------------------
(***************************************************************************)
(* Settings.                                                               *)
(***************************************************************************)

LEMMA AuthedSubmitStep ==
    ASSUME Invariant, NEW r \in Slots, NEW b \in Browsers, NEW op \in DOMAIN Entry,
           NEW form \in Request, form.set = None, AuthedSubmit(r, b, op, form),
           op = "delete" => form.user \in UserIds,
           op = "password" => form.new \in Passwords
    PROVE  Preserved
<1> DEFINE w == [form EXCEPT !.cookie = session[b]]
           q == [form EXCEPT !.cookie = session[b], !.op = op]
<1>1. session[b] \in Token \cup {None}
  BY DEF Invariant, TypeOK
<1>2. /\ w \in Request /\ w.cookie = session[b] /\ w.set = None /\ w.user = form.user
      /\ w.new = form.new
  BY <1>1 DEF Request
<1>3. q = [w EXCEPT !.op = op]
  BY DEF Request
<1>4. Send(r, b, "auth", q)
  BY DEF AuthedSubmit
<1>5. op \in {"page", "password", "mfaEnable", "mfaDisable", "delete"}
  BY DEF Entry
<1> HIDE DEF w, q
<1>6. q \in Request
  BY <1>2, <1>3, <1>5 DEF Request
<1>7. /\ q.op = op /\ q.cookie = session[b] /\ q.set = None /\ q.user = form.user
      /\ q.new = form.new
  BY <1>2, <1>3, <1>6 DEF Request
<1> QED
  BY <1>1, <1>4, <1>6, <1>7, SendMoves

LEMMA SettingsSubmitStep ==
    ASSUME Invariant, NEW r \in Slots, NEW b \in Browsers, SettingsSubmit(r, b)
    PROVE  Preserved
<1>1. /\ {"page", "password", "mfaEnable", "mfaDisable", "delete"} \subseteq DOMAIN Entry
      /\ Idle \in Request /\ Idle.set = None
  BY IdleTyped DEF Entry
<1>2. ASSUME NEW op \in {"page", "mfaEnable", "mfaDisable"}, AuthedSubmit(r, b, op, Idle)
      PROVE  Preserved
  BY <1>1, <1>2, AuthedSubmitStep
<1>3. ASSUME NEW old \in Passwords, NEW new \in Passwords,
             AuthedSubmit(r, b, "password", [Idle EXCEPT !.password = old, !.new = new])
      PROVE  Preserved
  <2> DEFINE w == [Idle EXCEPT !.password = old]
             form == [Idle EXCEPT !.password = old, !.new = new]
  <2>1. w \in Request /\ w.set = None
    BY <1>1 DEF Request
  <2>2. form = [w EXCEPT !.new = new]
    BY <1>1 DEF Request
  <2>3. AuthedSubmit(r, b, "password", form)
    BY <1>3
  <2> HIDE DEF w, form
  <2>4. form \in Request
    BY <2>1, <2>2 DEF Request
  <2>5. form.set = None /\ form.new = new
    BY <2>1, <2>2, <2>4 DEF Request
  <2> QED
    BY <1>1, <2>3, <2>4, <2>5, AuthedSubmitStep
<1>4. ASSUME NEW u \in UserIds, AuthedSubmit(r, b, "delete", [Idle EXCEPT !.user = u])
      PROVE  Preserved
  <2> DEFINE form == [Idle EXCEPT !.user = u]
  <2>1. form \in Request /\ form.set = None /\ form.user = u
    BY <1>1 DEF Request
  <2>2. AuthedSubmit(r, b, "delete", form)
    BY <1>4
  <2> HIDE DEF form
  <2> QED
    BY <1>1, <2>1, <2>2, AuthedSubmitStep
<1> QED
  BY <1>2, <1>3, <1>4 DEF SettingsSubmit

LEMMA AuthRejectStep ==
    ASSUME Invariant, NEW r \in Slots, AuthReject(r)
    PROVE  Preserved
<1>1. req[r].pc = "auth" /\ UNCHANGED <<users, browserVars, linkVars>>
  BY DEF AuthReject, At
<1>2. "toLogin" \in Replies
  BY DEF Replies
<1>3. CASE Reply(r, "toLogin")
  BY <1>1, <1>2, <1>3, ReplyOnly
<1>4. CASE Respond(r, "toLogin", Delete, None)
  BY <1>1, <1>2, <1>4, SameTable, UnchangedLinks, RespondMoves
<1> QED
  BY <1>3, <1>4 DEF AuthReject

LEMMA AuthAdmitStep ==
    ASSUME Invariant, NEW r \in Slots, AuthAdmit(r)
    PROVE  Preserved
<1>1. /\ req[r].pc = "auth" /\ UNCHANGED <<users, browserVars, linkVars>>
      /\ req[r] \in Request /\ req[r].browser \in Browsers /\ req[r].set = None
      /\ req[r].cookie \in Token /\ req[r].op \in DOMAIN Entry
      /\ req[r].op = "delete" => req[r].user \in UserIds
      /\ req[r].op = "password" => req[r].new \in Passwords
  BY DEF AuthAdmit, At, Invariant, TypeOK, Filled
<1>2. CASE Reply(r, "forbidden")
  <2>1. "forbidden" \in Replies
    BY DEF Replies
  <2> QED
    BY <1>1, <1>2, <2>1, ReplyOnly
<1>3. CASE Goto(r, Entry[req[r].op], [req[r] EXCEPT !.op = None])
  <2> DEFINE q == [req[r] EXCEPT !.op = None]
             pc == Entry[req[r].op]
             p == Moved(q, pc)
  <2>1. /\ q \in Request /\ q.browser = req[r].browser /\ q.set = None
        /\ q.cookie = req[r].cookie /\ q.user = req[r].user /\ q.new = req[r].new
    BY <1>1 DEF Request
  <2>2. /\ pc \in {"page", "passwordVerify", "mfaEnable", "mfaDisable", "deleteLookup"}
        /\ pc = "deleteLookup" => req[r].op = "delete"
        /\ pc = "passwordVerify" => req[r].op = "password"
    BY <1>1 DEF Entry
  <2>3. Goto(r, pc, q)
    BY <1>3
  <2> HIDE DEF q, pc
  <2>4. pc \in Pcs
    BY <2>2 DEF Pcs
  <2>5. p.pc = pc /\ p.browser = q.browser /\ Keeps(p, q)
    BY <2>1, <2>4, GotoFields
  <2> HIDE DEF p
  <2>6. Filled(p, mailed)
    BY <1>1, <2>1, <2>2, <2>5 DEF Filled, AuthedPc, Keeps
  <2>7. ReadInv(p, users')
    BY <2>1, <2>2, <2>5 DEF ReadInv, Keeps
  <2>8. pc # "respond"
    BY <2>2
  <2> QED
    BY <1>1, <2>1, <2>3, <2>4, <2>6, <2>7, <2>8, SameTable, GotoMoves DEF p
<1> QED
  BY <1>2, <1>3 DEF AuthAdmit

LEMMA PasswordVerifyStep ==
    ASSUME Invariant, NEW r \in Slots, PasswordVerify(r)
    PROVE  Preserved
<1>1. /\ req[r].pc = "passwordVerify" /\ UNCHANGED <<users, browserVars, linkVars>>
      /\ req[r] \in Request /\ req[r].browser \in Browsers /\ req[r].set = None
      /\ req[r].cookie \in Token /\ req[r].new \in Passwords
  BY DEF PasswordVerify, At, Invariant, TypeOK, Filled, AuthedPc
<1>2. CASE Reply(r, "notFound") \/ Reply(r, "badCredentials")
  <2>1. "notFound" \in Replies /\ "badCredentials" \in Replies
    BY DEF Replies
  <2> QED
    BY <1>1, <1>2, <2>1, ReplyOnly
<1>3. CASE Goto(r, "passwordWrite", req[r])
  <2> DEFINE p == Moved(req[r], "passwordWrite")
  <2>1. "passwordWrite" \in Pcs
    BY DEF Pcs
  <2>2. p.pc = "passwordWrite" /\ p.browser = req[r].browser /\ Keeps(p, req[r])
    BY <1>1, <2>1, GotoFields
  <2> HIDE DEF p
  <2>3. Filled(p, mailed)
    BY <1>1, <2>2 DEF Filled, AuthedPc, Keeps
  <2>4. ReadInv(p, users')
    BY <1>1, <2>2 DEF ReadInv, Keeps
  <2> QED
    BY <1>1, <1>3, <2>1, <2>3, <2>4, SameTable, GotoMoves DEF p
<1> QED
  BY <1>2, <1>3 DEF PasswordVerify

LEMMA PasswordWriteStep ==
    ASSUME Invariant, NEW r \in Slots, PasswordWrite(r)
    PROVE  Preserved
<1>1. /\ req[r].pc = "passwordWrite" /\ req[r].cookie.user \in UserIds
      /\ req[r].new \in Passwords
  BY DEF PasswordWrite, At, Invariant, Filled, AuthedPc, Token
<1>2. StatementLeaves(users')
  BY <1>1, PasswordEvolves DEF PasswordWrite
<1>3. "ok" \in Replies
  BY DEF Replies
<1> QED
  BY <1>1, <1>2, <1>3, UnchangedLinks, ReplyMoves DEF PasswordWrite

LEMMA MFAStep ==
    ASSUME Invariant, NEW r \in Slots, MFAEnable(r) \/ MFADisable(r)
    PROVE  Preserved
<1>1. /\ req[r].pc # "idle" /\ req[r].cookie.user \in UserIds
      /\ UNCHANGED <<browserVars, linkVars>>
  BY DEF MFAEnable, MFADisable, At, Invariant, Filled, AuthedPc, Token
<1>2. "ok" \in Replies /\ "badCode" \in Replies /\ "toSettings" \in Replies
  BY DEF Replies
<1>3. StatementLeaves(users')
  BY <1>1, MFAEvolves, SameTable DEF MFAEnable, MFADisable
<1> QED
  BY <1>1, <1>2, <1>3, UnchangedLinks, ReplyMoves DEF MFAEnable, MFADisable

\* Who is no administrator when looked at is none when deleted.
LEMMA DeleteLookupStep ==
    ASSUME Invariant, NEW r \in Slots, DeleteLookup(r)
    PROVE  Preserved
<1>1. /\ req[r].pc = "deleteLookup" /\ UNCHANGED <<users, browserVars, linkVars>>
      /\ req[r] \in Request /\ req[r].browser \in Browsers /\ req[r].set = None
      /\ req[r].cookie \in Token /\ req[r].user \in UserIds
  BY DEF DeleteLookup, At, Invariant, TypeOK, Filled, AuthedPc
<1>2. CASE Reply(r, "panic") \/ Reply(r, "forbidden")
  <2>1. "panic" \in Replies /\ "forbidden" \in Replies
    BY DEF Replies
  <2> QED
    BY <1>1, <1>2, <2>1, ReplyOnly
<1>3. CASE /\ req[r].user \in Live /\ users[req[r].user].role # "ADMIN"
           /\ Goto(r, "deleteWrite", req[r])
  <2> DEFINE p == Moved(req[r], "deleteWrite")
  <2>1. "deleteWrite" \in Pcs
    BY DEF Pcs
  <2>2. p.pc = "deleteWrite" /\ p.browser = req[r].browser /\ Keeps(p, req[r])
    BY <1>1, <2>1, GotoFields
  <2> HIDE DEF p
  <2>3. Filled(p, mailed)
    BY <1>1, <2>2 DEF Filled, AuthedPc, Keeps
  <2>4. ReadInv(p, users')
    BY <1>1, <1>3, <2>2 DEF ReadInv, Keeps, Live, Admins
  <2> QED
    BY <1>1, <1>3, <2>1, <2>3, <2>4, SameTable, GotoMoves DEF p
<1> QED
  BY <1>2, <1>3 DEF DeleteLookup

LEMMA DeleteWriteStep ==
    ASSUME Invariant, NEW r \in Slots, DeleteWrite(r)
    PROVE  Preserved
<1>1. /\ req[r].pc = "deleteWrite" /\ req[r].user \in UserIds
      /\ req[r].user \notin Admins(users)
  BY DEF DeleteWrite, At, Invariant, Filled, ReadInv
<1>2. StatementLeaves(users')
  BY <1>1, DeleteEvolves DEF DeleteWrite
<1>3. "ok" \in Replies
  BY DEF Replies
<1> QED
  BY <1>1, <1>2, <1>3, UnchangedLinks, ReplyMoves DEF DeleteWrite

LEMMA PageStep ==
    ASSUME Invariant, NEW r \in Slots, Page(r) \/ Logout(r)
    PROVE  Preserved
<1>1. req[r].pc # "idle" /\ UNCHANGED <<users, browserVars, linkVars>>
  BY DEF Page, Logout, At
<1>2. "page" \in Replies /\ "toLogin" \in Replies
  BY DEF Replies
<1>3. CASE Reply(r, "page")
  BY <1>1, <1>2, <1>3, ReplyOnly
<1>4. CASE Respond(r, "toLogin", Delete, None)
  BY <1>1, <1>2, <1>4, SameTable, UnchangedLinks, RespondMoves
<1> QED
  BY <1>3, <1>4 DEF Page, Logout

LEMMA LogoutSubmitStep ==
    ASSUME Invariant, NEW r \in Slots, NEW b \in Browsers, LogoutSubmit(r, b)
    PROVE  Preserved
<1>1. Send(r, b, "logout", Idle)
  BY DEF LogoutSubmit
<1> QED
  BY <1>1, IdleTyped, SendMoves

LEMMA SettingsStep ==
    ASSUME Invariant, SettingsNext
    PROVE  Preserved
BY SettingsSubmitStep, LogoutSubmitStep, AuthRejectStep, AuthAdmitStep, PageStep,
   PasswordVerifyStep, PasswordWriteStep, MFAStep, DeleteLookupStep, DeleteWriteStep
   DEF SettingsNext
-----------------------------------------------------------------------------
(***************************************************************************)
(* Responses, errors, time and crashes.                                    *)
(***************************************************************************)

LEMMA IdleFilled ==
    ASSUME NEW T, NEW links
    PROVE  Filled(Idle, links) /\ ReadInv(Idle, T)
BY IdleTyped DEF Filled, ReadInv, AuthedPc

LEMMA DeliverStep ==
    ASSUME Invariant, NEW r \in Slots, Deliver(r)
    PROVE  Preserved
<1> DEFINE b == req[r].browser
<1>1. /\ b \in Browsers
      /\ req[r].set \in Token \cup {None, Delete}
      /\ req[r].setPending \in Pending \cup {None, Delete}
      /\ req[r].set \notin {None, Delete} => TokenInv(req[r].set, users)
  BY DEF Deliver, At, Invariant, TypeOK, Filled, ReadInv, Request
<1>2. UNCHANGED <<users, issued, mailed, spent>> /\ req' = [req EXCEPT ![r] = Idle]
  BY DEF Deliver, linkVars
<1>3. After(session[b], req[r].set) \in Token \cup {None}
  BY <1>1 DEF After, Invariant, TypeOK
<1>4. After(pending[b], req[r].setPending) \in Pending \cup {None}
  BY <1>1 DEF After, Invariant, TypeOK
<1>5. After(session[b], req[r].set) # None => TokenInv(After(session[b], req[r].set), users)
  BY <1>1 DEF After, Invariant
<1>6. TypeOK'
  BY <1>2, <1>3, <1>4, IdleTyped DEF Deliver, Invariant, TypeOK
<1>7. \A s \in Slots : Filled(req'[s], mailed') /\ ReadInv(req'[s], users')
  BY <1>2, IdleFilled DEF Invariant, TypeOK
<1>8. \A c \in Browsers : session'[c] # None => TokenInv(session'[c], users')
  BY <1>2, <1>5 DEF Deliver, Invariant, TypeOK
<1> QED
  BY <1>2, <1>6, <1>7, <1>8, SameTable DEF Invariant, Preserved, StatementLeaves

LEMMA LoseStep ==
    ASSUME Invariant, NEW r \in Slots, Lose(r)
    PROVE  Preserved
<1>1. UNCHANGED <<users, browserVars, linkVars>> /\ req' = [req EXCEPT ![r] = Idle]
  BY DEF Lose
<1> QED
  BY <1>1, IdleTyped, IdleFilled, SameTable, UnchangedLinks, RequestMoves

LEMMA RefusalStep ==
    ASSUME Invariant, NEW r \in Slots, DbError(r) \/ RateLimited(r)
    PROVE  Preserved
<1>1. req[r].pc # "idle" /\ UNCHANGED <<users, browserVars, linkVars>>
  BY DEF DbError, RateLimited, ErrorReply
<1>2. PICK reply \in Replies : Reply(r, reply)
  BY DEF DbError, RateLimited, ErrorReply, Replies
<1> QED
  BY <1>1, <1>2, ReplyOnly

LEMMA CookieExpiresStep ==
    ASSUME Invariant, NEW b \in Browsers, CookieExpires(b)
    PROVE  Preserved
<1>1. UNCHANGED <<users, req, issued, mailed, spent>>
  BY DEF CookieExpires, linkVars
<1>2. TypeOK'
  BY <1>1 DEF CookieExpires, Invariant, TypeOK
<1>3. \A c \in Browsers : session'[c] # None => session'[c] = session[c]
  BY DEF CookieExpires, Invariant, TypeOK
<1> QED
  BY <1>1, <1>2, <1>3, SameTable DEF Invariant, Preserved, StatementLeaves

LEMMA CrashStep ==
    ASSUME Invariant, Crash
    PROVE  Preserved
<1>1. UNCHANGED <<users, session, pending, issued, mailed, spent>> /\ req' = [r \in Slots |-> Idle]
  BY DEF Crash, browserVars, linkVars
<1>2. TypeOK'
  BY <1>1, IdleTyped DEF Invariant, TypeOK
<1>3. \A r \in Slots : Filled(req'[r], mailed') /\ ReadInv(req'[r], users')
  BY <1>1, IdleFilled
<1> QED
  BY <1>1, <1>2, <1>3, SameTable DEF Invariant, Preserved, StatementLeaves

\* The table evolves and nothing else happens.
LEMMA TableMoves ==
    ASSUME Invariant, StatementLeaves(users'), KeepsPasswords(users, users'),
           UNCHANGED <<req, browserVars, linkVars>>
    PROVE  Preserved
<1>1. /\ users \in Table /\ users' \in Table /\ Evolves(users, users') /\ AdminInv(users')
      /\ \A s \in Slots : req[s] \in Request
  BY DEF Invariant, TypeOK, Table, StatementLeaves
<1>2. TypeOK'
  BY <1>1 DEF Invariant, TypeOK, Table, browserVars, linkVars
<1>3. \A s \in Slots : Filled(req'[s], mailed') /\ ReadInv(req'[s], users')
  BY <1>1, ReadKept DEF Invariant, linkVars
<1>4. \A b \in Browsers : session'[b] # None => TokenInv(session'[b], users')
  BY <1>1, TokenKept DEF Invariant, TypeOK, browserVars
<1> QED
  BY <1>1, <1>2, <1>3, <1>4 DEF Invariant, Preserved

LEMMA TimeStep ==
    ASSUME Invariant, NEW u \in Live, LockElapses(u) \/ LinkExpires(u),
           UNCHANGED <<req, browserVars, linkVars>>
    PROVE  Preserved
<1>1. users[u] \in Row /\ users[u].version \in Nat /\ u \in UserIds /\ users[u].state = "live"
  BY SameTable DEF Table, Live, Row
<1>2. ASSUME NEW row \in Row, row.state = users[u].state, row.role = users[u].role,
             row.version = users[u].version, row.password = users[u].password,
             users' = [users EXCEPT ![u] = row]
      PROVE  Preserved
  <2>1. AdminInv(users)
    BY DEF Invariant
  <2>2. StatementLeaves([users EXCEPT ![u] = row])
    <3>1. users[u].version <= row.version /\ row.state = "live"
      BY <1>1, <1>2
    <3> QED
      BY <1>1, <1>2, <2>1, <3>1, SameTable, RowChanges
  <2>3. KeepsPasswords(users, users')
    BY <1>2, SameTable DEF KeepsPasswords, Table
  <2> QED
    BY <1>2, <2>2, <2>3, TableMoves
<1>3. CASE LockElapses(u)
  <2> DEFINE row == [users[u] EXCEPT !.lock = "elapsed"]
  <2>1. /\ row \in Row /\ row.state = users[u].state /\ row.role = users[u].role
        /\ row.version = users[u].version /\ row.password = users[u].password
    BY <1>1 DEF Row
  <2>2. users' = [users EXCEPT ![u] = row]
    BY <1>3 DEF LockElapses
  <2> HIDE DEF row
  <2> QED
    BY <1>2, <2>1, <2>2
<1>4. CASE LinkExpires(u)
  <2> DEFINE row == [users[u] EXCEPT !.expired = TRUE]
  <2>1. /\ row \in Row /\ row.state = users[u].state /\ row.role = users[u].role
        /\ row.version = users[u].version /\ row.password = users[u].password
    BY <1>1 DEF Row
  <2>2. users' = [users EXCEPT ![u] = row]
    BY <1>4 DEF LinkExpires
  <2> HIDE DEF row
  <2> QED
    BY <1>2, <2>1, <2>2
<1> QED
  BY <1>3, <1>4

LEMMA EnvironmentStep ==
    ASSUME Invariant, Environment
    PROVE  Preserved
BY DeliverStep, LoseStep, RefusalStep, CookieExpiresStep, TimeStep DEF Environment

LEMMA ServingStep ==
    ASSUME Invariant, Serving
    PROVE  Preserved
BY LoginStep, RegistrationStep, PasswordResetStep, SettingsStep, EnvironmentStep DEF Serving
-----------------------------------------------------------------------------
(***************************************************************************)
(* The theorems.                                                           *)
(***************************************************************************)

LEMMA InitInvariant == Init => Invariant
<1> SUFFICES ASSUME Init PROVE Invariant
  OBVIOUS
<1>1. users \in Table /\ AdminInv(users)
  <2>1. \A u \in DOMAIN InitialUsers :
          /\ InitialUsers[u].email \in Emails /\ InitialUsers[u].password \in Passwords
          /\ InitialUsers[u].role \in {"ADMIN", "USER"}
    BY InitialAssumption
  <2>2. ASSUME NEW u \in UserIds
        PROVE  /\ users[u] \in Row
               /\ u \in DOMAIN InitialUsers =>
                    users[u].state = "live" /\ users[u].role = InitialUsers[u].role
               /\ u \notin DOMAIN InitialUsers => users[u].state = "absent"
    <3>1. CASE u \in DOMAIN InitialUsers
      <4> DEFINE row == NewRow(InitialUsers[u].email, InitialUsers[u].password,
                               InitialUsers[u].role)
      <4>1. users[u] = row
        BY <3>1 DEF Init, RequestsInit, UsersInit
      <4>2. row \in Row /\ row.state = "live" /\ row.role = InitialUsers[u].role
        BY <2>1, <3>1, NewRowTyped
      <4> QED
        BY <3>1, <4>1, <4>2
    <3>2. CASE u \notin DOMAIN InitialUsers
      BY <3>2, NoRowTyped DEF Init, RequestsInit, UsersInit, NoRow
    <3> QED
      BY <3>1, <3>2
  <2>3. users \in Table
    BY <2>2 DEF Init, RequestsInit, UsersInit, Table
  <2>4. AdminInv(users)
    BY <2>2, InitialAssumption DEF AdminInv, Admins
  <2> QED
    BY <2>3, <2>4
<1>2. TypeOK
  BY <1>1, IdleTyped DEF Init, RequestsInit, TypeOK, Table
<1>3. \A r \in Slots : Filled(req[r], mailed) /\ ReadInv(req[r], users)
  BY IdleFilled DEF Init, RequestsInit
<1>4. \A b \in Browsers : session[b] = None
  BY DEF Init, RequestsInit
<1> QED
  BY <1>1, <1>2, <1>3, <1>4 DEF Invariant

LEMMA StepPreserves ==
    ASSUME Invariant, [Next]_vars
    PROVE  Preserved
<1>1. CASE UNCHANGED vars
  <2>1. UNCHANGED <<users, req, browserVars, linkVars>>
    BY <1>1 DEF vars, browserVars, linkVars
  <2> QED
    BY <2>1, SameTable, TableMoves
<1>2. CASE Next
  BY <1>2, ServingStep, CrashStep DEF Next
<1> QED
  BY <1>1, <1>2

LEMMA InvariantHolds == Spec => []Invariant
<1>1. Invariant /\ [Next]_vars => Invariant'
  BY StepPreserves DEF Preserved
<1> QED
  BY <1>1, InitInvariant, PTL DEF Spec

\* Rows, requests and cookies have their types in every interleaving of handlers.
THEOREM TypeCorrect == Spec => []TypeOK
<1>1. Invariant => TypeOK
  BY DEF Invariant
<1> QED
  BY <1>1, InvariantHolds, PTL

\* As long as there is an account there is an administrator: HandleRegister makes one
\* of whoever it found no account before, and DeleteUser deletes none.
THEOREM AnAdministratorRemains == Spec => []AdminRemains
<1>1. Invariant => AdminRemains
  BY DEF Invariant, AdminInv, Admins, AdminRemains, Live
<1> QED
  BY <1>1, InvariantHolds, PTL

\* The token of a session says nothing but what the table said once.
LEMMA SessionTokensInv ==
    ASSUME Invariant, NEW t \in SessionTokens
    PROVE  t \in Token /\ TokenInv(t, users)
BY DEF Invariant, TypeOK, SessionTokens, Tokens, ReadInv, Request

\* A session that RequireAuth accepts and that no code completed was had with the
\* current password, whatever changes of password a HandleLogin overlaps, for it signs
\* the version that it read with the password.
THEOREM SessionsProvePasswords == Spec => []SessionProvesPassword
<1>1. ASSUME Invariant, NEW t \in SessionTokens, t.via # "code", SessionCurrent(t)
      PROVE  users[t.user].password = t.proof
  <2>1. TokenInv(t, users)
    BY <1>1, SessionTokensInv
  <2>2. users[t.user].state = "live" /\ users[t.user].version = t.version
    BY <1>1 DEF SessionCurrent, Live
  <2> QED
    BY <1>1, <2>1, <2>2 DEF TokenInv, StillHas
<1>2. Invariant => SessionProvesPassword
  BY <1>1 DEF SessionProvesPassword
<1> QED
  BY <1>2, InvariantHolds, PTL

\* ChangePassword and ResetPasswordSubmit sign out every browser, and the ones whose
\* new session is still on its way.
THEOREM PasswordChangesSignOut == Spec => PasswordChangeSignsOut
<1>1. ASSUME Invariant, [Next]_vars, NEW u \in Live, users'[u].password # users[u].password,
             NEW t \in SessionTokens', t.user = u
      PROVE  ~(SessionCurrent(t)')
  <2>1. u \in UserIds /\ users[u].state = "live"
    BY DEF Live
  <2>2. t \in SessionTokens /\ Evolves(users, users')
    BY <1>1, <2>1, StepPreserves DEF Preserved, KeepsPasswords
  <2>3. t \in Token /\ TokenInv(t, users)
    BY <1>1, <2>2, SessionTokensInv
  <2>4. t.version \in Nat /\ users[u].version \in Nat /\ users'[u].version \in Nat
    BY <1>1, <2>1, <2>3, StepPreserves DEF Preserved, Invariant, TypeOK, Row, Token
  <2> QED
    BY <1>1, <2>1, <2>2, <2>3, <2>4
    DEF Evolves, TokenInv, Remembers, SessionCurrent, Live
<1>2. Invariant /\ [Next]_vars =>
        [\A u \in Live : users'[u].password # users[u].password =>
           \A t \in SessionTokens' : t.user = u => ~SessionCurrent(t)']_vars
  BY <1>1
<1> QED
  BY <1>2, InvariantHolds, PTL DEF Spec, PasswordChangeSignsOut

\* A session that RequireAuth refuses once is refused for ever: no statement brings a
\* version back and no id is given twice.
THEOREM RevocationIsFinal == Spec => RevokedStaysRevoked
<1>1. ASSUME Invariant, [Next]_vars, NEW b \in Browsers, session[b] # None,
             ~SessionCurrent(session[b]), session'[b] = session[b]
      PROVE  ~(SessionCurrent(session[b])')
  <2> DEFINE t == session[b]
  <2>1. t \in Token /\ TokenInv(t, users)
    BY <1>1 DEF Invariant, TypeOK
  <2>2. Evolves(users, users')
    BY <1>1, StepPreserves DEF Preserved
  <2>3. /\ t.user \in UserIds /\ t.version \in Nat
        /\ users[t.user].version \in Nat /\ users'[t.user].version \in Nat
    BY <1>1, <2>1, StepPreserves DEF Preserved, Invariant, TypeOK, Row, Token
  <2> QED
    BY <1>1, <2>1, <2>2, <2>3 DEF Evolves, TokenInv, Remembers, SessionCurrent, Live
<1>2. Invariant /\ [Next]_vars =>
        [\A b \in Browsers :
           session[b] # None /\ ~SessionCurrent(session[b]) /\ session'[b] = session[b]
             => ~SessionCurrent(session[b])']_vars
  BY <1>1
<1> QED
  BY <1>2, InvariantHolds, PTL DEF Spec, RevokedStaysRevoked
=============================================================================
