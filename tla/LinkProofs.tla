----------------------------- MODULE LinkProofs -----------------------------
(***************************************************************************)
(* Proof that a reset link serves once, for any number of links, users and *)
(* requests, as long as no statement fails: a failed ClearResetToken, whose*)
(* error ResetPasswordSubmit ignores, would leave the link in its row.     *)
(***************************************************************************)
EXTENDS AuthProofs

\* Where a request has found the user of its link and not yet cleared it.
Using == {"resetWrite", "resetClear"}

\* A link is in one row at most, that of an account; it was generated and has not
\* served; and a request that uses a link may clear the only row that can have it.
LinkInv ==
    /\ \A u \in UserIds : users[u].reset # None => users[u].reset \in issued \ spent
    /\ \A u \in UserIds : users[u].state # "live" => users[u].reset = None
    /\ \A u, v \in UserIds : users[u].reset # None /\ users[u].reset = users[v].reset => u = v
    /\ \A r \in Slots : req[r].pc \in Using =>
         \A u \in UserIds : users[u].reset = req[r].link => u = req[r].user

\* What is shown of every step.
LookupRefuses ==
    \A r \in Slots :
        At(r, "resetLookup") /\ req'[r].pc = "resetWrite" => req[r].link \notin spent

LinkStep == LinkInv' /\ LookupRefuses

\* Most steps give no link to a row and none to a request.
NoLinkGiven == \A u \in UserIds : /\ users'[u].reset \in {users[u].reset, None}
                                  /\ users'[u].state # "live" => users'[u].reset = None

NoneUsing == \A r \in Slots : req'[r].pc \in Using =>
                 /\ req[r].pc \in Using
                 /\ req'[r].link = req[r].link
                 /\ req'[r].user = req[r].user

LEMMA LinkTypes ==
    ASSUME Invariant
    PROVE  /\ None \notin issued /\ spent \subseteq issued
           /\ \A r \in Slots : req[r].pc \in Using => req[r].link \in issued
<1>1. issued \subseteq Links /\ mailed \subseteq issued /\ spent \subseteq mailed
  BY DEF Invariant, TypeOK
<1>2. None \notin Links
  BY NoneAssumption
<1>3. \A r \in Slots : req[r].pc \in Using => req[r].link \in mailed
  BY DEF Invariant, Filled, Using
<1> QED
  BY <1>1, <1>2, <1>3

LEMMA QuietStep ==
    ASSUME Invariant, LinkInv, NoLinkGiven, NoneUsing, UNCHANGED linkVars
    PROVE  LinkStep
<1>1. issued' = issued /\ spent' = spent
  BY DEF linkVars
<1>2. \A u \in UserIds : users'[u].reset # None => users'[u].reset = users[u].reset
  BY DEF NoLinkGiven
<1>3. \A u \in UserIds : users'[u].reset # None => users'[u].reset \in issued' \ spent'
  BY <1>1, <1>2 DEF LinkInv
<1>4. \A u, v \in UserIds :
        users'[u].reset # None /\ users'[u].reset = users'[v].reset => u = v
  BY <1>2 DEF LinkInv
<1>5. ASSUME NEW r \in Slots, req'[r].pc \in Using, NEW u \in UserIds,
             users'[u].reset = req'[r].link
      PROVE  u = req'[r].user
  <2>1. req[r].pc \in Using /\ req'[r].link = req[r].link /\ req'[r].user = req[r].user
    BY <1>5 DEF NoneUsing
  <2>2. users'[u].reset # None
    BY <1>5, <2>1, LinkTypes
  <2> QED
    BY <1>2, <1>5, <2>1, <2>2 DEF LinkInv
<1>6. LinkInv'
  BY <1>3, <1>4, <1>5 DEF LinkInv, NoLinkGiven
<1>7. LookupRefuses
  BY DEF LookupRefuses, NoneUsing, Using, At
<1> QED
  BY <1>6, <1>7 DEF LinkStep
-----------------------------------------------------------------------------
(***************************************************************************)
(* Requests and statements that leave links alone.                         *)
(***************************************************************************)

LEMMA RequestQuiet ==
    ASSUME Invariant, NEW r \in Slots, NEW q, req' = [req EXCEPT ![r] = q], q.pc \notin Using
    PROVE  NoneUsing
BY DEF Invariant, TypeOK, NoneUsing

LEMMA SendQuiet ==
    ASSUME Invariant, NEW r \in Slots, NEW b, NEW pc, NEW form, "pc" \in DOMAIN form,
           Send(r, b, pc, form), pc \notin Using
    PROVE  NoneUsing
<1> DEFINE q == [form EXCEPT !.pc = pc, !.browser = b]
<1>1. q.pc = pc
  OBVIOUS
<1>2. req' = [req EXCEPT ![r] = q]
  BY DEF Send
<1> HIDE DEF q
<1> QED
  BY <1>1, <1>2, RequestQuiet

LEMMA GotoQuiet ==
    ASSUME Invariant, NEW r \in Slots, NEW pc, NEW q, "pc" \in DOMAIN q, Goto(r, pc, q),
           pc \notin Using
    PROVE  NoneUsing
<1> DEFINE p == [q EXCEPT !.pc = pc]
<1>1. p.pc = pc
  OBVIOUS
<1>2. req' = [req EXCEPT ![r] = p]
  BY DEF Goto
<1> HIDE DEF p
<1> QED
  BY <1>1, <1>2, RequestQuiet

LEMMA RespondQuiet ==
    ASSUME Invariant, NEW r \in Slots, NEW reply, NEW set, NEW setPending,
           Respond(r, reply, set, setPending)
    PROVE  NoneUsing
<1> DEFINE q == Answered(req[r].browser, reply, set, setPending)
<1>1. q.pc = "respond"
  BY DEF Answered, Idle
<1>2. req' = [req EXCEPT ![r] = q]
  BY DEF Respond, Answered
<1> HIDE DEF q
<1> QED
  BY <1>1, <1>2, RequestQuiet DEF Using

LEMMA ReplyQuiet ==
    ASSUME Invariant, NEW r \in Slots, NEW reply, Reply(r, reply)
    PROVE  NoneUsing
BY RespondQuiet DEF Reply

\* Fields of requests that are looked at here exist.
LEMMA RequestFields ==
    ASSUME Invariant, NEW r \in Slots
    PROVE  /\ "pc" \in DOMAIN req[r]
           /\ \A u : "pc" \in DOMAIN [req[r] EXCEPT !.user = u]
           /\ \A u, row : "pc" \in DOMAIN [req[r] EXCEPT !.user = u, !.row = row]
           /\ \A e, f : "pc" \in DOMAIN [req[r] EXCEPT !.email = e, !.first = f]
<1> DEFINE q == req[r]
<1>1. "pc" \in DOMAIN q
  BY DEF Invariant, TypeOK, Request
<1> HIDE DEF q
<1>2. ASSUME NEW f, "pc" \in DOMAIN f, NEW x
      PROVE  /\ "pc" \in DOMAIN [f EXCEPT !.user = x]
             /\ "pc" \in DOMAIN [f EXCEPT !.row = x]
             /\ "pc" \in DOMAIN [f EXCEPT !.email = x]
             /\ "pc" \in DOMAIN [f EXCEPT !.first = x]
  BY <1>2
<1>3. \A u : "pc" \in DOMAIN [q EXCEPT !.user = u]
  BY <1>1, <1>2
<1>4. \A u, row : "pc" \in DOMAIN [q EXCEPT !.user = u, !.row = row]
  BY <1>1, <1>2
<1>5. \A e, f : "pc" \in DOMAIN [q EXCEPT !.email = e, !.first = f]
  BY <1>1, <1>2
<1> QED
  BY <1>1, <1>3, <1>4, <1>5 DEF q

LEMMA CredentialsQuiet ==
    ASSUME Invariant, NEW r \in Slots, NEW b, NEW pc, NEW email \in Emails,
           NEW password \in Passwords,
           Send(r, b, pc, Credentials(email, password)), pc \notin Using
    PROVE  NoneUsing
<1>1. "pc" \in DOMAIN Credentials(email, password)
  BY CredentialsTyped DEF Request
<1> QED
  BY <1>1, SendQuiet

LEMMA SameLinks ==
    ASSUME LinkInv, users' = users
    PROVE  NoLinkGiven
BY DEF LinkInv, NoLinkGiven

LEMMA UpdatedQuiet ==
    ASSUME Invariant, LinkInv, NEW u, NEW row, users' = Updated(u, row),
           u \in UserIds => /\ row.reset \in {users[u].reset, None}
                            /\ users[u].state = "live" => row.state = "live" \/ row.reset = None
    PROVE  NoLinkGiven
<1>1. CASE u \in Live
  <2>1. u \in UserIds /\ users[u].state = "live" /\ users' = [users EXCEPT ![u] = row]
    BY <1>1 DEF Live, Updated
  <2>2. users'[u] = row /\ \A v \in UserIds \ {u} : users'[v] = users[v]
    BY <2>1 DEF Invariant, TypeOK
  <2> QED
    BY <2>1, <2>2 DEF LinkInv, NoLinkGiven
<1>2. CASE u \notin Live
  BY <1>2, SameLinks DEF Updated
<1> QED
  BY <1>1, <1>2

\* A column that is no part of a link is written.
LEMMA ColumnsQuiet ==
    ASSUME Invariant, LinkInv, NEW u
    PROVE  /\ \A n, lock : users' = AfterLoginAttempts(u, n, lock) => NoLinkGiven
           /\ \A p : users' = AfterPassword(u, p) => NoLinkGiven
           /\ \A on : users' = AfterMFA(u, on) => NoLinkGiven
           /\ users' = AfterClearResetToken(u) => NoLinkGiven
           /\ users' = AfterDelete(u) => NoLinkGiven
<1>1. u \in UserIds => users[u] \in Row
  BY DEF Invariant, TypeOK
<1>2. ASSUME NEW n, NEW lock, users' = AfterLoginAttempts(u, n, lock) PROVE NoLinkGiven
  <2> DEFINE row == [users[u] EXCEPT !.attempts = n, !.lock = lock]
  <2>1. u \in UserIds => row.reset = users[u].reset /\ row.state = users[u].state
    BY <1>1 DEF Row
  <2>2. users' = Updated(u, row)
    BY <1>2 DEF AfterLoginAttempts
  <2> HIDE DEF row
  <2> QED
    BY <2>1, <2>2, UpdatedQuiet
<1>3. ASSUME NEW p, users' = AfterPassword(u, p) PROVE NoLinkGiven
  <2> DEFINE row == [users[u] EXCEPT !.password = p, !.version = users[u].version + 1]
  <2>1. u \in UserIds => row.reset = users[u].reset /\ row.state = users[u].state
    BY <1>1 DEF Row
  <2>2. users' = Updated(u, row)
    BY <1>3 DEF AfterPassword
  <2> HIDE DEF row
  <2> QED
    BY <2>1, <2>2, UpdatedQuiet
<1>4. ASSUME NEW on, users' = AfterMFA(u, on) PROVE NoLinkGiven
  <2> DEFINE row == [users[u] EXCEPT !.mfa = on, !.version = users[u].version + 1]
  <2>1. u \in UserIds => row.reset = users[u].reset /\ row.state = users[u].state
    BY <1>1 DEF Row
  <2>2. users' = Updated(u, row)
    BY <1>4 DEF AfterMFA
  <2> HIDE DEF row
  <2> QED
    BY <2>1, <2>2, UpdatedQuiet
<1>5. ASSUME users' = AfterClearResetToken(u) PROVE NoLinkGiven
  <2> DEFINE row == [users[u] EXCEPT !.reset = None, !.expired = FALSE]
  <2>1. u \in UserIds => row.reset = None
    BY <1>1 DEF Row
  <2>2. users' = Updated(u, row)
    BY <1>5 DEF AfterClearResetToken
  <2> HIDE DEF row
  <2> QED
    BY <2>1, <2>2, UpdatedQuiet
<1>6. ASSUME users' = AfterDelete(u) PROVE NoLinkGiven
  <2> DEFINE row == [NoRow EXCEPT !.state = "deleted", !.version = users[u].version]
  <2>1. row.reset = None
    BY DEF NoRow
  <2>2. users' = Updated(u, row)
    BY <1>6 DEF AfterDelete
  <2> HIDE DEF row
  <2> QED
    BY <2>1, <2>2, UpdatedQuiet
<1> QED
  BY <1>2, <1>3, <1>4, <1>5, <1>6

LEMMA MayFailQuiet ==
    ASSUME DbMayFail = FALSE, NEW after, MayFail(after)
    PROVE  users' = after
BY DEF MayFail
-----------------------------------------------------------------------------
(***************************************************************************)
(* Login, registration and settings.                                       *)
(***************************************************************************)

\* A handler that has only looked answers, or goes on.
LEMMA LookStep ==
    ASSUME Invariant, LinkInv, NoneUsing, UNCHANGED <<users, browserVars, linkVars>>
    PROVE  LinkStep
BY SameLinks, QuietStep

LEMMA LoginLinks ==
    ASSUME DbMayFail = FALSE, Invariant, LinkInv, LoginNext
    PROVE  LinkStep
<1>1. ASSUME NEW r \in Slots, NEW b \in Browsers, NEW email \in Emails,
             NEW password \in Passwords, LoginSubmit(r, b, email, password)
      PROVE  LinkStep
  <2>1. Send(r, b, "loginLookup", Credentials(email, password))
    BY <1>1 DEF LoginSubmit, Credentials
  <2>2. NoneUsing
    BY <2>1, CredentialsQuiet DEF Using
  <2> QED
    BY <2>1, <2>2, LookStep DEF Send, browserVars
<1>2. ASSUME NEW r \in Slots, NEW b \in Browsers, CodeSubmit(r, b) PROVE LinkStep
  <2>1. NoneUsing
    BY <1>2, SendQuiet DEF CodeSubmit, Idle, Using
  <2> QED
    BY <1>2, <2>1, LookStep DEF CodeSubmit, Send, browserVars
<1>3. ASSUME NEW r \in Slots, NEW u, NEW row, Complete(r, u, row) PROVE NoneUsing
  BY <1>3, RespondQuiet DEF Complete
<1>4. ASSUME NEW r \in Slots, LoginLookup(r) PROVE LinkStep
  <2>1. CASE Reply(r, "badCredentials") \/ Reply(r, "locked")
    BY <2>1, <1>4, ReplyQuiet, LookStep DEF LoginLookup
  <2>2. ASSUME NEW u, NEW row,
               \/ Goto(r, "loginFail", [req[r] EXCEPT !.user = u, !.row = row])
               \/ Goto(r, "loginReset", [req[r] EXCEPT !.user = u, !.row = row])
        PROVE  LinkStep
    <3> DEFINE q == [req[r] EXCEPT !.user = u, !.row = row]
    <3>1. "pc" \in DOMAIN q
      BY RequestFields
    <3>2. Goto(r, "loginFail", q) \/ Goto(r, "loginReset", q)
      BY <2>2
    <3> HIDE DEF q
    <3>3. NoneUsing
      BY <3>1, <3>2, GotoQuiet DEF Using
    <3> QED
      BY <3>3, <1>4, LookStep DEF LoginLookup
  <2>3. ASSUME NEW u, NEW row, Complete(r, u, row) PROVE LinkStep
    BY <2>3, <1>3, <1>4, LookStep DEF LoginLookup
  <2> QED
    BY <1>4, <2>1, <2>2, <2>3 DEF LoginLookup
<1>5. ASSUME NEW r \in Slots, LoginFail(r) PROVE LinkStep
  <2>1. NoLinkGiven
    BY <1>5, MayFailQuiet, ColumnsQuiet DEF LoginFail
  <2> QED
    BY <1>5, <2>1, ReplyQuiet, QuietStep DEF LoginFail
<1>6. ASSUME NEW r \in Slots, LoginReset(r) PROVE LinkStep
  <2>1. NoLinkGiven
    BY <1>6, MayFailQuiet, ColumnsQuiet DEF LoginReset
  <2> QED
    BY <1>3, <1>6, <2>1, QuietStep DEF LoginReset
<1>7. ASSUME NEW r \in Slots, LoginSecond(r) PROVE LinkStep
  <2>1. NoneUsing
    BY <1>7, ReplyQuiet, RespondQuiet DEF LoginSecond
  <2> QED
    BY <1>7, <2>1, LookStep DEF LoginSecond
<1> QED
  BY <1>1, <1>2, <1>4, <1>5, <1>6, <1>7 DEF LoginNext

LEMMA RegistrationLinks ==
    ASSUME Invariant, LinkInv, RegistrationNext
    PROVE  LinkStep
<1>1. ASSUME NEW r \in Slots, NEW b \in Browsers, NEW email \in Emails,
             NEW password \in Passwords, RegisterSubmit(r, b, email, password)
      PROVE  LinkStep
  <2>1. Send(r, b, "registerCount", Credentials(email, password))
    BY <1>1 DEF RegisterSubmit, Credentials
  <2>2. NoneUsing
    BY <2>1, CredentialsQuiet DEF Using
  <2> QED
    BY <2>1, <2>2, LookStep DEF Send, browserVars
<1>2. ASSUME NEW r \in Slots, RegisterCount(r) PROVE LinkStep
  <2> DEFINE q == [req[r] EXCEPT !.email = Lower(req[r].email), !.first = NoUsers]
  <2>1. "pc" \in DOMAIN q
    BY RequestFields
  <2>2. Goto(r, "registerLookup", q)
    BY <1>2 DEF RegisterCount
  <2> HIDE DEF q
  <2>3. NoneUsing
    BY <2>1, <2>2, GotoQuiet DEF Using
  <2> QED
    BY <1>2, <2>3, LookStep DEF RegisterCount
<1>3. ASSUME NEW r \in Slots, RegisterLookup(r) PROVE LinkStep
  <2>1. NoneUsing
    BY <1>3, ReplyQuiet, GotoQuiet, RequestFields DEF RegisterLookup, Using
  <2> QED
    BY <1>3, <2>1, LookStep DEF RegisterLookup
<1>4. ASSUME NEW r \in Slots, RegisterInsert(r) PROVE LinkStep
  <2>1. NoneUsing
    BY <1>4, ReplyQuiet, RespondQuiet DEF RegisterInsert
  <2>2. CASE users' = users
    BY <1>4, <2>1, <2>2, SameLinks, QuietStep DEF RegisterInsert
  <2>3. ASSUME NEW u \in UserIds,
               users' = AfterCreate(u, req[r].email, req[r].password, NewRole(r))
        PROVE  LinkStep
    <3> DEFINE row == NewRow(req[r].email, req[r].password, NewRole(r))
    <3>1. row.reset = None
      BY DEF NewRow, NoRow
    <3>2. users' = [users EXCEPT ![u] = row]
      BY <2>3 DEF AfterCreate
    <3> HIDE DEF row
    <3>3. NoLinkGiven
      BY <3>1, <3>2 DEF Invariant, TypeOK, NoLinkGiven, LinkInv
    <3> QED
      BY <1>4, <2>1, <3>3, QuietStep DEF RegisterInsert
  <2> QED
    BY <1>4, <2>2, <2>3 DEF RegisterInsert
<1> QED
  BY <1>1, <1>2, <1>3, <1>4 DEF RegistrationNext

LEMMA SettingsLinks ==
    ASSUME Invariant, LinkInv, SettingsNext
    PROVE  LinkStep
<1>1. ASSUME NEW r \in Slots, NEW b \in Browsers, NEW op, NEW form, "pc" \in DOMAIN form,
             AuthedSubmit(r, b, op, form)
      PROVE  LinkStep
  <2> DEFINE q == [form EXCEPT !.cookie = session[b], !.op = op]
  <2>1. "pc" \in DOMAIN q
    BY <1>1
  <2>2. Send(r, b, "auth", q)
    BY <1>1 DEF AuthedSubmit
  <2> HIDE DEF q
  <2>3. NoneUsing
    BY <2>1, <2>2, SendQuiet DEF Using
  <2> QED
    BY <2>2, <2>3, LookStep DEF Send, browserVars
<1>2. ASSUME NEW r \in Slots, NEW b \in Browsers, SettingsSubmit(r, b) PROVE LinkStep
  <2>1. /\ "pc" \in DOMAIN Idle
        /\ \A u : "pc" \in DOMAIN [Idle EXCEPT !.user = u]
        /\ \A p, n : "pc" \in DOMAIN [Idle EXCEPT !.password = p, !.new = n]
    BY DEF Idle
  <2> QED
    BY <1>1, <1>2, <2>1 DEF SettingsSubmit
<1>3. ASSUME NEW r \in Slots, NEW b \in Browsers, LogoutSubmit(r, b) PROVE LinkStep
  <2>1. NoneUsing
    BY <1>3, SendQuiet DEF LogoutSubmit, Idle, Using
  <2> QED
    BY <1>3, <2>1, LookStep DEF LogoutSubmit, Send, browserVars
<1>4. ASSUME NEW r \in Slots, AuthReject(r) \/ Page(r) \/ Logout(r) PROVE LinkStep
  <2>1. NoneUsing
    BY <1>4, ReplyQuiet, RespondQuiet DEF AuthReject, Page, Logout
  <2> QED
    BY <1>4, <2>1, LookStep DEF AuthReject, Page, Logout
<1>5. ASSUME NEW r \in Slots, AuthAdmit(r) PROVE LinkStep
  <2>1. CASE Reply(r, "forbidden")
    BY <1>5, <2>1, ReplyQuiet, LookStep DEF AuthAdmit
  <2>2. CASE Goto(r, Entry[req[r].op], [req[r] EXCEPT !.op = None])
    <3> DEFINE q == [req[r] EXCEPT !.op = None]
    <3>1. "pc" \in DOMAIN q
      BY RequestFields
    <3>2. req[r].op \in DOMAIN Entry
      BY <1>5 DEF AuthAdmit, At, Invariant, Filled
    <3>3. Entry[req[r].op] \notin Using
      BY <3>2 DEF Entry, Using
    <3>4. Goto(r, Entry[req[r].op], q)
      BY <2>2
    <3> HIDE DEF q
    <3>5. NoneUsing
      BY <3>1, <3>3, <3>4, GotoQuiet
    <3> QED
      BY <1>5, <3>5, LookStep DEF AuthAdmit
  <2> QED
    BY <1>5, <2>1, <2>2 DEF AuthAdmit
<1>6. ASSUME NEW r \in Slots, PasswordVerify(r) \/ DeleteLookup(r) PROVE LinkStep
  <2>1. NoneUsing
    BY <1>6, ReplyQuiet, GotoQuiet, RequestFields DEF PasswordVerify, DeleteLookup, Using
  <2> QED
    BY <1>6, <2>1, LookStep DEF PasswordVerify, DeleteLookup
<1>7. ASSUME NEW r \in Slots,
             PasswordWrite(r) \/ MFAEnable(r) \/ MFADisable(r) \/ DeleteWrite(r)
      PROVE  LinkStep
  <2>1. NoLinkGiven
    BY <1>7, SameLinks, ColumnsQuiet DEF PasswordWrite, MFAEnable, MFADisable, DeleteWrite
  <2>2. NoneUsing
    BY <1>7, ReplyQuiet DEF PasswordWrite, MFAEnable, MFADisable, DeleteWrite
  <2> QED
    BY <1>7, <2>1, <2>2, QuietStep DEF PasswordWrite, MFAEnable, MFADisable, DeleteWrite
<1> QED
  BY <1>2, <1>3, <1>4, <1>5, <1>6, <1>7 DEF SettingsNext
-----------------------------------------------------------------------------
(***************************************************************************)
(* Password reset.                                                         *)
(***************************************************************************)

LEMMA ForgotSubmitLinks ==
    ASSUME Invariant, LinkInv, NEW r \in Slots, NEW b \in Browsers, NEW email \in Emails,
           ForgotSubmit(r, b, email)
    PROVE  LinkStep
<1>1. NoneUsing
  BY SendQuiet DEF ForgotSubmit, Idle, Using
<1> QED
  BY <1>1, LookStep DEF ForgotSubmit, Send, browserVars

LEMMA ForgotLookupLinks ==
    ASSUME Invariant, LinkInv, NEW r \in Slots, ForgotLookup(r)
    PROVE  LinkStep
<1>1. CASE Reply(r, "mailSent")
  BY <1>1, ReplyQuiet, LookStep DEF ForgotLookup
<1>2. ASSUME NEW u, Goto(r, "forgotWrite", [req[r] EXCEPT !.user = u]) PROVE LinkStep
  <2> DEFINE q == [req[r] EXCEPT !.user = u]
  <2>1. "pc" \in DOMAIN q
    BY RequestFields
  <2>2. Goto(r, "forgotWrite", q)
    BY <1>2
  <2> HIDE DEF q
  <2>3. NoneUsing
    BY <2>1, <2>2, GotoQuiet DEF Using
  <2> QED
    BY <2>3, LookStep DEF ForgotLookup
<1> QED
  BY <1>1, <1>2 DEF ForgotLookup

\* A generated link is new: no row has it, no request uses it, and it has not served.
LEMMA ForgotWriteLinks ==
    ASSUME DbMayFail = FALSE, Invariant, LinkInv, NEW r \in Slots, ForgotWrite(r)
    PROVE  LinkStep
<1>1. PICK link \in Links \ issued : /\ MayFail(AfterSetResetToken(req[r].user, link))
                                     /\ issued' = issued \cup {link}
  BY DEF ForgotWrite
<1>2. spent' = spent /\ NoneUsing
  BY ReplyQuiet DEF ForgotWrite
<1>3. \A u \in UserIds : /\ users'[u].reset \in {users[u].reset, link}
                         /\ users'[u].state # "live" => users'[u].reset = None
                         /\ users'[u].reset = link => u = req[r].user
  <2> DEFINE v == req[r].user
             row == [users[v] EXCEPT !.reset = link, !.expired = FALSE]
  <2>1. v \in UserIds
    BY DEF ForgotWrite, At, Invariant, Filled
  <2>2. row.reset = link /\ row.state = users[v].state
    BY <2>1 DEF Invariant, TypeOK, Row
  <2>3. users' = Updated(v, row)
    BY <1>1, MayFailQuiet DEF AfterSetResetToken
  <2> HIDE DEF row
  <2>4. \A u \in UserIds : users[u].reset # link
    BY <1>1, NoneAssumption DEF LinkInv
  <2>5. CASE v \in Live
    <3>1. users'[v] = row /\ \A u \in UserIds \ {v} : users'[u] = users[u]
      BY <2>1, <2>3, <2>5 DEF Updated, Invariant, TypeOK
    <3>2. users[v].state = "live"
      BY <2>5 DEF Live
    <3> QED
      BY <2>1, <2>2, <2>4, <3>1, <3>2 DEF LinkInv
  <2>6. CASE v \notin Live
    BY <2>3, <2>4, <2>6 DEF Updated, LinkInv
  <2> QED
    BY <2>5, <2>6
<1>4. link \notin spent /\ link # None
  BY <1>1, LinkTypes, NoneAssumption
<1>5. \A u \in UserIds : users'[u].reset # None => users'[u].reset \in issued' \ spent'
  BY <1>1, <1>2, <1>3, <1>4 DEF LinkInv
<1>6. \A u, v \in UserIds :
        users'[u].reset # None /\ users'[u].reset = users'[v].reset => u = v
  <2>1. \A u \in UserIds : users'[u].reset # link => users'[u].reset = users[u].reset
    BY <1>3
  <2>2. \A u \in UserIds : users[u].reset # link
    BY <1>1, <1>4 DEF LinkInv
  <2> QED
    BY <1>3, <2>1, <2>2 DEF LinkInv
<1>7. ASSUME NEW s \in Slots, req'[s].pc \in Using, NEW u \in UserIds,
             users'[u].reset = req'[s].link
      PROVE  u = req'[s].user
  <2>1. req[s].pc \in Using /\ req'[s].link = req[s].link /\ req'[s].user = req[s].user
    BY <1>2, <1>7 DEF NoneUsing
  <2>2. req[s].link \in issued
    BY <2>1, LinkTypes
  <2>3. users'[u].reset = users[u].reset
    BY <1>1, <1>3, <1>7, <2>1, <2>2
  <2> QED
    BY <1>7, <2>1, <2>3 DEF LinkInv
<1>8. LinkInv'
  BY <1>3, <1>5, <1>6, <1>7 DEF LinkInv
<1>9. LookupRefuses
  BY <1>2 DEF LookupRefuses, NoneUsing, Using, At
<1> QED
  BY <1>8, <1>9 DEF LinkStep

LEMMA ResetSubmitLinks ==
    ASSUME Invariant, LinkInv, NEW r \in Slots, NEW b \in Browsers, NEW link, NEW password,
           ResetSubmit(r, b, link, password)
    PROVE  LinkStep
<1> DEFINE form == [Idle EXCEPT !.link = link, !.new = password]
<1>1. "pc" \in DOMAIN form
  <2>1. "pc" \in DOMAIN Idle
    BY DEF Idle
  <2>2. ASSUME NEW f, "pc" \in DOMAIN f, NEW x
        PROVE  "pc" \in DOMAIN [f EXCEPT !.link = x] /\ "pc" \in DOMAIN [f EXCEPT !.new = x]
    BY <2>2
  <2> QED
    BY <2>1, <2>2
<1>2. Send(r, b, "resetLookup", form)
  BY DEF ResetSubmit
<1> HIDE DEF form
<1>3. NoneUsing
  BY <1>1, <1>2, SendQuiet DEF Using
<1> QED
  BY <1>2, <1>3, LookStep DEF Send, browserVars

\* Whoever has the link is the one that the request will clear, and no other row has it.
LEMMA ResetLookupLinks ==
    ASSUME Invariant, LinkInv, NEW r \in Slots, ResetLookup(r)
    PROVE  LinkStep
<1>0. UNCHANGED <<users, browserVars, linkVars>>
  BY DEF ResetLookup
<1>1. CASE Reply(r, "linkExpired")
  BY <1>0, <1>1, ReplyQuiet, LookStep
<1>2. ASSUME NEW u \in ByResetToken(req[r].link),
             Goto(r, "resetWrite", [req[r] EXCEPT !.user = u])
      PROVE  LinkStep
  <2> DEFINE q == [req[r] EXCEPT !.user = u]
             p == Moved(q, "resetWrite")
  <2>1. req[r] \in Request /\ u \in UserIds /\ users[u].reset = req[r].link
    BY <1>2 DEF Invariant, TypeOK, ByResetToken, Live
  <2>2. q \in Request /\ q.link = req[r].link /\ q.user = u
    BY <2>1 DEF Request
  <2>3. req' = [req EXCEPT ![r] = p]
    BY <1>2 DEF Goto, Moved
  <2> HIDE DEF q
  <2>4. p.pc = "resetWrite" /\ p.link = req[r].link /\ p.user = u
    BY <2>2, GotoFields DEF Pcs, Keeps
  <2> HIDE DEF p
  <2>5. req'[r] = p /\ \A s \in Slots \ {r} : req'[s] = req[s]
    BY <2>3 DEF Invariant, TypeOK
  <2>6. req[r].link # None
    <3>1. req[r].link \in Links
      BY DEF ResetLookup, At, Invariant, TypeOK, Filled
    <3> QED
      BY <3>1, NoneAssumption
  <2>7. \A v \in UserIds : users[v].reset = req[r].link => v = u
    BY <2>1, <2>6 DEF LinkInv
  <2>8. users' = users /\ issued' = issued /\ spent' = spent
    BY <1>0 DEF linkVars
  <2>9. LinkInv'
    BY <2>4, <2>5, <2>7, <2>8 DEF LinkInv
  <2>10. req[r].link \notin spent
    BY <2>1, <2>6 DEF LinkInv
  <2>11. LookupRefuses
    BY <2>5, <2>10 DEF LookupRefuses, At
  <2> QED
    BY <2>9, <2>11 DEF LinkStep
<1> QED
  BY <1>1, <1>2 DEF ResetLookup

LEMMA ResetWriteLinks ==
    ASSUME DbMayFail = FALSE, Invariant, LinkInv, NEW r \in Slots, ResetWrite(r)
    PROVE  LinkStep
<1>1. NoLinkGiven
  BY MayFailQuiet, ColumnsQuiet DEF ResetWrite
<1>2. NoneUsing
  <2>1. req[r] \in Request
    BY DEF Invariant, TypeOK
  <2> DEFINE p == Moved(req[r], "resetClear")
  <2>2. p.link = req[r].link /\ p.user = req[r].user
    BY <2>1, GotoFields DEF Pcs, Keeps
  <2>3. req' = [req EXCEPT ![r] = p]
    BY DEF ResetWrite, Goto, Moved
  <2> HIDE DEF p
  <2> QED
    BY <2>2, <2>3 DEF NoneUsing, ResetWrite, At, Using, Invariant, TypeOK
<1> QED
  BY <1>1, <1>2, QuietStep DEF ResetWrite

\* The one row that could have the link loses whatever link it has.
LEMMA ResetClearLinks ==
    ASSUME DbMayFail = FALSE, Invariant, LinkInv, NEW r \in Slots, ResetClear(r)
    PROVE  LinkStep
<1> DEFINE u == req[r].user
           link == req[r].link
<1>1. u \in UserIds /\ req[r].pc = "resetClear" /\ link \in issued
  BY LinkTypes DEF ResetClear, At, Invariant, Filled, Using
<1>2. users' = AfterClearResetToken(u) /\ spent' = spent \cup {link} /\ issued' = issued
  BY MayFailQuiet DEF ResetClear
<1>3. NoLinkGiven /\ NoneUsing
  BY <1>2, ColumnsQuiet, ReplyQuiet DEF ResetClear
<1>4. users'[u].reset = None
  <2> DEFINE row == [users[u] EXCEPT !.reset = None, !.expired = FALSE]
  <2>1. row.reset = None
    BY <1>1 DEF Invariant, TypeOK, Row
  <2>2. users' = Updated(u, row)
    BY <1>2 DEF AfterClearResetToken
  <2> HIDE DEF row
  <2>3. CASE u \in Live
    BY <1>1, <2>1, <2>2, <2>3 DEF Updated, Invariant, TypeOK
  <2>4. CASE u \notin Live
    BY <1>1, <2>2, <2>4 DEF Updated, Live, LinkInv
  <2> QED
    BY <2>3, <2>4
<1>5. \A v \in UserIds : users[v].reset = link => v = u
  BY <1>1 DEF LinkInv, Using
<1>6. \A v \in UserIds : users'[v].reset # None => users'[v].reset = users[v].reset
  BY <1>3 DEF NoLinkGiven
<1> HIDE DEF u, link
<1>7. \A v \in UserIds : users'[v].reset # None => users'[v].reset \in issued' \ spent'
  BY <1>2, <1>4, <1>5, <1>6 DEF LinkInv
<1>8. \A v, w \in UserIds :
        users'[v].reset # None /\ users'[v].reset = users'[w].reset => v = w
  BY <1>6 DEF LinkInv
<1>9. ASSUME NEW s \in Slots, req'[s].pc \in Using, NEW v \in UserIds,
             users'[v].reset = req'[s].link
      PROVE  v = req'[s].user
  <2>1. req[s].pc \in Using /\ req'[s].link = req[s].link /\ req'[s].user = req[s].user
    BY <1>3, <1>9 DEF NoneUsing
  <2>2. users'[v].reset # None
    BY <1>9, <2>1, LinkTypes
  <2> QED
    BY <1>6, <1>9, <2>1, <2>2 DEF LinkInv
<1>10. LinkInv'
  BY <1>3, <1>7, <1>8, <1>9 DEF LinkInv, NoLinkGiven
<1>11. LookupRefuses
  BY <1>3 DEF LookupRefuses, NoneUsing, Using, At
<1> QED
  BY <1>10, <1>11 DEF LinkStep
-----------------------------------------------------------------------------
(***************************************************************************)
(* The environment, and the theorem.                                       *)
(***************************************************************************)

LEMMA EnvironmentLinks ==
    ASSUME Invariant, LinkInv, Environment \/ Crash
    PROVE  LinkStep
<1>1. Idle.pc \notin Using
  BY DEF Idle, Using
<1>2. ASSUME NEW r \in Slots, Deliver(r) \/ Lose(r) PROVE LinkStep
  <2>1. req' = [req EXCEPT ![r] = Idle] /\ users' = users /\ UNCHANGED linkVars
    BY <1>2 DEF Deliver, Lose
  <2> QED
    BY <1>1, <2>1, RequestQuiet, SameLinks, QuietStep
<1>3. ASSUME NEW r \in Slots, DbError(r) \/ RateLimited(r) PROVE LinkStep
  <2>1. NoneUsing
    BY <1>3, ReplyQuiet DEF DbError, RateLimited
  <2> QED
    BY <1>3, <2>1, LookStep DEF DbError, RateLimited
<1>4. ASSUME NEW b \in Browsers, CookieExpires(b) PROVE LinkStep
  <2>1. req' = req /\ users' = users /\ UNCHANGED linkVars
    BY <1>4 DEF CookieExpires
  <2> QED
    BY <2>1, SameLinks, QuietStep DEF NoneUsing
<1>5. ASSUME NEW u \in Live, LockElapses(u) \/ LinkExpires(u), UNCHANGED <<req, linkVars>>
      PROVE  LinkStep
  <2>1. u \in UserIds /\ users[u] \in Row
    BY DEF Live, Invariant, TypeOK
  <2>2. NoLinkGiven
    BY <1>5, <2>1 DEF LockElapses, LinkExpires, NoLinkGiven, Row, LinkInv, Invariant, TypeOK
  <2> QED
    BY <1>5, <2>2, QuietStep DEF NoneUsing
<1>6. CASE Crash
  <2>1. req' = [r \in Slots |-> Idle] /\ users' = users /\ UNCHANGED linkVars
    BY <1>6 DEF Crash
  <2> QED
    BY <1>1, <2>1, SameLinks, QuietStep DEF NoneUsing
<1> QED
  BY <1>2, <1>3, <1>4, <1>5, <1>6 DEF Environment

LEMMA LinksKept ==
    ASSUME DbMayFail = FALSE, Invariant, LinkInv, [Next]_vars
    PROVE  LinkStep
<1>1. CASE UNCHANGED vars
  BY <1>1, SameLinks, QuietStep DEF vars, linkVars, NoneUsing
<1>2. CASE PasswordResetNext
  BY <1>2, ForgotSubmitLinks, ForgotLookupLinks, ForgotWriteLinks, ResetSubmitLinks,
     ResetLookupLinks, ResetWriteLinks, ResetClearLinks DEF PasswordResetNext
<1> QED
  BY <1>1, <1>2, LoginLinks, RegistrationLinks, SettingsLinks, EnvironmentLinks
  DEF Next, Serving

LEMMA InitLinks == Init => LinkInv
<1> SUFFICES ASSUME Init PROVE LinkInv
  OBVIOUS
<1>1. \A u \in UserIds : users[u].reset = None
  BY DEF Init, RequestsInit, UsersInit, NewRow, NoRow
<1>2. \A r \in Slots : req[r].pc \notin Using
  BY DEF Init, RequestsInit, Idle, Using
<1> QED
  BY <1>1, <1>2 DEF LinkInv

\* ResetPasswordSubmit accepts no link that was used and cleared, however often, by
\* whom and when, if no statement fails.
THEOREM SpentLinksAreRefused ==
    ASSUME DbMayFail = FALSE
    PROVE  Spec => SpentLinkRefused
<1>1. Invariant /\ LinkInv /\ [Next]_vars => LinkInv'
  BY LinksKept DEF LinkStep
<1>2. Spec => []LinkInv
  BY <1>1, InitLinks, InvariantHolds, PTL DEF Spec
<1>3. Invariant /\ LinkInv /\ [Next]_vars =>
        [\A r \in Slots :
           At(r, "resetLookup") /\ req'[r].pc = "resetWrite" => req[r].link \notin spent]_vars
  BY LinksKept DEF LinkStep, LookupRefuses
<1> QED
  BY <1>2, <1>3, InvariantHolds, PTL DEF Spec, SpentLinkRefused
=============================================================================
