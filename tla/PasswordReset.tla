---------------------------- MODULE PasswordReset ----------------------------
(***************************************************************************)
(* internal/handlers/password_reset.go: a link is generated, stored and    *)
(* mailed; whoever submits it replaces the password and clears the link.   *)
(* The errors of the three statements that write are ignored.              *)
(***************************************************************************)
EXTENDS Requests

ForgotSubmit(r, b, email) ==
    /\ "forgot" \in Ops
    /\ Send(r, b, "forgotLookup", [Idle EXCEPT !.email = Lower(email)])

\* The answer does not tell whether the address is known.
ForgotLookup(r) ==
    /\ At(r, "forgotLookup")
    /\ IF ByEmail(req[r].email) = {} THEN Reply(r, "mailSent")
       ELSE \E u \in ByEmail(req[r].email) :
              Goto(r, "forgotWrite", [req[r] EXCEPT !.user = u])
    /\ UNCHANGED <<users, browserVars, linkVars>>

\* The 32 random bytes of a link never repeat; the mail may not be delivered.
ForgotWrite(r) ==
    /\ At(r, "forgotWrite")
    /\ \E link \in Links \ issued :
         /\ MayFail(AfterSetResetToken(req[r].user, link))
         /\ issued' = issued \cup {link}
         /\ mailed' \in {mailed, mailed \cup {link}}
    /\ Reply(r, "mailSent")
    /\ UNCHANGED <<browserVars, spent>>

\* ResetPasswordPage shows the form or the expired page by the same query.
ResetSubmit(r, b, link, password) ==
    /\ "reset" \in Ops
    /\ link \in mailed
    /\ Send(r, b, "resetLookup", [Idle EXCEPT !.link = link, !.new = password])

ResetLookup(r) ==
    /\ At(r, "resetLookup")
    /\ IF ByResetToken(req[r].link) = {} THEN Reply(r, "linkExpired")
       ELSE \E u \in ByResetToken(req[r].link) :
              Goto(r, "resetWrite", [req[r] EXCEPT !.user = u])
    /\ UNCHANGED <<users, browserVars, linkVars>>

ResetWrite(r) ==
    /\ At(r, "resetWrite")
    /\ users[req[r].user].version < MaxVersion
    /\ MayFail(AfterPassword(req[r].user, req[r].new))
    /\ Goto(r, "resetClear", req[r])
    /\ UNCHANGED <<browserVars, linkVars>>

\* Mistake: only the expiry date is cleared.
ResetClearForgotten(r) ==
    /\ At(r, "resetClear")
    /\ spent' = spent \cup {req[r].link}
    /\ Reply(r, "resetDone")
    /\ UNCHANGED <<users, browserVars, issued, mailed>>

\* The link is cleared by user, whichever link it is by now.
ResetClear(r) ==
    /\ At(r, "resetClear")
    /\ MayFail(AfterClearResetToken(req[r].user))
    /\ spent' = spent \cup {req[r].link}
    /\ Reply(r, "resetDone")
    /\ UNCHANGED <<browserVars, issued, mailed>>

PasswordResetNext ==
    \/ \E r \in Slots, b \in Browsers :
         \/ \E email \in Emails : ForgotSubmit(r, b, email)
         \/ \E link \in Links, password \in Passwords : ResetSubmit(r, b, link, password)
    \/ \E r \in Slots :
         \/ ForgotLookup(r) \/ ForgotWrite(r)
         \/ ResetLookup(r) \/ ResetWrite(r) \/ ResetClear(r)
=============================================================================
