---------------------------- MODULE Registration ----------------------------
(***************************************************************************)
(* HandleRegister (internal/handlers/auth.go): three statements, of which  *)
(* the first two only look.  ALLOW_REGISTER is read by RegisterPage, which *)
(* shows the form, and by nothing that handles it.                         *)
(***************************************************************************)
EXTENDS Requests

RegisterSubmit(r, b, email, password) ==
    /\ "register" \in Ops
    /\ Send(r, b, "registerCount", [Idle EXCEPT !.email = email, !.password = password])

RegisterCount(r) ==
    /\ At(r, "registerCount")
    /\ Goto(r, "registerLookup", [req[r] EXCEPT !.email = Lower(req[r].email),
                                                !.first = NoUsers])
    /\ UNCHANGED <<users, browserVars, linkVars>>

RegisterLookup(r) ==
    /\ At(r, "registerLookup")
    /\ IF ByEmail(req[r].email) # {} THEN Reply(r, "taken")
       ELSE Goto(r, "registerInsert", req[r])
    /\ UNCHANGED <<users, browserVars, linkVars>>

NewRole(r) == IF req[r].first THEN "ADMIN" ELSE "USER"

\* The unique index on the blind index refuses a second row for an address.
RegisterInsert(r) ==
    /\ At(r, "registerInsert")
    /\ \/ /\ ByEmail(req[r].email) # {}
          /\ Reply(r, "serverError")
          /\ UNCHANGED users
       \/ /\ ByEmail(req[r].email) = {}
          /\ \E u \in UserIds :
               /\ users[u].state = "absent"
               /\ users' = AfterCreate(u, req[r].email, req[r].password, NewRole(r))
               /\ Respond(r, "home", [user |-> u, role |-> NewRole(r), version |-> 1,
                                      proof |-> req[r].password, via |-> "register"], None)
    /\ UNCHANGED <<browserVars, linkVars>>

RegistrationNext ==
    \/ \E r \in Slots, b \in Browsers, email \in Emails, password \in Passwords :
         RegisterSubmit(r, b, email, password)
    \/ \E r \in Slots : RegisterCount(r) \/ RegisterLookup(r) \/ RegisterInsert(r)
=============================================================================
