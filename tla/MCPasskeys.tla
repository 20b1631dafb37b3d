----------------------------- MODULE MCPasskeys -----------------------------
(***************************************************************************)
(* Constants of Passkeys for TLC.                                          *)
(***************************************************************************)
EXTENDS Passkeys, TLC

CONSTANTS alice, bob, p1, p2, k1

MCLower(e) == e

\* No definition tells slots, browsers, tabs or challenges apart.
Interchangeable == Permutations(Slots) \cup Permutations(Browsers)
                     \cup Permutations(Ceremonies) \cup Permutations(Challenges)

OneUser == 1 :> [email |-> alice, password |-> p1, role |-> "ADMIN"]

\* Both have one password: the run that uses them is about who is signed in.
AdminAndUser == OneUser @@ (2 :> [email |-> bob, password |-> p1, role |-> "USER"])

\* Passkeys of an earlier run.
KeyOfOneUser == k1 :> 1

NoKeys == [k \in {} |-> 1]
=============================================================================
