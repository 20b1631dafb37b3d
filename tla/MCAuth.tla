------------------------------- MODULE MCAuth -------------------------------
(***************************************************************************)
(* Constants of Auth for TLC.                                              *)
(***************************************************************************)
EXTENDS Auth, TLC

CONSTANTS alice, Alice, bob, p1, p2

\* Slots and browsers are interchangeable: no definition of Auth tells them apart.
SlotsAndBrowsers == Permutations(Slots) \cup Permutations(Browsers)

\* Alice and alice are one address, typed in two ways.
MCLower(e) == IF e = Alice THEN alice ELSE e

\* Tables the first run of the server may have left.
NoInitialUsers == [u \in {} |-> 0]

OneAdmin == 1 :> [email |-> alice, password |-> p1, role |-> "ADMIN"]

AdminAndUser == OneAdmin @@ (2 :> [email |-> bob, password |-> p2, role |-> "USER"])
=============================================================================
