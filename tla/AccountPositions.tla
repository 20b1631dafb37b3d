-------------------------- MODULE AccountPositions --------------------------
(***************************************************************************)
(* What the order of a user's accounts promises: an account is added at a  *)
(* position, removed, or exchanges its position with another one, all at   *)
(* once.  Nothing else ever changes a position.                            *)
(***************************************************************************)
EXTENDS Integers

CONSTANT Accounts

VARIABLE position   \* the accounts that exist, with their positions

Exchanged(f, a, b) == [f EXCEPT ![a] = f[b], ![b] = f[a]]

Init == position = [a \in {} |-> 0]

Add(a) ==
    /\ a \notin DOMAIN position
    /\ DOMAIN position' = DOMAIN position \cup {a}
    /\ position' \in [DOMAIN position' -> Nat]
    /\ \A c \in DOMAIN position : position'[c] = position[c]

Remove(a) == position' = [c \in DOMAIN position \ {a} |-> position[c]]

Swap(a, b) ==
    /\ a \in DOMAIN position
    /\ b \in DOMAIN position
    /\ position' = Exchanged(position, a, b)

Next == \E a \in Accounts : \/ Add(a)
                            \/ Remove(a)
                            \/ \E b \in Accounts : Swap(a, b)

Spec == Init /\ [][Next]_position
=============================================================================
