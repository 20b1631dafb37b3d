--------------------------- MODULE AttemptBudget ---------------------------
(***************************************************************************)
(* What internal/ratelimit promises to the handlers that call it, without  *)
(* its map of entries, its lazy expiry or its periodic clean-up.  A key    *)
(* has a budget of MaxAttempts admissions, opened by its first admission   *)
(* and forgotten more than WindowMs later.  A request beyond the budget    *)
(* blocks the key for BlockMs; when the block ends the budget is whole     *)
(* again.  Forgiving a key (a successful login) restores its budget.       *)
(***************************************************************************)
EXTENDS Integers

CONSTANTS Keys,         \* the identifiers (client addresses) that are limited
          MaxAttempts,  \* admissions per window
          WindowMs,     \* length of a window
          BlockMs       \* length of a block

VARIABLES now,          \* the clock
          budget        \* budget[k]: what key k has used, and its block

avars == <<now, budget>>

\* Nothing owed: no admission counted, no block.
Whole == [used |-> 0, since |-> 0, until |-> 0]

\* What is left of budget b at time t: a block or a window that is over counts
\* for nothing.
Lapse(b, t) ==
    IF b.until > 0
      THEN IF t >= b.until THEN Whole ELSE b
      ELSE IF t - b.since > WindowMs THEN Whole ELSE b

Init == /\ now \in Nat \ {0}
        /\ budget = [k \in Keys |-> Whole]

\* Time passes and budgets lapse by themselves.
Pass == /\ now' \in Nat
        /\ now' > now
        /\ budget' = [k \in Keys |-> Lapse(budget[k], now')]

\* A request within the budget is admitted and counted.
Admit(k) ==
    /\ budget[k].until = 0
    /\ budget[k].used < MaxAttempts
    /\ budget' = [budget EXCEPT ![k] =
                    [used  |-> budget[k].used + 1,
                     since |-> IF budget[k].used = 0 THEN now ELSE budget[k].since,
                     until |-> 0]]
    /\ UNCHANGED now

\* A request beyond the budget is refused and blocks the key.
Block(k) ==
    /\ budget[k].until = 0
    /\ budget[k].used = MaxAttempts
    /\ budget' = [budget EXCEPT ![k] =
                    [used |-> 0, since |-> 0, until |-> now + BlockMs]]
    /\ UNCHANGED now

\* The key is forgiven.
Forgive(k) ==
    /\ budget' = [budget EXCEPT ![k] = Whole]
    /\ UNCHANGED now

Next == \/ Pass
        \/ \E k \in Keys : Admit(k) \/ Block(k) \/ Forgive(k)

Spec == Init /\ [][Next]_avars
=============================================================================
