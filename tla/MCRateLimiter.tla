--------------------------- MODULE MCRateLimiter ---------------------------
(***************************************************************************)
(* RateLimiter for TLC, with the recent admissions of each key as a        *)
(* history: those of the last WindowMs since its last Reset.               *)
(***************************************************************************)
EXTENDS RateLimiter, FiniteSets

\* Every entry of Configs has it, and SlidingBudget needs it: a block shorter than
\* its window would let a third budget start in the window of the first.
ASSUME BlockCoversWindow == WindowMs <= BlockMs

VARIABLE recent

mcvars == <<vars, recent>>

MCInit == Init /\ recent = [k \in Keys |-> {}]

SameInstant(S, t) == {e \in S : e.at = t}

\* One more admission, now: those of one instant are numbered.
Noted(S) == S \cup {[at |-> now, nth |-> Cardinality(SameInstant(S, now)) + 1]}

Admitted(k) == inflight'[k] > inflight[k]

\* A request returns and leaves no entry behind.
Forgiven(k) == attempts'[k] = NoAttempt /\ inflight'[k] < inflight[k]

Recent(S) == {e \in S : now' - e.at <= WindowMs}

\* recent follows the limiter: an admission is one more request under way.
Observe ==
    recent' = [k \in Keys |->
        IF Forgiven(k) THEN {}
        ELSE Recent(IF Admitted(k) THEN Noted(recent[k]) ELSE recent[k])]

MCNext == Next /\ Observe

MCSpec == MCInit /\ [][MCNext]_mcvars /\ Fairness

\* Whatever the interleaving of requests, clean-ups and expiries, a key that is
\* not forgiven is admitted at most twice MaxAttempts times in any WindowMs: the
\* fixed windows of Check and its blocks bound a sliding window too.
SlidingBudget == \A k \in Keys : Cardinality(recent[k]) <= 2 * MaxAttempts
=============================================================================
