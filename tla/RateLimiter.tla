---------------------------- MODULE RateLimiter ----------------------------
(***************************************************************************)
(* internal/ratelimit/limiter.go: one Limiter, that is the entries of one  *)
(* action ("login", "register", ...).  Every operation holds limiter.mu    *)
(* and reads the wall clock under it, so each is one step.  An entry       *)
(* expires lazily, when the key is checked again, or in bulk when the      *)
(* clean-up goroutine meets it.                                            *)
(*                                                                         *)
(* The callers are the HTTP handlers.  HandleLogin calls Check before it   *)
(* does anything and Reset once the login has succeeded: between the two   *)
(* the request is in flight and other requests of the same address come    *)
(* and go.  told is a history variable: the end of the block of the last   *)
(* refusal (what RetryAfterMs told the client), 0 once it is admitted.     *)
(***************************************************************************)
EXTENDS Integers

CONSTANTS Keys,         \* identifiers of one action: client addresses
          MaxAttempts,  \* Config.MaxAttempts
          WindowMs,     \* Config.WindowMs
          BlockMs,      \* Config.BlockMs
          CleanupMs,    \* age at which cleanup deletes an entry (7200000)
          MaxNow,       \* bound: the last instant of a behaviour
          MaxInflight   \* bound: admitted requests of one key under way

\* What the five entries of Configs and the literal of cleanup satisfy.  The
\* last conjunct is an equality for register and forgotPassword.
ASSUME ConfigAssumption ==
    /\ MaxAttempts \in Nat \ {0}
    /\ WindowMs \in Nat \ {0}
    /\ BlockMs \in Nat \ {0}
    /\ CleanupMs \in Nat
    /\ WindowMs + BlockMs <= CleanupMs

ASSUME BoundAssumption == MaxNow \in Nat /\ MaxInflight \in Nat

VARIABLES now,       \* time.Now().UnixMilli()
          attempts,  \* limiter.attempts
          inflight,  \* admitted requests that have not returned
          told       \* history: end of the block last told to a client

vars == <<now, attempts, inflight, told>>

Attempt == [count : 0..(MaxAttempts + 1), firstTry : Nat, blockedAt : Nat]

\* The key is not in the map (an entry in it always counts one attempt).
NoAttempt == [count |-> 0, firstTry |-> 0, blockedAt |-> 0]

\* The clock never reads 0 (a zero blockedAt means "not blocked") and a count goes
\* at most one beyond MaxAttempts, by the attempt that blocks the key.
TypeOK ==
    /\ now \in 1..(MaxNow + 1)
    /\ attempts \in [Keys -> Attempt]
    /\ inflight \in [Keys -> 0..MaxInflight]
    /\ told \in [Keys -> Nat]

Init ==
    /\ now = 1
    /\ attempts = [k \in Keys |-> NoAttempt]
    /\ inflight = [k \in Keys |-> 0]
    /\ told = [k \in Keys |-> 0]
-----------------------------------------------------------------------------
Exists(k) == attempts[k] # NoAttempt

BlockEnd(a) == a.blockedAt + BlockMs

Blocked(a) == a.blockedAt > 0 /\ now < BlockEnd(a)

\* Mistake: lifting a block forgets att.count = 0.
UnblockKeepsCount(a) == [a EXCEPT !.firstTry = now, !.blockedAt = 0]

\* The entry once a block that is over has been lifted.
Unblock(a) ==
    IF a.blockedAt > 0 THEN [count |-> 0, firstTry |-> now, blockedAt |-> 0] ELSE a

WindowOver(a) == now - a.firstTry > WindowMs

\* Check answers Allowed: the handler goes on with the request.
Allow(k, a) ==
    /\ inflight[k] < MaxInflight
    /\ attempts' = [attempts EXCEPT ![k] = a]
    /\ inflight' = [inflight EXCEPT ![k] = inflight[k] + 1]
    /\ told' = [told EXCEPT ![k] = 0]
    /\ UNCHANGED now

\* Check answers not Allowed, with the time left until end.
Refuse(k, a, end) ==
    /\ attempts' = [attempts EXCEPT ![k] = a]
    /\ told' = [told EXCEPT ![k] = end]
    /\ UNCHANGED <<now, inflight>>

CheckFirst(k) ==
    /\ ~Exists(k)
    /\ Allow(k, [count |-> 1, firstTry |-> now, blockedAt |-> 0])

\* Mistake: attempts are counted before the block is looked at.
CheckBlockedCounts(k) ==
    /\ Exists(k)
    /\ Blocked(attempts[k])
    /\ Refuse(k, [attempts[k] EXCEPT !.count = attempts[k].count + 1], BlockEnd(attempts[k]))

\* Mistake: a refused retry starts the block again.
CheckBlockedRestarts(k) ==
    /\ Exists(k)
    /\ Blocked(attempts[k])
    /\ Refuse(k, [attempts[k] EXCEPT !.blockedAt = now], now + BlockMs)

CheckBlocked(k) ==
    /\ Exists(k)
    /\ Blocked(attempts[k])
    /\ Refuse(k, attempts[k], BlockEnd(attempts[k]))

\* Mistake: a new window keeps the start of the old one.
CheckNewWindowKeepsStart(k) ==
    /\ Exists(k)
    /\ ~Blocked(attempts[k])
    /\ WindowOver(Unblock(attempts[k]))
    /\ Allow(k, [Unblock(attempts[k]) EXCEPT !.count = 1])

CheckNewWindow(k) ==
    /\ Exists(k)
    /\ ~Blocked(attempts[k])
    /\ WindowOver(Unblock(attempts[k]))
    /\ Allow(k, [Unblock(attempts[k]) EXCEPT !.count = 1, !.firstTry = now])

\* The attempt falls in the current window and is counted.
CheckCounted(k) ==
    LET a == Unblock(attempts[k]) IN
    /\ Exists(k)
    /\ ~Blocked(attempts[k])
    /\ ~WindowOver(a)
    /\ IF a.count + 1 > MaxAttempts
         THEN Refuse(k, [a EXCEPT !.count = a.count + 1, !.blockedAt = now], now + BlockMs)
         ELSE Allow(k, [a EXCEPT !.count = a.count + 1])

Check(k) == CheckFirst(k) \/ CheckBlocked(k) \/ CheckNewWindow(k) \/ CheckCounted(k)

\* A login succeeds: HandleLogin resets the counter of its address.
Reset(k) ==
    /\ inflight[k] > 0
    /\ attempts' = [attempts EXCEPT ![k] = NoAttempt]
    /\ inflight' = [inflight EXCEPT ![k] = inflight[k] - 1]
    /\ UNCHANGED <<now, told>>

\* An admitted request returns without a Reset.
Return(k) ==
    /\ inflight[k] > 0
    /\ inflight' = [inflight EXCEPT ![k] = inflight[k] - 1]
    /\ UNCHANGED <<now, attempts, told>>

\* Mistake: an entry is deleted as soon as its window is over.
CleanupEarly ==
    /\ attempts' = [k \in Keys |-> IF now - attempts[k].firstTry > WindowMs
                                     THEN NoAttempt ELSE attempts[k]]
    /\ UNCHANGED <<now, inflight, told>>

\* The ticker of getLimiter's goroutine fires; it may fire at any time.
Cleanup ==
    /\ attempts' = [k \in Keys |-> IF now - attempts[k].firstTry > CleanupMs
                                     THEN NoAttempt ELSE attempts[k]]
    /\ UNCHANGED <<now, inflight, told>>

Tick == /\ now <= MaxNow
        /\ now' = now + 1
        /\ UNCHANGED <<attempts, inflight, told>>

\* The wall clock is set back (UnixMilli is not the monotonic clock).
StepBack == /\ now' \in 1..(now - 1)
            /\ UNCHANGED <<attempts, inflight, told>>

Next == \/ Tick
        \/ Cleanup
        \/ \E k \in Keys : Check(k) \/ Reset(k) \/ Return(k)

\* Clients keep asking, handlers return, time passes.
Fairness == /\ WF_vars(Tick)
            /\ \A k \in Keys : WF_vars(Check(k)) /\ WF_vars(Reset(k) \/ Return(k))

Spec == Init /\ [][Next]_vars

FairSpec == Spec /\ Fairness

\* The same program on a host whose clock may be set back.
SteppingSpec == Init /\ [][Next \/ StepBack]_vars
-----------------------------------------------------------------------------
(***************************************************************************)
(* Properties.                                                             *)
(***************************************************************************)

\* The bulk clean-up never lifts a block that is still running.  It looks only
\* at firstTry, the block runs from blockedAt, up to WindowMs later: the two
\* durations of each entry of Configs must fit in the literal of cleanup.
CleanupSparesBlocks ==
    [][Cleanup => \A k \in Keys : Blocked(attempts[k]) => attempts'[k] = attempts[k]]_vars

\* A client refused until some instant is told that instant whenever it asks
\* again before it, and is admitted when it asks after it: retrying neither
\* prolongs a block nor meets a second one.
RetryAfterHonoured ==
    [][\A k \in Keys : told[k] > 0 => told'[k] \in {0, told[k]}]_vars

\* A client that keeps asking is admitted again (if its block ends before the
\* clock of the model does).
RetriedKeyIsAdmitted ==
    \A k \in Keys : (told[k] > 0 /\ told[k] <= MaxNow) ~> (told[k] = 0)

\* The entries of the map, read as budgets: a block or a window that is over
\* counts for nothing although its entry is still there.
Budget(a) ==
    IF a.count = 0 THEN [used |-> 0, since |-> 0, until |-> 0]
    ELSE IF a.blockedAt > 0
      THEN [used |-> 0, since |-> 0, until |-> IF Blocked(a) THEN BlockEnd(a) ELSE 0]
    ELSE IF WindowOver(a) THEN [used |-> 0, since |-> 0, until |-> 0]
    ELSE [used |-> a.count, since |-> a.firstTry, until |-> 0]

Abstract == INSTANCE AttemptBudget WITH budget <- [k \in Keys |-> Budget(attempts[k])]

\* The limiter implements the abstract budget: lazy expiry, the order of the
\* tests of Check and the clean-up cannot be told from budgets that lapse on time.
ImplementsBudget == Abstract!Spec
=============================================================================
