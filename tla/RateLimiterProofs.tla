-------------------------- MODULE RateLimiterProofs --------------------------
(***************************************************************************)
(* Proofs about RateLimiter, for every set of keys, every configuration    *)
(* that satisfies ConfigAssumption and every bound.  The safety theorems   *)
(* are about SteppingSpec, whose clock may be set back; the refinement     *)
(* needs a clock that only advances.                                       *)
(***************************************************************************)
EXTENDS RateLimiter, TLAPS

\* What an entry of the map always satisfies.
EntryInv(a) ==
    /\ a.count = 0 => a = NoAttempt
    /\ a.blockedAt = 0 => a.count <= MaxAttempts
    /\ a.blockedAt > 0 => a.blockedAt - a.firstTry <= WindowMs

\* A client waits for an instant only while the block that ends at it is in the
\* map, or once the entry has gone.
ToldInv(k) ==
    told[k] > 0 => \/ attempts[k] = NoAttempt
                   \/ /\ attempts[k].blockedAt > 0
                      /\ told[k] = BlockEnd(attempts[k])

IInv == /\ TypeOK
        /\ \A k \in Keys : EntryInv(attempts[k])
        /\ \A k \in Keys : ToldInv(k)
-----------------------------------------------------------------------------
\* Every kind of check leaves the other keys alone and turns the entry of its
\* key into one that satisfies EntryInv, whatever the clock reads.
LEMMA AllowKeepsIInv ==
    ASSUME IInv, NEW k \in Keys, NEW a \in Attempt, Allow(k, a),
           a.count > 0, a.count <= MaxAttempts, a.blockedAt = 0
    PROVE  IInv'
<1> USE ConfigAssumption, BoundAssumption
<1>1. TypeOK'
  BY DEF IInv, TypeOK, Allow
<1>2. \A j \in Keys : EntryInv(attempts[j])'
  <2>1. attempts'[k] = a /\ \A j \in Keys \ {k} : attempts'[j] = attempts[j]
    BY DEF IInv, TypeOK, Allow
  <2>2. EntryInv(a)
    BY DEF EntryInv, NoAttempt
  <2> QED
    BY <2>1, <2>2 DEF IInv, EntryInv
<1>3. \A j \in Keys : ToldInv(j)'
  <2>1. told'[k] = 0 /\ \A j \in Keys \ {k} : told'[j] = told[j] /\ attempts'[j] = attempts[j]
    BY DEF IInv, TypeOK, Allow
  <2> QED
    BY <2>1 DEF IInv, ToldInv, BlockEnd
<1> QED
  BY <1>1, <1>2, <1>3 DEF IInv

LEMMA RefuseKeepsIInv ==
    ASSUME IInv, NEW k \in Keys, NEW a \in Attempt, NEW end, Refuse(k, a, end),
           a.count > 0, a.blockedAt > 0, a.blockedAt - a.firstTry <= WindowMs,
           end = BlockEnd(a)
    PROVE  IInv'
<1> USE ConfigAssumption, BoundAssumption
<1>1. TypeOK'
  BY DEF IInv, TypeOK, Refuse, BlockEnd, Attempt
<1>2. \A j \in Keys : EntryInv(attempts[j])'
  <2>1. attempts'[k] = a /\ \A j \in Keys \ {k} : attempts'[j] = attempts[j]
    BY DEF IInv, TypeOK, Refuse
  <2>2. EntryInv(a)
    BY DEF EntryInv
  <2> QED
    BY <2>1, <2>2 DEF IInv, EntryInv
<1>3. \A j \in Keys : ToldInv(j)'
  <2>1. /\ told'[k] = end /\ attempts'[k] = a
        /\ \A j \in Keys \ {k} : told'[j] = told[j] /\ attempts'[j] = attempts[j]
    BY DEF IInv, TypeOK, Refuse
  <2> QED
    BY <2>1 DEF IInv, ToldInv, BlockEnd
<1> QED
  BY <1>1, <1>2, <1>3 DEF IInv

\* Deleting entries keeps the invariant: no promise is attached to an absent key.
LEMMA DeleteKeepsEntries ==
    ASSUME IInv, attempts' \in [Keys -> Attempt], told' = told,
           \A k \in Keys : attempts'[k] \in {attempts[k], NoAttempt}
    PROVE  /\ \A k \in Keys : EntryInv(attempts[k])'
           /\ \A k \in Keys : ToldInv(k)'
<1>1. EntryInv(NoAttempt)
  BY ConfigAssumption DEF EntryInv, NoAttempt
<1>2. \A k \in Keys : EntryInv(attempts[k])'
  BY <1>1 DEF IInv, EntryInv
<1>3. \A k \in Keys : ToldInv(k)'
  BY DEF IInv, ToldInv, BlockEnd
<1> QED
  BY <1>2, <1>3
-----------------------------------------------------------------------------
\* The entry that Check works on once it has lifted a block that is over.
LEMMA UnblockedEntry ==
    ASSUME IInv, NEW k \in Keys, Exists(k), ~Blocked(attempts[k])
    PROVE  LET a == Unblock(attempts[k]) IN
           /\ a \in Attempt
           /\ a.blockedAt = 0
           /\ a.count <= MaxAttempts
           /\ attempts[k].blockedAt > 0 => a.count = 0 /\ ~WindowOver(a)
<1> USE ConfigAssumption, BoundAssumption
<1>1. attempts[k] \in Attempt /\ now \in Nat /\ EntryInv(attempts[k])
  BY DEF IInv, TypeOK
<1>2. CASE attempts[k].blockedAt > 0
  BY <1>1, <1>2 DEF Unblock, Attempt, WindowOver
<1>3. CASE attempts[k].blockedAt = 0
  BY <1>1, <1>3 DEF Unblock, Attempt, EntryInv
<1> QED
  BY <1>1, <1>2, <1>3 DEF Attempt

\* What the record updates of Check make of an entry that is not blocked.
LEMMA NewWindowEntry ==
    ASSUME NEW u \in Attempt, NEW t \in Nat, u.blockedAt = 0,
           NEW a, a = [u EXCEPT !.count = 1, !.firstTry = t]
    PROVE  a \in Attempt /\ a.count = 1 /\ a.blockedAt = 0
<1>1. a.count = 1 /\ a.blockedAt = 0
  BY DEF Attempt
<1>2. ASSUME NEW n \in 0..(MaxAttempts + 1)
      PROVE  [u EXCEPT !.count = n, !.firstTry = t] \in Attempt
  BY DEF Attempt
<1>3. 1 \in 0..(MaxAttempts + 1)
  BY ConfigAssumption
<1> QED
  BY <1>1, <1>2, <1>3

LEMMA BlockedEntry ==
    ASSUME NEW u \in Attempt, NEW t \in Nat, u.count <= MaxAttempts,
           NEW b, b = [u EXCEPT !.count = u.count + 1, !.blockedAt = t]
    PROVE  b \in Attempt /\ b.count > 0 /\ b.blockedAt = t /\ b.firstTry = u.firstTry
<1>1. b.count > 0 /\ b.blockedAt = t /\ b.firstTry = u.firstTry
  BY DEF Attempt
<1>2. ASSUME NEW n \in 0..(MaxAttempts + 1)
      PROVE  [u EXCEPT !.count = n, !.blockedAt = t] \in Attempt
  BY DEF Attempt
<1>3. u.count + 1 \in 0..(MaxAttempts + 1)
  BY ConfigAssumption DEF Attempt
<1> QED
  BY <1>1, <1>2, <1>3

LEMMA CountedEntry ==
    ASSUME NEW u \in Attempt, u.count <= MaxAttempts, u.blockedAt = 0,
           NEW c, c = [u EXCEPT !.count = u.count + 1]
    PROVE  c \in Attempt /\ c.count = u.count + 1 /\ c.count > 0 /\ c.blockedAt = 0
  BY ConfigAssumption DEF Attempt

LEMMA CheckKeepsIInv ==
    ASSUME IInv, NEW k \in Keys, Check(k)
    PROVE  IInv'
<1> USE ConfigAssumption, BoundAssumption
<1>t. now \in Nat \ {0} /\ attempts[k] \in Attempt
  BY DEF IInv, TypeOK
<1>1. CASE CheckFirst(k)
  <2> DEFINE a == [count |-> 1, firstTry |-> now, blockedAt |-> 0]
  <2>1. a \in Attempt /\ a.count > 0 /\ a.count <= MaxAttempts /\ a.blockedAt = 0
    BY <1>t DEF Attempt
  <2>2. Allow(k, a)
    BY <1>1 DEF CheckFirst
  <2> HIDE DEF a
  <2> QED
    BY <2>1, <2>2, AllowKeepsIInv
<1>2. CASE CheckBlocked(k)
  <2>1. /\ attempts[k].count > 0
        /\ attempts[k].blockedAt > 0
        /\ attempts[k].blockedAt - attempts[k].firstTry <= WindowMs
    BY <1>2, <1>t DEF CheckBlocked, Exists, Blocked, IInv, EntryInv, Attempt
  <2>2. Refuse(k, attempts[k], BlockEnd(attempts[k]))
    BY <1>2 DEF CheckBlocked
  <2> QED
    BY <1>t, <2>1, <2>2, RefuseKeepsIInv
<1>3. CASE CheckNewWindow(k)
  <2> DEFINE u == Unblock(attempts[k])
             a == [u EXCEPT !.count = 1, !.firstTry = now]
  <2>1. u \in Attempt /\ u.blockedAt = 0
    BY <1>3, UnblockedEntry DEF CheckNewWindow
  <2>2. Allow(k, a)
    BY <1>3 DEF CheckNewWindow
  <2>3. a \in Attempt /\ a.count = 1 /\ a.blockedAt = 0
    <3> HIDE DEF u
    <3> QED
      BY <1>t, <2>1, NewWindowEntry
  <2> HIDE DEF a
  <2> QED
    BY <2>2, <2>3, AllowKeepsIInv
<1>4. CASE CheckCounted(k)
  <2> DEFINE u == Unblock(attempts[k])
             b == [u EXCEPT !.count = u.count + 1, !.blockedAt = now]
             c == [u EXCEPT !.count = u.count + 1]
  <2>1. u \in Attempt /\ u.count <= MaxAttempts /\ u.blockedAt = 0 /\ now - u.firstTry <= WindowMs
    BY <1>4, <1>t, UnblockedEntry DEF CheckCounted, WindowOver, Attempt
  <2>2. /\ u.count + 1 > MaxAttempts => Refuse(k, b, now + BlockMs)
        /\ ~(u.count + 1 > MaxAttempts) => Allow(k, c)
    BY <1>4 DEF CheckCounted
  <2>3. /\ b \in Attempt /\ b.count > 0 /\ b.blockedAt = now /\ b.firstTry = u.firstTry
        /\ c \in Attempt /\ c.count = u.count + 1 /\ c.count > 0 /\ c.blockedAt = 0
    <3> HIDE DEF u
    <3>1. b \in Attempt /\ b.count > 0 /\ b.blockedAt = now /\ b.firstTry = u.firstTry
      BY <1>t, <2>1, BlockedEntry
    <3>2. c \in Attempt /\ c.count = u.count + 1 /\ c.count > 0 /\ c.blockedAt = 0
      BY <2>1, CountedEntry
    <3> HIDE DEF b, c
    <3> QED
      BY <3>1, <3>2
  <2>4. u.count \in Nat
    BY <2>1 DEF Attempt
  <2> HIDE DEF b, c, u
  <2>5. CASE u.count + 1 > MaxAttempts
    <3>1. Refuse(k, b, now + BlockMs) /\ now + BlockMs = BlockEnd(b)
      BY <2>2, <2>3, <2>5 DEF BlockEnd
    <3>2. b.blockedAt > 0 /\ b.blockedAt - b.firstTry <= WindowMs
      BY <1>t, <2>1, <2>3
    <3> QED
      BY <2>3, <3>1, <3>2, RefuseKeepsIInv
  <2>6. CASE ~(u.count + 1 > MaxAttempts)
    <3>1. Allow(k, c) /\ c.count <= MaxAttempts
      BY <2>2, <2>3, <2>4, <2>6
    <3> QED
      BY <2>3, <3>1, AllowKeepsIInv
  <2> QED
    BY <2>5, <2>6
<1> QED
  BY <1>1, <1>2, <1>3, <1>4 DEF Check

LEMMA InitIInv == Init => IInv
  BY ConfigAssumption, BoundAssumption
     DEF Init, IInv, TypeOK, EntryInv, ToldInv, NoAttempt, Attempt

LEMMA StepIInv == IInv /\ [Next \/ StepBack]_vars => IInv'
<1> SUFFICES ASSUME IInv, [Next \/ StepBack]_vars
             PROVE  IInv'
  OBVIOUS
<1> USE ConfigAssumption, BoundAssumption
<1>1. CASE Tick
  BY <1>1 DEF IInv, TypeOK, EntryInv, ToldInv, BlockEnd, Tick
<1>2. CASE StepBack
  BY <1>2 DEF IInv, TypeOK, EntryInv, ToldInv, BlockEnd, StepBack
<1>3. CASE Cleanup
  <2>1. attempts' \in [Keys -> Attempt]
    BY <1>3 DEF IInv, TypeOK, Cleanup, NoAttempt, Attempt
  <2>2. \A k \in Keys : attempts'[k] \in {attempts[k], NoAttempt}
    BY <1>3 DEF Cleanup
  <2>3. TypeOK'
    BY <1>3, <2>1 DEF IInv, TypeOK, Cleanup
  <2> QED
    BY <1>3, <2>1, <2>2, <2>3, DeleteKeepsEntries DEF IInv, Cleanup
<1>4. ASSUME NEW k \in Keys, Check(k)
      PROVE  IInv'
  BY <1>4, CheckKeepsIInv
<1>5. ASSUME NEW k \in Keys, Reset(k)
      PROVE  IInv'
  <2>1. attempts' \in [Keys -> Attempt] /\ inflight' \in [Keys -> 0..MaxInflight]
    BY <1>5 DEF IInv, TypeOK, Reset, NoAttempt, Attempt
  <2>2. \A j \in Keys : attempts'[j] \in {attempts[j], NoAttempt}
    BY <1>5 DEF Reset, IInv, TypeOK
  <2>3. TypeOK'
    BY <1>5, <2>1 DEF IInv, TypeOK, Reset
  <2> QED
    BY <1>5, <2>1, <2>2, <2>3, DeleteKeepsEntries DEF IInv, Reset
<1>6. ASSUME NEW k \in Keys, Return(k)
      PROVE  IInv'
  BY <1>6 DEF IInv, TypeOK, EntryInv, ToldInv, BlockEnd, Return
<1>7. CASE UNCHANGED vars
  BY <1>7 DEF IInv, TypeOK, EntryInv, ToldInv, BlockEnd, vars
<1> QED
  BY <1>1, <1>2, <1>3, <1>4, <1>5, <1>6, <1>7 DEF Next

\* The invariant holds of the limiter on any host.
THEOREM SteppingInvariant == SteppingSpec => []IInv
  BY InitIInv, StepIInv, PTL DEF SteppingSpec

\* The clock, the entries, the requests under way and the promises keep their
\* types in every behaviour of the limiter.
THEOREM TypeCorrect == SteppingSpec => []TypeOK
  BY SteppingInvariant, PTL DEF IInv
-----------------------------------------------------------------------------
\* The clean-up of getLimiter never deletes an entry whose block is running.
THEOREM CleanupSparesRunningBlocks == SteppingSpec => CleanupSparesBlocks
<1>1. ASSUME IInv, Cleanup, NEW k \in Keys, Blocked(attempts[k])
      PROVE  attempts'[k] = attempts[k]
  <2>1. /\ attempts[k] \in Attempt /\ now \in Nat
        /\ attempts[k].blockedAt - attempts[k].firstTry <= WindowMs
        /\ now < attempts[k].blockedAt + BlockMs
    BY <1>1 DEF IInv, TypeOK, EntryInv, Blocked, BlockEnd
  <2>2. ~(now - attempts[k].firstTry > CleanupMs)
    BY <2>1, ConfigAssumption DEF Attempt
  <2> QED
    BY <1>1, <2>2 DEF Cleanup
<1>2. IInv => (Cleanup => \A k \in Keys : Blocked(attempts[k]) => attempts'[k] = attempts[k])
  BY <1>1
<1> QED
  BY <1>2, SteppingInvariant, PTL DEF CleanupSparesBlocks, SteppingSpec

\* The instant that a refusal announces is kept: until a client is admitted it is
\* never told another one.
THEOREM RetryAfterIsHonoured == SteppingSpec => RetryAfterHonoured
<1>1. ASSUME IInv, [Next \/ StepBack]_vars, NEW k \in Keys, told[k] > 0
      PROVE  told'[k] \in {0, told[k]}
  <2> USE ConfigAssumption, <1>1
  <2>1. ToldInv(k) /\ attempts[k] \in Attempt /\ told \in [Keys -> Nat] /\ now \in Nat
    BY DEF IInv, TypeOK
  <2>2. ASSUME NEW j \in Keys, Check(j), j # k
        PROVE  told'[k] = told[k]
    BY <2>1, <2>2 DEF Check, CheckFirst, CheckBlocked, CheckNewWindow, CheckCounted,
                      Allow, Refuse
  <2>3. CASE CheckFirst(k)
    BY <2>1, <2>3 DEF CheckFirst, Allow
  <2>4. CASE CheckBlocked(k)
    BY <2>1, <2>4 DEF CheckBlocked, Exists, Refuse, ToldInv
  <2>5. CASE CheckNewWindow(k)
    BY <2>1, <2>5 DEF CheckNewWindow, Allow
  <2>6. CASE CheckCounted(k)
    <3>1. Unblock(attempts[k]).count = 0
      BY <2>1, <2>6, UnblockedEntry DEF CheckCounted, Exists, ToldInv
    <3>2. ~(Unblock(attempts[k]).count + 1 > MaxAttempts)
      BY <3>1
    <3> QED
      BY <2>1, <2>6, <3>2 DEF CheckCounted, Allow
  <2>7. CASE Tick \/ Cleanup \/ StepBack \/ (\E j \in Keys : Reset(j) \/ Return(j)) \/ UNCHANGED vars
    BY <2>7 DEF Tick, Cleanup, StepBack, Reset, Return, vars
  <2> QED
    BY <2>2, <2>3, <2>4, <2>5, <2>6, <2>7 DEF Next, Check
<1>2. IInv /\ [Next \/ StepBack]_vars =>
        [\A k \in Keys : told[k] > 0 => told'[k] \in {0, told[k]}]_vars
  BY <1>1
<1> QED
  BY <1>2, SteppingInvariant, PTL DEF RetryAfterHonoured, SteppingSpec
-----------------------------------------------------------------------------
(***************************************************************************)
(* The refinement.  An entry means the budget it still limits (Budget of   *)
(* RateLimiter); the lemmas say what each test of Check sees of it.        *)
(***************************************************************************)

BudgetMap == [k \in Keys |-> Budget(attempts[k])]

\* A check that finds no running block and no running window sees a whole budget;
\* one that counts in a window sees the attempts of that window.
LEMMA BudgetSeen ==
    ASSUME IInv, NEW k \in Keys, ~Blocked(attempts[k])
    PROVE  /\ \/ ~Exists(k)
              \/ WindowOver(Unblock(attempts[k]))
              \/ attempts[k].blockedAt > 0
              => Budget(attempts[k]) = Abstract!Whole
           /\ Exists(k) /\ attempts[k].blockedAt = 0 /\ ~WindowOver(attempts[k])
              => Budget(attempts[k]) =
                   [used |-> attempts[k].count, since |-> attempts[k].firstTry, until |-> 0]
<1>1. /\ attempts[k] \in Attempt /\ EntryInv(attempts[k])
      /\ now \in Nat /\ WindowMs \in Nat
  BY ConfigAssumption DEF IInv, TypeOK
<1>2. Exists(k) => attempts[k].count > 0
  BY <1>1 DEF Exists, EntryInv, Attempt
<1>3. ~Exists(k) => Budget(attempts[k]) = Abstract!Whole
  BY DEF Exists, NoAttempt, Budget, Abstract!Whole
<1>4. attempts[k].blockedAt > 0 => Budget(attempts[k]) = Abstract!Whole
  BY DEF Budget, Abstract!Whole
<1>5. ASSUME Exists(k), ~(attempts[k].blockedAt > 0), WindowOver(Unblock(attempts[k]))
      PROVE  Budget(attempts[k]) = Abstract!Whole
  BY <1>5, <1>2 DEF Unblock, Budget, Abstract!Whole
<1>6. ASSUME Exists(k), attempts[k].blockedAt = 0, ~WindowOver(attempts[k])
      PROVE  Budget(attempts[k]) =
               [used |-> attempts[k].count, since |-> attempts[k].firstTry, until |-> 0]
  BY <1>6, <1>1, <1>2 DEF Budget, Attempt
<1> QED
  BY <1>3, <1>4, <1>5, <1>6

\* Time passes for the entry exactly as for its budget.
LEMMA BudgetLapses ==
    ASSUME IInv, Tick, NEW k \in Keys
    PROVE  Budget(attempts[k])' = Abstract!Lapse(Budget(attempts[k]), now')
<1>1. /\ attempts[k] \in Attempt /\ attempts'[k] = attempts[k]
      /\ now \in Nat /\ now' = now + 1
      /\ WindowMs \in Nat /\ BlockMs \in Nat \ {0}
  BY ConfigAssumption DEF IInv, TypeOK, Tick
<1> DEFINE a == attempts[k]
<1>2. CASE a.count = 0
  BY <1>1, <1>2 DEF Budget, Abstract!Lapse, Abstract!Whole
<1>3. CASE a.count # 0 /\ a.blockedAt > 0
  BY <1>1, <1>3 DEF Budget, Blocked, BlockEnd, Abstract!Lapse, Abstract!Whole, Attempt
<1>4. CASE a.count # 0 /\ ~(a.blockedAt > 0)
  BY <1>1, <1>4 DEF Budget, WindowOver, Abstract!Lapse, Abstract!Whole, Attempt
<1> QED
  BY <1>2, <1>3, <1>4

\* An operation on one key changes the budget of that key only.
LEMMA BudgetUpdate ==
    ASSUME IInv, NEW k \in Keys, NEW a, UNCHANGED now,
           attempts' = [attempts EXCEPT ![k] = a]
    PROVE  BudgetMap' = [BudgetMap EXCEPT ![k] = Budget(a)]
  BY DEF IInv, TypeOK, BudgetMap, Budget, Blocked, BlockEnd, WindowOver

LEMMA NewEntryBudget ==
    ASSUME IInv
    PROVE  /\ Budget([count |-> 1, firstTry |-> now, blockedAt |-> 0]) =
                [used |-> 1, since |-> now, until |-> 0]
           /\ Budget(NoAttempt) = Abstract!Whole
  BY ConfigAssumption
     DEF IInv, TypeOK, Budget, NoAttempt, WindowOver, Abstract!Whole

\* A step of the abstract limiter, written on the mapped state.
AbstractStep == [Abstract!Next]_(Abstract!avars)

LEMMA AdmitRefined ==
    ASSUME IInv, NEW k \in Keys, NEW a, Allow(k, a),
           NEW n \in Nat, NEW t,
           n < MaxAttempts,
           Budget(attempts[k]) = [used |-> n, since |-> t, until |-> 0],
           Budget(a) = [used |-> n + 1, since |-> IF n = 0 THEN now ELSE t, until |-> 0]
    PROVE  Abstract!Admit(k)
<1>1. BudgetMap' = [BudgetMap EXCEPT ![k] = Budget(a)]
  BY BudgetUpdate DEF Allow
<1>2. BudgetMap[k].used = n /\ BudgetMap[k].since = t /\ BudgetMap[k].until = 0
  BY DEF BudgetMap
<1>3. Budget(a) = [used  |-> BudgetMap[k].used + 1,
                   since |-> IF BudgetMap[k].used = 0 THEN now ELSE BudgetMap[k].since,
                   until |-> 0]
  BY <1>2
<1>4. now' = now
  BY DEF Allow
<1> QED
  BY <1>1, <1>2, <1>3, <1>4 DEF Abstract!Admit, BudgetMap

LEMMA CheckRefined ==
    ASSUME IInv, NEW k \in Keys, Check(k)
    PROVE  Abstract!Admit(k) \/ Abstract!Block(k) \/ UNCHANGED Abstract!avars
<1> USE ConfigAssumption
<1>t. now \in Nat \ {0} /\ attempts[k] \in Attempt /\ EntryInv(attempts[k])
  BY DEF IInv, TypeOK
<1> DEFINE u == Unblock(attempts[k])
           fresh == [count |-> 1, firstTry |-> now, blockedAt |-> 0]
<1>f. ASSUME Allow(k, fresh), Budget(attempts[k]) = Abstract!Whole
      PROVE  Abstract!Admit(k)
  BY <1>f, AdmitRefined, NewEntryBudget DEF Abstract!Whole
<1>1. CASE CheckFirst(k)
  <2>1. ~Blocked(attempts[k])
    BY <1>1 DEF CheckFirst, Exists, NoAttempt, Blocked
  <2> QED
    BY <1>1, <1>f, <2>1, BudgetSeen DEF CheckFirst
<1>2. CASE CheckBlocked(k)
  <2>1. attempts' = attempts /\ now' = now
    BY <1>2 DEF CheckBlocked, Refuse, IInv, TypeOK
  <2> QED
    BY <2>1 DEF Abstract!avars, Budget, Blocked, BlockEnd, WindowOver
<1>3. CASE CheckNewWindow(k)
  <2>1. u \in Attempt /\ u.blockedAt = 0
    BY <1>3, UnblockedEntry DEF CheckNewWindow
  <2>2. Allow(k, [u EXCEPT !.count = 1, !.firstTry = now])
    BY <1>3 DEF CheckNewWindow
  <2>3. [u EXCEPT !.count = 1, !.firstTry = now] = fresh
    <3> HIDE DEF u
    <3>1. ASSUME NEW a, a = [u EXCEPT !.count = 1, !.firstTry = now]
          PROVE  a = fresh
      BY <2>1, <3>1, <1>t DEF Attempt
    <3> QED
      BY <3>1
  <2> QED
    BY <1>3, <1>f, <2>2, <2>3, BudgetSeen DEF CheckNewWindow
<1>4. CASE CheckCounted(k)
  <2> DEFINE b == [u EXCEPT !.count = u.count + 1, !.blockedAt = now]
             c == [u EXCEPT !.count = u.count + 1]
  <2>1. u \in Attempt /\ u.count <= MaxAttempts /\ u.blockedAt = 0
    BY <1>4, UnblockedEntry DEF CheckCounted
  <2>2. /\ u.count + 1 > MaxAttempts => Refuse(k, b, now + BlockMs)
        /\ ~(u.count + 1 > MaxAttempts) => Allow(k, c)
        /\ ~WindowOver(u)
    BY <1>4 DEF CheckCounted
  <2>3. /\ b \in Attempt /\ b.count > 0 /\ b.blockedAt = now
        /\ c \in Attempt /\ c.count = u.count + 1 /\ c.blockedAt = 0
        /\ c.firstTry = u.firstTry
    <3> HIDE DEF u
    <3>1. b \in Attempt /\ b.count > 0 /\ b.blockedAt = now /\ b.firstTry = u.firstTry
      BY <1>t, <2>1, BlockedEntry
    <3>2. c \in Attempt /\ c.count = u.count + 1 /\ c.blockedAt = 0
      BY <2>1, CountedEntry
    <3>3. c.firstTry = u.firstTry
      BY <2>1 DEF Attempt
    <3> HIDE DEF b, c
    <3> QED
      BY <3>1, <3>2, <3>3
  <2>4. /\ u.count \in Nat /\ u.firstTry \in Nat
        /\ Budget(attempts[k]) =
             [used |-> u.count, since |-> IF u.count = 0 THEN 0 ELSE u.firstTry, until |-> 0]
        /\ u.count = 0 => u.firstTry = now
        /\ u.count <= MaxAttempts
    <3>1. CASE attempts[k].blockedAt > 0
      <4>1. u.count = 0 /\ u.firstTry = now
        BY <3>1 DEF Unblock
      <4>2. Budget(attempts[k]) = [used |-> 0, since |-> 0, until |-> 0]
        BY <1>4, <3>1, BudgetSeen DEF CheckCounted, Abstract!Whole
      <4> HIDE DEF u
      <4>3. Budget(attempts[k]) =
              [used |-> u.count, since |-> IF u.count = 0 THEN 0 ELSE u.firstTry, until |-> 0]
        BY <4>1, <4>2
      <4> QED
        BY <1>t, <4>1, <4>3
    <3>2. CASE attempts[k].blockedAt = 0
      <4>1. u = attempts[k] /\ attempts[k].count # 0
        BY <1>4, <1>t, <3>2 DEF Unblock, CheckCounted, Exists, EntryInv
      <4>2. Budget(attempts[k]) = [used |-> attempts[k].count,
                                   since |-> attempts[k].firstTry, until |-> 0]
        BY <1>4, <2>2, <3>2, <4>1, BudgetSeen DEF CheckCounted
      <4>3. /\ attempts[k].count \in Nat /\ attempts[k].firstTry \in Nat
            /\ attempts[k].count <= MaxAttempts
        BY <1>t, <3>2 DEF Attempt, EntryInv
      <4> HIDE DEF u
      <4>4. attempts[k].firstTry = IF u.count = 0 THEN 0 ELSE u.firstTry
        BY <4>1
      <4>5. u.count = attempts[k].count /\ u.count # 0
        BY <4>1
      <4>6. Budget(attempts[k]) =
              [used |-> u.count, since |-> IF u.count = 0 THEN 0 ELSE u.firstTry, until |-> 0]
        BY <4>2, <4>4, <4>5
      <4> QED
        BY <4>1, <4>3, <4>5, <4>6
    <3> QED
      BY <1>t, <3>1, <3>2 DEF Attempt
  <2> HIDE DEF b, c, u
  <2>5. CASE u.count + 1 > MaxAttempts
    <3>1. u.count = MaxAttempts
      BY <2>4, <2>5
    <3>2. BudgetMap' = [BudgetMap EXCEPT ![k] = Budget(b)] /\ now' = now
      BY <2>2, <2>5, BudgetUpdate DEF Refuse
    <3>3. Budget(b) = [used |-> 0, since |-> 0, until |-> now + BlockMs]
      BY <1>t, <2>3 DEF Budget, Blocked, BlockEnd
    <3>4. BudgetMap[k].used = MaxAttempts /\ BudgetMap[k].until = 0
      BY <2>4, <3>1 DEF BudgetMap
    <3> QED
      BY <3>2, <3>3, <3>4 DEF Abstract!Block, BudgetMap
  <2>6. CASE ~(u.count + 1 > MaxAttempts)
    <3>1. Allow(k, c) /\ u.count < MaxAttempts
      BY <2>2, <2>4, <2>6
    <3>2. Budget(c) = [used |-> u.count + 1,
                       since |-> IF u.count = 0 THEN now ELSE u.firstTry, until |-> 0]
      BY <2>2, <2>3, <2>4 DEF Budget, WindowOver
    <3> QED
      BY <2>4, <3>1, <3>2, AdmitRefined
  <2> QED
    BY <2>5, <2>6
<1> QED
  BY <1>1, <1>2, <1>3, <1>4 DEF Check

\* Deleting what no longer limits anything cannot be seen in the budgets.
LEMMA CleanupRefined ==
    ASSUME IInv, Cleanup
    PROVE  UNCHANGED Abstract!avars
<1>1. ASSUME NEW k \in Keys
      PROVE  Budget(attempts[k])' = Budget(attempts[k])
  <2>1. /\ attempts[k] \in Attempt /\ EntryInv(attempts[k])
        /\ now \in Nat /\ now' = now
        /\ WindowMs \in Nat /\ BlockMs \in Nat /\ CleanupMs \in Nat
        /\ WindowMs + BlockMs <= CleanupMs
    BY <1>1, ConfigAssumption DEF IInv, TypeOK, Cleanup
  <2>2. CASE now - attempts[k].firstTry > CleanupMs
    <3>1. attempts'[k] = NoAttempt
      BY <1>1, <2>2 DEF Cleanup
    <3>2. attempts[k].blockedAt > 0 => ~Blocked(attempts[k])
      BY <2>1, <2>2 DEF EntryInv, Blocked, BlockEnd, Attempt
    <3>3. WindowOver(attempts[k])
      BY <2>1, <2>2 DEF WindowOver, Attempt
    <3>4. Budget(attempts[k]) = Abstract!Whole
      BY <3>2, <3>3 DEF Budget, Abstract!Whole
    <3>5. Budget(attempts[k])' = Abstract!Whole
      BY <3>1 DEF Budget, NoAttempt, Abstract!Whole
    <3> QED
      BY <3>4, <3>5
  <2>3. CASE ~(now - attempts[k].firstTry > CleanupMs)
    <3>1. attempts'[k] = attempts[k]
      BY <1>1, <2>3 DEF Cleanup
    <3> QED
      BY <2>1, <3>1 DEF Budget, Blocked, BlockEnd, WindowOver
  <2> QED
    BY <2>2, <2>3
<1> QED
  BY <1>1 DEF Abstract!avars, Cleanup

LEMMA StepRefined ==
    ASSUME IInv, [Next]_vars
    PROVE  AbstractStep
<1>1. CASE Tick
  <2>1. now' \in Nat /\ now' > now
    BY <1>1 DEF Tick, IInv, TypeOK
  <2>2. Abstract!Pass
    BY <1>1, <2>1, BudgetLapses DEF Abstract!Pass
  <2> QED
    BY <2>2 DEF AbstractStep, Abstract!Next
<1>2. CASE Cleanup
  BY <1>2, CleanupRefined DEF AbstractStep
<1>3. ASSUME NEW k \in Keys, Check(k)
      PROVE  AbstractStep
  BY <1>3, CheckRefined DEF AbstractStep, Abstract!Next
<1>4. ASSUME NEW k \in Keys, Reset(k)
      PROVE  AbstractStep
  <2>1. BudgetMap' = [BudgetMap EXCEPT ![k] = Abstract!Whole] /\ now' = now
    BY <1>4, BudgetUpdate, NewEntryBudget DEF Reset
  <2>2. Abstract!Forgive(k)
    BY <2>1 DEF Abstract!Forgive, BudgetMap
  <2> QED
    BY <2>2 DEF AbstractStep, Abstract!Next
<1>5. CASE UNCHANGED vars \/ \E k \in Keys : Return(k)
  BY <1>5 DEF AbstractStep, Abstract!avars, vars, Return, Budget, Blocked, BlockEnd, WindowOver
<1> QED
  BY <1>1, <1>2, <1>3, <1>4, <1>5 DEF Next

\* With a clock that advances, the limiter implements the abstract budget: each
\* check of the code admits or blocks exactly when the budget says so, and the
\* clean-up is invisible.
THEOREM LimiterImplementsBudget == Spec => ImplementsBudget
<1>1. Init => Abstract!Init
  BY DEF Init, NoAttempt, Budget, Abstract!Init, Abstract!Whole
<1>2. IInv /\ [Next]_vars => AbstractStep
  BY StepRefined
<1>3. Spec => SteppingSpec
  <2>1. [Next]_vars => [Next \/ StepBack]_vars
    OBVIOUS
  <2> QED
    BY <2>1, PTL DEF Spec, SteppingSpec
<1> QED
  BY <1>1, <1>2, <1>3, SteppingInvariant, PTL
     DEF Spec, ImplementsBudget, Abstract!Spec, AbstractStep
=============================================================================
