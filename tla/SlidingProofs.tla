--------------------------- MODULE SlidingProofs ---------------------------
(***************************************************************************)
(* The sliding budget of MCRateLimiter, for every set of keys and every    *)
(* configuration whose block covers its window.                            *)
(***************************************************************************)
EXTENDS MCRateLimiter, RateLimiterProofs, FiniteSetTheorems

Admission == [at : Nat, nth : Nat]

\* A history: finite, of the last WindowMs, its numbers taken at each instant.
HistoryInv(S) ==
    /\ IsFiniteSet(S)
    /\ S \subseteq Admission
    /\ \A e \in S : /\ e.at <= now
                    /\ now - e.at <= WindowMs
                    /\ e.nth <= Cardinality(SameInstant(S, e.at))

\* The admissions of the window that an entry counts, and those before it.
InWindow(a, S) == {e \in S : e.at >= a.firstTry}

BeforeWindow(a, S) == {e \in S : e.at < a.firstTry}

\* How many admissions an entry stands for: a blocked key has used its budget up.
Counted(a) == IF a.blockedAt > 0 THEN MaxAttempts ELSE a.count

\* An entry against the history of its key: what is older than its window is one
\* budget at most, nothing is later than its window or than its block, and a key
\* without an entry has no recent admission.
EntryHistoryInv(a, S) ==
    /\ a = NoAttempt => S = {}
    /\ a # NoAttempt =>
         /\ a.firstTry <= now
         /\ a.blockedAt <= now
         /\ a.blockedAt > 0 => a.firstTry <= a.blockedAt
         /\ \A e \in S : /\ e.at <= a.firstTry + WindowMs
                         /\ a.blockedAt > 0 => e.at <= a.blockedAt
         /\ Cardinality(InWindow(a, S)) <= Counted(a)
         /\ Cardinality(BeforeWindow(a, S)) <= MaxAttempts

SInv == /\ IInv
        /\ recent = [k \in Keys |-> recent[k]]
        /\ \A k \in Keys : HistoryInv(recent[k]) /\ EntryHistoryInv(attempts[k], recent[k])
-----------------------------------------------------------------------------
(***************************************************************************)
(* Histories.                                                              *)
(***************************************************************************)

\* A subset counts no more.
LEMMA SmallerCount ==
    ASSUME NEW S, IsFiniteSet(S), NEW T, T \subseteq S
    PROVE  /\ IsFiniteSet(T)
           /\ Cardinality(T) \in Nat
           /\ Cardinality(S) \in Nat
           /\ Cardinality(T) <= Cardinality(S)
  BY FS_Subset, FS_CardinalityType

\* Noting an admission adds one element, that was not there.
LEMMA NotedHistory ==
    ASSUME now \in Nat, NEW S, HistoryInv(S)
    PROVE  /\ HistoryInv(Noted(S))
           /\ \E e \in Noted(S) \ S : Noted(S) = S \cup {e} /\ e.at = now
<1> USE ConfigAssumption
<1> DEFINE e0 == [at |-> now, nth |-> Cardinality(SameInstant(S, now)) + 1]
<1>1. /\ IsFiniteSet(SameInstant(S, now))
      /\ Cardinality(SameInstant(S, now)) \in Nat
  BY SmallerCount DEF HistoryInv, SameInstant
<1>2. e0 \in Admission /\ e0.at = now /\ e0.nth = Cardinality(SameInstant(S, now)) + 1
  BY <1>1 DEF Admission
<1>3. Noted(S) = S \cup {e0}
  BY DEF Noted
<1> HIDE DEF e0
<1>4. e0 \notin S
  <2>1. CASE e0 \in S
    <3>1. e0.nth <= Cardinality(SameInstant(S, now))
      BY <1>2, <2>1 DEF HistoryInv
    <3> QED
      BY <1>1, <1>2, <3>1
  <2> QED
    BY <2>1
<1>5. IsFiniteSet(Noted(S)) /\ Noted(S) \subseteq Admission
  BY <1>2, <1>3, FS_AddElement DEF HistoryInv
<1>6. ASSUME NEW e \in Noted(S)
      PROVE  /\ e.at <= now
             /\ now - e.at <= WindowMs
             /\ e.nth <= Cardinality(SameInstant(Noted(S), e.at))
  <2>1. CASE e \in S
    <3>1. SameInstant(S, e.at) \subseteq SameInstant(Noted(S), e.at)
      BY <1>3 DEF SameInstant
    <3>2. IsFiniteSet(SameInstant(Noted(S), e.at))
      BY <1>5, SmallerCount DEF SameInstant
    <3>3. /\ Cardinality(SameInstant(S, e.at)) \in Nat
          /\ Cardinality(SameInstant(Noted(S), e.at)) \in Nat
          /\ Cardinality(SameInstant(S, e.at)) <= Cardinality(SameInstant(Noted(S), e.at))
      BY <3>1, <3>2, SmallerCount
    <3>4. e.at <= now /\ now - e.at <= WindowMs /\ e.nth <= Cardinality(SameInstant(S, e.at))
      BY <2>1 DEF HistoryInv
    <3>5. e.nth \in Nat
      BY <2>1 DEF HistoryInv, Admission
    <3> QED
      BY <3>3, <3>4, <3>5
  <2>2. CASE e = e0
    <3>1. SameInstant(Noted(S), now) = SameInstant(S, now) \cup {e0}
      BY <1>2, <1>3 DEF SameInstant
    <3>2. e0 \notin SameInstant(S, now)
      BY <1>4 DEF SameInstant
    <3>3. Cardinality(SameInstant(Noted(S), now)) = Cardinality(SameInstant(S, now)) + 1
      BY <1>1, <3>1, <3>2, FS_AddElement
    <3> QED
      BY <1>1, <1>2, <2>2, <3>3
  <2> QED
    BY <1>3, <2>1, <2>2
<1>7. HistoryInv(Noted(S))
  BY <1>5, <1>6 DEF HistoryInv
<1> QED
  BY <1>2, <1>3, <1>4, <1>7

\* Time takes whole instants out of a history.
LEMMA RecentHistory ==
    ASSUME now \in Nat, now' \in Nat, now' >= now, NEW S, HistoryInv(S)
    PROVE  /\ Recent(S) \subseteq S
           /\ IsFiniteSet(Recent(S))
           /\ \A e \in Recent(S) : /\ e \in Admission
                                   /\ e.at <= now'
                                   /\ now' - e.at <= WindowMs
                                   /\ e.nth <= Cardinality(SameInstant(Recent(S), e.at))
<1>1. Recent(S) \subseteq S
  BY DEF Recent
<1>2. IsFiniteSet(Recent(S))
  BY <1>1, SmallerCount DEF HistoryInv
<1>3. ASSUME NEW e \in Recent(S)
      PROVE  /\ e \in Admission
             /\ e.at <= now'
             /\ now' - e.at <= WindowMs
             /\ e.nth <= Cardinality(SameInstant(Recent(S), e.at))
  <2>1. /\ e \in Admission /\ e.at <= now
        /\ e.nth <= Cardinality(SameInstant(S, e.at))
    BY <1>1, <1>3 DEF HistoryInv
  <2>2. e.at \in Nat
    BY <2>1 DEF Admission
  <2>3. SameInstant(Recent(S), e.at) = SameInstant(S, e.at)
    BY <1>3 DEF SameInstant, Recent
  <2>4. now' - e.at <= WindowMs
    BY <1>3 DEF Recent
  <2> QED
    BY <2>1, <2>2, <2>3, <2>4
<1> QED
  BY <1>1, <1>2, <1>3
-----------------------------------------------------------------------------
(***************************************************************************)
(* Entries against histories.                                              *)
(***************************************************************************)

\* The two parts of a history, counted.
LEMMA PartsOfHistory ==
    ASSUME NEW S, HistoryInv(S), NEW a, a.firstTry \in Int
    PROVE  /\ InWindow(a, S) \subseteq S /\ BeforeWindow(a, S) \subseteq S
           /\ Cardinality(InWindow(a, S)) \in Nat
           /\ Cardinality(BeforeWindow(a, S)) \in Nat
           /\ Cardinality(S) = Cardinality(InWindow(a, S)) + Cardinality(BeforeWindow(a, S))
<1>1. InWindow(a, S) \subseteq S /\ BeforeWindow(a, S) \subseteq S
  BY DEF InWindow, BeforeWindow
<1>2. /\ IsFiniteSet(InWindow(a, S)) /\ IsFiniteSet(BeforeWindow(a, S))
      /\ Cardinality(InWindow(a, S)) \in Nat
      /\ Cardinality(BeforeWindow(a, S)) \in Nat
  BY <1>1, SmallerCount DEF HistoryInv
<1>3. S = InWindow(a, S) \cup BeforeWindow(a, S)
  BY DEF InWindow, BeforeWindow, HistoryInv, Admission
<1>4. InWindow(a, S) \cap BeforeWindow(a, S) = {}
  BY DEF InWindow, BeforeWindow, HistoryInv, Admission
<1>5. Cardinality(S) = Cardinality(InWindow(a, S)) + Cardinality(BeforeWindow(a, S)) - 0
  BY <1>2, <1>3, <1>4, FS_Union, FS_EmptySet
<1> QED
  BY <1>1, <1>2, <1>5

\* What a step does to one key: it leaves the entry a, has noted what S holds, and
\* time may pass.
LEMMA KeyStep ==
    ASSUME now \in Nat, now' \in Nat, now' >= now,
           NEW k \in Keys, NEW a \in Attempt, NEW S,
           HistoryInv(S), EntryHistoryInv(a, S),
           attempts'[k] = a, recent'[k] = Recent(S)
    PROVE  HistoryInv(recent[k])' /\ EntryHistoryInv(attempts[k], recent[k])'
<1> USE ConfigAssumption
<1> DEFINE T == Recent(S)
<1>1. /\ T \subseteq S
      /\ IsFiniteSet(T)
      /\ \A e \in T : /\ e \in Admission
                      /\ e.at <= now'
                      /\ now' - e.at <= WindowMs
                      /\ e.nth <= Cardinality(SameInstant(T, e.at))
  BY RecentHistory
<1> HIDE DEF T
<1>2. recent'[k] = T
  BY DEF T
<1>3. HistoryInv(recent[k])'
  BY <1>1, <1>2 DEF HistoryInv, SameInstant
<1>4. CASE a = NoAttempt
  <2>1. T = {}
    BY <1>1, <1>4 DEF EntryHistoryInv
  <2> QED
    BY <1>2, <1>3, <1>4, <2>1 DEF EntryHistoryInv
<1>5. CASE a # NoAttempt
  <2>1. /\ InWindow(a, T) \subseteq InWindow(a, S)
        /\ BeforeWindow(a, T) \subseteq BeforeWindow(a, S)
    BY <1>1 DEF InWindow, BeforeWindow
  <2>2. IsFiniteSet(InWindow(a, S)) /\ IsFiniteSet(BeforeWindow(a, S))
    BY PartsOfHistory, SmallerCount DEF HistoryInv, Attempt
  <2>3. /\ Cardinality(InWindow(a, T)) \in Nat
        /\ Cardinality(InWindow(a, S)) \in Nat
        /\ Cardinality(InWindow(a, T)) <= Cardinality(InWindow(a, S))
    BY <2>1, <2>2, SmallerCount
  <2>4. /\ Cardinality(BeforeWindow(a, T)) \in Nat
        /\ Cardinality(BeforeWindow(a, S)) \in Nat
        /\ Cardinality(BeforeWindow(a, T)) <= Cardinality(BeforeWindow(a, S))
    BY <2>1, <2>2, SmallerCount
  <2>5. Counted(a) \in Nat
    BY DEF Counted, Attempt
  <2>6. /\ Cardinality(InWindow(a, T)) <= Counted(a)
        /\ Cardinality(BeforeWindow(a, T)) <= MaxAttempts
    BY <1>5, <2>3, <2>4, <2>5 DEF EntryHistoryInv
  <2>7. /\ a.firstTry <= now' /\ a.blockedAt <= now'
        /\ a.blockedAt > 0 => a.firstTry <= a.blockedAt
        /\ \A e \in T : /\ e.at <= a.firstTry + WindowMs
                        /\ a.blockedAt > 0 => e.at <= a.blockedAt
    BY <1>1, <1>5 DEF EntryHistoryInv, Attempt
  <2>8. /\ InWindow(attempts[k], recent[k])' = InWindow(a, T)
        /\ BeforeWindow(attempts[k], recent[k])' = BeforeWindow(a, T)
        /\ Counted(attempts[k])' = Counted(a)
    BY <1>2 DEF InWindow, BeforeWindow, Counted
  <2>9. EntryHistoryInv(attempts[k], recent[k])'
    BY <1>2, <1>5, <2>6, <2>7, <2>8 DEF EntryHistoryInv
  <2> QED
    BY <1>3, <2>9
<1> QED
  BY <1>4, <1>5

\* A key that is forgiven starts afresh.
LEMMA ForgivenKey ==
    ASSUME NEW k \in Keys, attempts'[k] = NoAttempt, recent'[k] = {}
    PROVE  HistoryInv(recent[k])' /\ EntryHistoryInv(attempts[k], recent[k])'
  BY FS_EmptySet DEF HistoryInv, EntryHistoryInv

\* A block that is over leaves at most one budget behind it: BlockCoversWindow.
LEMMA UnblockedHistory ==
    ASSUME SInv, NEW k \in Keys, Exists(k), ~Blocked(attempts[k])
    PROVE  EntryHistoryInv(Unblock(attempts[k]), recent[k])
<1> USE ConfigAssumption, BlockCoversWindow
<1> DEFINE a == attempts[k]
           S == recent[k]
           u == Unblock(attempts[k])
<1>1. /\ a \in Attempt /\ a # NoAttempt /\ now \in Nat \ {0}
      /\ HistoryInv(S) /\ EntryHistoryInv(a, S)
  BY DEF SInv, IInv, TypeOK, Exists
<1>2. CASE ~(a.blockedAt > 0)
  BY <1>1, <1>2 DEF Unblock
<1>3. CASE a.blockedAt > 0
  <2>1. u = [count |-> 0, firstTry |-> now, blockedAt |-> 0]
    BY <1>3 DEF Unblock
  <2>2. now >= a.blockedAt + BlockMs
    BY <1>1, <1>3 DEF Blocked, BlockEnd, Attempt
  <2> HIDE DEF a, S, u
  <2>3. \A e \in S : e.at \in Nat /\ e.at < now /\ e.at >= a.firstTry
    BY <1>1, <1>3, <2>2 DEF EntryHistoryInv, HistoryInv, Admission, Attempt
  <2>4. InWindow(a, S) = S
    BY <2>3 DEF InWindow
  <2>5. Cardinality(S) <= MaxAttempts
    BY <1>1, <1>3, <2>4 DEF EntryHistoryInv, Counted
  <2>6. InWindow(u, S) = {} /\ BeforeWindow(u, S) = S
    BY <1>1, <2>1, <2>3 DEF InWindow, BeforeWindow
  <2>7. u # NoAttempt /\ Counted(u) = 0
    BY <1>1, <2>1 DEF NoAttempt, Counted
  <2>8. \A e \in S : e.at <= now + WindowMs
    BY <1>1, <2>3
  <2>9. u.firstTry = now /\ u.blockedAt = 0
    BY <2>1
  <2>10. Cardinality(InWindow(u, S)) <= Counted(u)
    BY <2>6, <2>7, FS_EmptySet
  <2>11. Cardinality(BeforeWindow(u, S)) <= MaxAttempts
    BY <2>5, <2>6
  <2>12. EntryHistoryInv(u, S)
    BY <1>1, <2>7, <2>8, <2>9, <2>10, <2>11 DEF EntryHistoryInv
  <2> QED
    BY <2>12 DEF u, S
<1> QED
  BY <1>2, <1>3
-----------------------------------------------------------------------------
(***************************************************************************)
(* The admissions of Check.                                                *)
(***************************************************************************)

\* The first attempt of a window: whatever is recent came before it.
LEMMA WindowOpens ==
    ASSUME now \in Nat \ {0}, NEW S, HistoryInv(S), NEW a \in Attempt,
           a.count = 1, a.firstTry = now, a.blockedAt = 0,
           \A e \in S : e.at < now, Cardinality(S) <= MaxAttempts
    PROVE  EntryHistoryInv(a, Noted(S))
<1> USE ConfigAssumption
<1>1. PICK e \in Noted(S) \ S : Noted(S) = S \cup {e} /\ e.at = now
  BY NotedHistory
<1>2. InWindow(a, Noted(S)) = {e} /\ BeforeWindow(a, Noted(S)) = S
  <2>1. \A d \in S : d.at \in Int
    BY DEF HistoryInv, Admission
  <2> QED
    BY <1>1, <2>1 DEF InWindow, BeforeWindow
<1>3. Cardinality(InWindow(a, Noted(S))) <= Counted(a)
  BY <1>2, FS_Singleton DEF Counted
<1>4. a # NoAttempt
  BY DEF NoAttempt
<1>5. \A d \in Noted(S) : d.at <= a.firstTry + WindowMs
  BY <1>1 DEF HistoryInv, Admission
<1> QED
  BY <1>2, <1>3, <1>4, <1>5 DEF EntryHistoryInv

\* One more attempt of the window that is open.
LEMMA WindowGoesOn ==
    ASSUME now \in Nat \ {0}, NEW S, HistoryInv(S),
           NEW u \in Attempt, NEW c \in Attempt,
           EntryHistoryInv(u, S), u # NoAttempt, u.blockedAt = 0, ~WindowOver(u),
           c.count = u.count + 1, c.firstTry = u.firstTry, c.blockedAt = 0
    PROVE  EntryHistoryInv(c, Noted(S))
<1> USE ConfigAssumption
<1>1. PICK e \in Noted(S) \ S : Noted(S) = S \cup {e} /\ e.at = now
  BY NotedHistory
<1>2. u.firstTry <= now /\ u.firstTry \in Nat /\ u.count \in Nat /\ c.firstTry \in Nat
  BY DEF EntryHistoryInv, Attempt
<1>3. InWindow(c, Noted(S)) = InWindow(u, S) \cup {e} /\ e \notin InWindow(u, S)
  BY <1>1, <1>2 DEF InWindow
<1>4. BeforeWindow(c, Noted(S)) = BeforeWindow(u, S)
  BY <1>1, <1>2 DEF BeforeWindow
<1>5. IsFiniteSet(InWindow(u, S)) /\ Cardinality(InWindow(u, S)) \in Nat
  BY <1>2, PartsOfHistory, SmallerCount DEF HistoryInv
<1>6. Cardinality(InWindow(c, Noted(S))) = Cardinality(InWindow(u, S)) + 1
  BY <1>3, <1>5, FS_AddElement
<1>7. Cardinality(InWindow(u, S)) <= u.count
  BY DEF EntryHistoryInv, Counted
<1>8. Cardinality(InWindow(c, Noted(S))) <= Counted(c)
  BY <1>2, <1>5, <1>6, <1>7 DEF Counted
<1>9. c # NoAttempt
  BY <1>2 DEF NoAttempt
<1>10. \A d \in Noted(S) : d.at <= c.firstTry + WindowMs
  BY <1>1, <1>2 DEF EntryHistoryInv, WindowOver
<1>11. Cardinality(BeforeWindow(c, Noted(S))) <= MaxAttempts
  BY <1>4 DEF EntryHistoryInv
<1> QED
  BY <1>2, <1>8, <1>9, <1>10, <1>11 DEF EntryHistoryInv

\* The attempt that blocks the key is not admitted.
LEMMA WindowBlocked ==
    ASSUME now \in Nat \ {0}, NEW S, HistoryInv(S),
           NEW u \in Attempt, NEW b \in Attempt,
           EntryHistoryInv(u, S), u # NoAttempt, u.blockedAt = 0, u.count <= MaxAttempts,
           b.firstTry = u.firstTry, b.blockedAt = now
    PROVE  EntryHistoryInv(b, S)
<1> USE ConfigAssumption
<1>1. u.firstTry \in Nat /\ u.count \in Nat
  BY DEF Attempt
<1>2. InWindow(b, S) = InWindow(u, S) /\ BeforeWindow(b, S) = BeforeWindow(u, S)
  BY DEF InWindow, BeforeWindow
<1>3. Cardinality(InWindow(u, S)) \in Nat
  BY <1>1, PartsOfHistory
<1>4. Cardinality(InWindow(u, S)) <= u.count
  BY DEF EntryHistoryInv, Counted
<1>5. Cardinality(InWindow(b, S)) <= Counted(b)
  BY <1>1, <1>2, <1>3, <1>4 DEF Counted
<1>6. b # NoAttempt
  BY DEF NoAttempt
<1> QED
  BY <1>2, <1>5, <1>6 DEF EntryHistoryInv, HistoryInv

\* When a window is over, what is recent was counted in it.
LEMMA WindowCloses ==
    ASSUME now \in Nat \ {0}, NEW S, HistoryInv(S), NEW u \in Attempt,
           EntryHistoryInv(u, S), u # NoAttempt, u.blockedAt = 0, u.count <= MaxAttempts,
           WindowOver(u)
    PROVE  Cardinality(S) <= MaxAttempts /\ \A e \in S : e.at < now
<1> USE ConfigAssumption
<1>1. u.firstTry \in Nat /\ u.count \in Nat
  BY DEF Attempt
<1>2. \A e \in S : e.at \in Nat /\ e.at < now /\ e.at >= u.firstTry
  BY <1>1 DEF HistoryInv, Admission, EntryHistoryInv, WindowOver
<1>3. InWindow(u, S) = S
  BY <1>2 DEF InWindow
<1>4. Cardinality(S) <= u.count /\ Cardinality(S) \in Nat
  BY <1>1, <1>3, PartsOfHistory DEF EntryHistoryInv, Counted
<1> QED
  BY <1>1, <1>2, <1>4
-----------------------------------------------------------------------------
(***************************************************************************)
(* Steps.                                                                  *)
(***************************************************************************)

KeyInv(k) == HistoryInv(recent[k]) /\ EntryHistoryInv(attempts[k], recent[k])

\* A key whose entry stays.
LEMMA SameEntry ==
    ASSUME SInv, Observe, now' \in Nat, now' >= now, NEW k \in Keys,
           attempts'[k] = attempts[k], ~Admitted(k)
    PROVE  KeyInv(k)'
<1>1. now \in Nat /\ attempts[k] \in Attempt /\ KeyInv(k)
  BY DEF SInv, IInv, TypeOK, KeyInv
<1>2. CASE Forgiven(k)
  BY <1>2, ForgivenKey DEF Observe, Forgiven, KeyInv
<1>3. CASE ~Forgiven(k)
  <2>1. recent'[k] = Recent(recent[k])
    BY <1>3 DEF Observe
  <2> QED
    BY <1>1, <2>1, KeyStep DEF KeyInv
<1> QED
  BY <1>2, <1>3

\* A key that is admitted.
LEMMA AdmittedEntry ==
    ASSUME SInv, Observe, NEW k \in Keys, NEW a \in Attempt, Allow(k, a),
           EntryHistoryInv(a, Noted(recent[k]))
    PROVE  KeyInv(k)'
<1>1. now \in Nat /\ now' = now /\ HistoryInv(recent[k]) /\ attempts'[k] = a
  BY DEF SInv, IInv, TypeOK, Allow
<1>2. inflight[k] \in Int /\ inflight'[k] = inflight[k] + 1
  BY BoundAssumption DEF SInv, IInv, TypeOK, Allow
<1>3. Admitted(k) /\ ~Forgiven(k)
  BY <1>2 DEF Admitted, Forgiven
<1>4. recent'[k] = Recent(Noted(recent[k]))
  BY <1>3 DEF Observe
<1>5. HistoryInv(Noted(recent[k]))
  BY <1>1, NotedHistory
<1>6. now' >= now
  BY <1>1
<1> QED
  BY <1>1, <1>4, <1>5, <1>6, KeyStep DEF KeyInv

\* A key that is refused.
LEMMA RefusedEntry ==
    ASSUME SInv, Observe, NEW k \in Keys, NEW a \in Attempt, NEW end, Refuse(k, a, end),
           EntryHistoryInv(a, recent[k])
    PROVE  KeyInv(k)'
<1>1. now \in Nat /\ now' = now /\ HistoryInv(recent[k]) /\ attempts'[k] = a
  BY DEF SInv, IInv, TypeOK, Refuse
<1>2. inflight[k] \in Int /\ inflight'[k] = inflight[k]
  BY BoundAssumption DEF SInv, IInv, TypeOK, Refuse
<1>3. ~Admitted(k) /\ ~Forgiven(k)
  BY <1>2 DEF Admitted, Forgiven
<1>4. recent'[k] = Recent(recent[k])
  BY <1>3 DEF Observe
<1>6. now' >= now
  BY <1>1
<1> QED
  BY <1>1, <1>4, <1>6, KeyStep DEF KeyInv

LEMMA CheckKeepsKeyInv ==
    ASSUME SInv, Observe, NEW k \in Keys, Check(k)
    PROVE  KeyInv(k)'
<1> USE ConfigAssumption
<1> DEFINE u == Unblock(attempts[k])
           S == recent[k]
           fresh == [count |-> 1, firstTry |-> now, blockedAt |-> 0]
<1>1. /\ now \in Nat \ {0} /\ attempts[k] \in Attempt /\ EntryInv(attempts[k])
      /\ HistoryInv(S) /\ EntryHistoryInv(attempts[k], S)
  BY DEF SInv, IInv, TypeOK
<1>2. ASSUME Exists(k), ~Blocked(attempts[k])
      PROVE  /\ u \in Attempt /\ u.blockedAt = 0 /\ u.count <= MaxAttempts
             /\ u # NoAttempt /\ EntryHistoryInv(u, S)
  <2>1. u # NoAttempt
    BY <1>1, <1>2 DEF Unblock, NoAttempt, Exists
  <2> QED
    BY <1>2, <2>1, UnblockedEntry, UnblockedHistory DEF SInv
<1>3. fresh \in Attempt /\ fresh.count = 1 /\ fresh.firstTry = now /\ fresh.blockedAt = 0
  BY <1>1 DEF Attempt
<1>4. ASSUME Allow(k, fresh), \A e \in S : e.at < now, Cardinality(S) <= MaxAttempts
      PROVE  KeyInv(k)'
  <2> HIDE DEF fresh, S
  <2>1. EntryHistoryInv(fresh, Noted(S))
    BY <1>1, <1>3, <1>4, WindowOpens
  <2> QED
    BY <1>3, <1>4, <2>1, AdmittedEntry DEF S
<1>5. CASE CheckFirst(k)
  <2>1. S = {}
    BY <1>1, <1>5 DEF CheckFirst, Exists, EntryHistoryInv
  <2> QED
    BY <1>4, <1>5, <2>1, FS_EmptySet DEF CheckFirst
<1>6. CASE CheckBlocked(k)
  BY <1>1, <1>6, RefusedEntry DEF CheckBlocked
<1>7. CASE CheckNewWindow(k)
  <2>1. Exists(k) /\ ~Blocked(attempts[k]) /\ WindowOver(u)
    BY <1>7 DEF CheckNewWindow
  <2>2. Cardinality(S) <= MaxAttempts /\ \A e \in S : e.at < now
    <3> HIDE DEF u, S
    <3> QED
      BY <1>1, <1>2, <2>1, WindowCloses
  <2>3. Allow(k, [u EXCEPT !.count = 1, !.firstTry = now])
    BY <1>7 DEF CheckNewWindow
  <2>4. [u EXCEPT !.count = 1, !.firstTry = now] = fresh
    <3> HIDE DEF u
    <3>1. ASSUME NEW a, a = [u EXCEPT !.count = 1, !.firstTry = now]
          PROVE  a = fresh
      BY <1>2, <2>1, <3>1 DEF Attempt
    <3> QED
      BY <3>1
  <2> QED
    BY <1>4, <2>2, <2>3, <2>4
<1>8. CASE CheckCounted(k)
  <2> DEFINE b == [u EXCEPT !.count = u.count + 1, !.blockedAt = now]
             c == [u EXCEPT !.count = u.count + 1]
  <2>1. Exists(k) /\ ~Blocked(attempts[k]) /\ ~WindowOver(u)
    BY <1>8 DEF CheckCounted
  <2>2. /\ u.count + 1 > MaxAttempts => Refuse(k, b, now + BlockMs)
        /\ ~(u.count + 1 > MaxAttempts) => Allow(k, c)
    BY <1>8 DEF CheckCounted
  <2> HIDE DEF u, S
  <2>3. b \in Attempt /\ b.count > 0 /\ b.blockedAt = now /\ b.firstTry = u.firstTry
    <3>1. now \in Nat
      BY <1>1
    <3>2. u \in Attempt /\ u.count <= MaxAttempts
      BY <1>2, <2>1
    <3> QED
      BY <3>1, <3>2, BlockedEntry
  <2>4. /\ c \in Attempt /\ c.count = u.count + 1 /\ c.blockedAt = 0
        /\ c.firstTry = u.firstTry
    <3>1. c.firstTry = u.firstTry
      BY <1>2, <2>1 DEF Attempt
    <3> QED
      BY <1>2, <2>1, <3>1, CountedEntry
  <2> HIDE DEF b, c
  <2>5. CASE u.count + 1 > MaxAttempts
    <3>1. EntryHistoryInv(b, S)
      BY <1>1, <1>2, <2>1, <2>3, WindowBlocked
    <3> QED
      BY <2>2, <2>3, <2>5, <3>1, RefusedEntry DEF S
  <2>6. CASE ~(u.count + 1 > MaxAttempts)
    <3>1. EntryHistoryInv(c, Noted(S))
      BY <1>1, <1>2, <2>1, <2>4, WindowGoesOn
    <3> QED
      BY <2>2, <2>4, <2>6, <3>1, AdmittedEntry DEF S
  <2> QED
    BY <2>5, <2>6
<1> QED
  BY <1>5, <1>6, <1>7, <1>8 DEF Check

\* What the clean-up deletes has no recent admission.
LEMMA CleanupKeepsKeyInv ==
    ASSUME SInv, Observe, Cleanup, NEW k \in Keys
    PROVE  KeyInv(k)'
<1> USE ConfigAssumption, BlockCoversWindow
<1>1. /\ now \in Nat /\ now' = now /\ attempts[k] \in Attempt
      /\ inflight[k] \in Int /\ inflight'[k] = inflight[k]
      /\ HistoryInv(recent[k]) /\ EntryHistoryInv(attempts[k], recent[k])
  BY BoundAssumption DEF SInv, IInv, TypeOK, Cleanup
<1>2. ~Admitted(k) /\ ~Forgiven(k)
  BY <1>1 DEF Admitted, Forgiven
<1>3. CASE now - attempts[k].firstTry > CleanupMs
  <2>1. attempts'[k] = NoAttempt
    BY <1>3 DEF Cleanup
  <2>2. recent[k] = {}
    BY <1>1, <1>3 DEF HistoryInv, Admission, EntryHistoryInv, Attempt
  <2>3. recent'[k] = {}
    BY <1>2, <2>2 DEF Observe, Recent
  <2> QED
    BY <2>1, <2>3, ForgivenKey DEF KeyInv
<1>4. CASE ~(now - attempts[k].firstTry > CleanupMs)
  <2>1. attempts'[k] = attempts[k]
    BY <1>4 DEF Cleanup
  <2> QED
    BY <1>1, <1>2, <2>1, SameEntry
<1> QED
  BY <1>3, <1>4

LEMMA InitSInv == MCInit => SInv
<1> SUFFICES ASSUME MCInit
             PROVE  SInv
  OBVIOUS
<1>1. IInv
  BY InitIInv DEF MCInit
<1>2. ASSUME NEW k \in Keys
      PROVE  HistoryInv(recent[k]) /\ EntryHistoryInv(attempts[k], recent[k])
  BY FS_EmptySet DEF MCInit, Init, HistoryInv, EntryHistoryInv
<1>3. recent = [k \in Keys |-> recent[k]]
  BY DEF MCInit
<1> QED
  BY <1>1, <1>2, <1>3 DEF SInv

LEMMA StepSInv == SInv /\ [MCNext]_mcvars => SInv'
<1> SUFFICES ASSUME SInv, [MCNext]_mcvars
             PROVE  SInv'
  OBVIOUS
<1> USE ConfigAssumption, BoundAssumption
<1>1. CASE UNCHANGED mcvars
  BY <1>1 DEF mcvars, vars, SInv, IInv, TypeOK, ToldInv, EntryInv, BlockEnd, HistoryInv,
              SameInstant, EntryHistoryInv, InWindow, BeforeWindow, Counted
<1>2. CASE MCNext
  <2>1. Next /\ Observe /\ IInv
    BY <1>2 DEF MCNext, SInv
  <2>2. IInv'
    BY <2>1, StepIInv
  <2>3. recent' = [k \in Keys |-> recent'[k]]
    BY <2>1 DEF Observe
  <2>t. now \in Nat /\ now' \in Nat /\ \A j \in Keys : inflight[j] \in Int
    BY <2>1, <2>2 DEF IInv, TypeOK
  <2>4. ASSUME NEW k \in Keys
        PROVE  KeyInv(k)'
    <3>1. CASE Tick
      <4>1. now' >= now /\ attempts'[k] = attempts[k] /\ ~Admitted(k)
        BY <2>t, <3>1 DEF Tick, Admitted
      <4> QED
        BY <2>1, <2>t, <4>1, SameEntry
    <3>2. CASE Cleanup
      BY <2>1, <3>2, CleanupKeepsKeyInv
    <3>3. CASE Check(k)
      BY <2>1, <3>3, CheckKeepsKeyInv
    <3>4. CASE \E j \in Keys \ {k} : Check(j) \/ Reset(j)
      <4>1. now' = now /\ attempts'[k] = attempts[k] /\ inflight'[k] = inflight[k]
        BY <2>1, <3>4 DEF Check, CheckFirst, CheckBlocked, CheckNewWindow, CheckCounted,
                          Allow, Refuse, Reset, IInv, TypeOK
      <4>2. now' >= now /\ ~Admitted(k)
        BY <2>t, <4>1 DEF Admitted
      <4> QED
        BY <2>1, <2>t, <4>1, <4>2, SameEntry
    <3>5. CASE Reset(k)
      <4>1. attempts'[k] = NoAttempt /\ inflight'[k] < inflight[k]
        BY <2>1, <2>t, <3>5 DEF Reset, IInv, TypeOK
      <4>2. recent'[k] = {}
        BY <2>1, <4>1 DEF Observe, Forgiven
      <4> QED
        BY <4>1, <4>2, ForgivenKey DEF KeyInv
    <3>6. CASE \E j \in Keys : Return(j)
      <4>1. now' = now /\ attempts'[k] = attempts[k] /\ inflight'[k] <= inflight[k]
        BY <2>1, <2>t, <3>6 DEF Return, IInv, TypeOK
      <4>2. now' >= now /\ ~Admitted(k)
        BY <2>t, <2>2, <4>1 DEF Admitted, IInv, TypeOK
      <4> QED
        BY <2>1, <2>t, <4>1, <4>2, SameEntry
    <3> QED
      BY <2>1, <3>1, <3>2, <3>3, <3>4, <3>5, <3>6 DEF Next
  <2> QED
    BY <2>2, <2>3, <2>4 DEF SInv, KeyInv
<1> QED
  BY <1>1, <1>2

\* No more than two budgets are admitted in any stretch of WindowMs, wherever it
\* starts: one that the window counts and one of the window before it.  A block
\* takes the place of a window in this, since it lasts as long at least.
THEOREM SlidingBudgetHolds == MCSpec => []SlidingBudget
<1>1. SInv => SlidingBudget
  <2> SUFFICES ASSUME SInv, NEW k \in Keys
               PROVE  Cardinality(recent[k]) <= 2 * MaxAttempts
    BY DEF SlidingBudget
  <2> DEFINE a == attempts[k]
             S == recent[k]
  <2>1. a \in Attempt /\ EntryInv(a) /\ HistoryInv(S) /\ EntryHistoryInv(a, S)
    BY DEF SInv, IInv, TypeOK
  <2> HIDE DEF a, S
  <2>2. CASE a = NoAttempt
    BY <2>1, <2>2, FS_EmptySet, ConfigAssumption DEF EntryHistoryInv, S
  <2>3. CASE a # NoAttempt
    <3>1. /\ Cardinality(InWindow(a, S)) \in Nat
          /\ Cardinality(BeforeWindow(a, S)) \in Nat
          /\ Cardinality(S) = Cardinality(InWindow(a, S)) + Cardinality(BeforeWindow(a, S))
      BY <2>1, PartsOfHistory DEF Attempt
    <3>2. Counted(a) \in Nat /\ Counted(a) <= MaxAttempts
      BY <2>1, ConfigAssumption DEF Counted, EntryInv, Attempt
    <3>3. /\ Cardinality(InWindow(a, S)) <= Counted(a)
          /\ Cardinality(BeforeWindow(a, S)) <= MaxAttempts
      BY <2>1, <2>3 DEF EntryHistoryInv
    <3>4. Cardinality(S) <= 2 * MaxAttempts
      BY <3>1, <3>2, <3>3, ConfigAssumption
    <3> QED
      BY <3>4 DEF S
  <2> QED
    BY <2>2, <2>3
<1> QED
  BY <1>1, InitSInv, StepSInv, PTL DEF MCSpec
=============================================================================
