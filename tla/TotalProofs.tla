---------------------------- MODULE TotalProofs ----------------------------
(***************************************************************************)
(* Proofs about the totals of Dashboard: sums over finite sets, what the   *)
(* two pages count, the lines and the end of a chart with their roundings, *)
(* the months that the loops of Calculate add up to, the operations that   *)
(* announce the first of them and the interest that each of them adds.     *)
(*                                                                         *)
(* Total is a fold of the community modules, a recursive function on the   *)
(* subsets of a set.  What it computes is proved by induction over these   *)
(* subsets: SubsetInduction, from the well-foundedness of inclusion.       *)
(***************************************************************************)
EXTENDS DashboardProofs, FiniteSetTheorems

(***************************************************************************)
(* Sums over finite sets.                                                  *)
(***************************************************************************)

\* Induction over a finite set, with the set of its good subsets in the place of a
\* predicate: a set is good when every smaller one is.
LEMMA SubsetInduction ==
    ASSUME NEW S, IsFiniteSet(S), NEW Good,
           ASSUME NEW T \in SUBSET S, \A U \in SUBSET T : U # T => U \in Good
           PROVE  T \in Good
    PROVE  S \in Good
<1> DEFINE Bad == (SUBSET S) \ Good
<1>1. CASE Bad = {}
  BY <1>1
<1>2. CASE Bad # {}
  <2>1. IsWellFoundedOn(StrictSubsetOrdering(S), FiniteSubsetsOf(S))
    BY FS_StrictSubsetOrderingWellFounded
  <2>2. Bad \subseteq FiniteSubsetsOf(S)
    BY FS_FiniteSubsetsOfFinite
  <2>3. PICK T \in Bad : \A U \in Bad : ~ (<<U, T>> \in StrictSubsetOrdering(S))
    <3> HIDE DEF Bad
    <3> QED
      BY <1>2, <2>1, <2>2, WFMin
  <2>4. ASSUME NEW U \in SUBSET T, U # T
        PROVE  U \in Good
    <3>1. U \in SUBSET S /\ T \in SUBSET S
      BY <2>4
    <3>2. <<U, T>> \in StrictSubsetOrdering(S)
      BY <2>4, <3>1 DEF StrictSubsetOrdering
    <3> QED
      BY <2>3, <3>1, <3>2
  <2>5. T \in Good
    BY <2>4
  <2> QED
    BY <2>5
<1> QED
  BY <1>1, <1>2

\* The order in which a fold takes the elements of a set.
Pick(s) == CHOOSE x \in s : TRUE

\* g adds f up over the sets of D.
Adds(g, f, D) == g = [s \in D |-> IF s = {} THEN 0 ELSE f[Pick(s)] + g[s \ {Pick(s)}]]

SumOf(f, S) == (CHOOSE g : Adds(g, f, SUBSET S))[S]

LEMMA TotalIsSum == ASSUME NEW f PROVE Total(f) = SumOf(f, DOMAIN f)
  BY DEF Total, MapThenSumSet, MapThenFoldSet, SumOf, Adds, Pick

LEMMA PickIn == ASSUME NEW s, s # {} PROVE Pick(s) \in s
  BY DEF Pick

\* Two functions that add f up agree where both are defined.
LEMMA AddsAgree ==
    ASSUME NEW f, NEW T, NEW U, NEW g, NEW h, Adds(g, f, SUBSET T), Adds(h, f, SUBSET U),
           NEW s, IsFiniteSet(s), s \subseteq T, s \subseteq U
    PROVE  g[s] = h[s]
<1> DEFINE Good == {r \in SUBSET s : g[r] = h[r]}
<1>1. ASSUME NEW r \in SUBSET s, \A q \in SUBSET r : q # r => q \in Good
      PROVE  r \in Good
  <2>1. r \in SUBSET T /\ r \in SUBSET U
    OBVIOUS
  <2>2. CASE r = {}
    BY <2>1, <2>2 DEF Adds
  <2>3. CASE r # {}
    <3>1. Pick(r) \in r
      BY <2>3, PickIn
    <3>2. r \ {Pick(r)} \in Good
      BY <1>1, <3>1
    <3>3. g[r] = f[Pick(r)] + g[r \ {Pick(r)}]
      BY <2>1, <2>3 DEF Adds
    <3>4. h[r] = f[Pick(r)] + h[r \ {Pick(r)}]
      BY <2>1, <2>3 DEF Adds
    <3> QED
      BY <3>2, <3>3, <3>4
  <2> QED
    BY <2>2, <2>3
<1>2. s \in Good
  <2> HIDE DEF Good
  <2> QED
    BY <1>1, SubsetInduction
<1> QED
  BY <1>2

LEMMA SumsExist ==
    ASSUME NEW f, NEW S, IsFiniteSet(S)
    PROVE  \E g : Adds(g, f, SUBSET S)
<1> DEFINE Good == {T \in SUBSET S : \E g : Adds(g, f, SUBSET T)}
<1>1. ASSUME NEW T \in SUBSET S, \A U \in SUBSET T : U # T => U \in Good
      PROVE  T \in Good
  <2> DEFINE G == [s \in SUBSET T |-> IF s = {} THEN 0
                                      ELSE f[Pick(s)] + SumOf(f, s \ {Pick(s)})]
  <2>1. ASSUME NEW r, r \subseteq T, r # T
        PROVE  Adds(CHOOSE g : Adds(g, f, SUBSET r), f, SUBSET r)
    <3>1. r \in SUBSET T /\ r # T
      BY <2>1
    <3>2. r \in Good
      BY <1>1, <3>1
    <3> QED
      BY <3>2
  <2>2. ASSUME NEW r, r \subseteq T, r # T
        PROVE  G[r] = SumOf(f, r)
    <3> DEFINE g == CHOOSE g : Adds(g, f, SUBSET r)
    <3>1. Adds(g, f, SUBSET r)
      BY <2>1, <2>2
    <3>2. SumOf(f, r) = g[r]
      BY DEF SumOf
    <3> HIDE DEF g
    <3>3. CASE r = {}
      BY <3>1, <3>2, <3>3 DEF Adds
    <3>4. CASE r # {}
      <4> DEFINE q == r \ {Pick(r)}
                 h == CHOOSE h : Adds(h, f, SUBSET q)
      <4>1. Pick(r) \in r
        BY <3>4, PickIn
      <4>2. q \subseteq T /\ q # T /\ q \subseteq r
        BY <2>2, <4>1
      <4>3. Adds(h, f, SUBSET q)
        BY <2>1, <4>2
      <4>4. SumOf(f, q) = h[q]
        BY DEF SumOf
      <4>5. IsFiniteSet(q)
        BY <4>2, FS_Subset
      <4>6. g[r] = f[Pick(r)] + g[q]
        BY <3>1, <3>4 DEF Adds
      <4>7. G[r] = f[Pick(r)] + SumOf(f, q)
        BY <2>2, <3>4
      <4> HIDE DEF q, h, G
      <4>8. g[q] = h[q]
        BY <3>1, <4>2, <4>3, <4>5, AddsAgree
      <4> QED
        BY <3>2, <4>4, <4>6, <4>7, <4>8
    <3> QED
      BY <3>3, <3>4
  <2>3. \A s \in SUBSET T : s # {} => G[s \ {Pick(s)}] = SumOf(f, s \ {Pick(s)})
    <3> SUFFICES ASSUME NEW s \in SUBSET T, s # {}
                 PROVE  G[s \ {Pick(s)}] = SumOf(f, s \ {Pick(s)})
      OBVIOUS
    <3>1. Pick(s) \in s
      BY PickIn
    <3> HIDE DEF G
    <3> QED
      BY <2>2, <3>1
  <2>4. Adds(G, f, SUBSET T)
    <3>1. G = [s \in SUBSET T |-> IF s = {} THEN 0 ELSE f[Pick(s)] + G[s \ {Pick(s)}]]
      <4> DEFINE H == [s \in SUBSET T |-> IF s = {} THEN 0 ELSE f[Pick(s)] + G[s \ {Pick(s)}]]
      <4>1. \A s \in SUBSET T : G[s] = IF s = {} THEN 0 ELSE f[Pick(s)] + SumOf(f, s \ {Pick(s)})
        OBVIOUS
      <4>2. G = [s \in SUBSET T |-> G[s]]
        OBVIOUS
      <4> HIDE DEF G
      <4>3. \A s \in SUBSET T : G[s] = H[s]
        BY <2>3, <4>1
      <4>4. H = [s \in SUBSET T |-> H[s]]
        OBVIOUS
      <4>5. G = H
        <5> HIDE DEF H
        <5> QED
          BY <4>2, <4>3, <4>4
      <4> QED
        BY <4>5
    <3> HIDE DEF G
    <3> QED
      BY <3>1 DEF Adds
  <2> QED
    BY <2>4
<1>2. S \in Good
  <2> HIDE DEF Good
  <2> QED
    BY <1>1, SubsetInduction
<1> QED
  BY <1>2
-----------------------------------------------------------------------------
\* The recursion, on the sets of a finite set.
LEMMA SumRecursion ==
    ASSUME NEW f, NEW S, IsFiniteSet(S)
    PROVE  SumOf(f, S) = IF S = {} THEN 0 ELSE f[Pick(S)] + SumOf(f, S \ {Pick(S)})
<1> DEFINE g == CHOOSE g : Adds(g, f, SUBSET S)
<1>1. Adds(g, f, SUBSET S)
  BY SumsExist
<1>2. SumOf(f, S) = g[S]
  BY DEF SumOf
<1> HIDE DEF g
<1>3. CASE S = {}
  BY <1>1, <1>2, <1>3 DEF Adds
<1>4. CASE S # {}
  <2> DEFINE q == S \ {Pick(S)}
             h == CHOOSE h : Adds(h, f, SUBSET q)
  <2>1. IsFiniteSet(q) /\ q \subseteq S
    BY FS_Subset
  <2>2. Adds(h, f, SUBSET q)
    BY <2>1, SumsExist
  <2>3. SumOf(f, q) = h[q]
    BY DEF SumOf
  <2>4. g[S] = f[Pick(S)] + g[q]
    BY <1>1, <1>4 DEF Adds
  <2>5. g[q] = h[q]
    <3> HIDE DEF q, h
    <3> QED
      BY <1>1, <2>1, <2>2, AddsAgree
  <2> QED
    BY <1>2, <1>4, <2>3, <2>4, <2>5
<1> QED
  BY <1>3, <1>4

LEMMA SumEmpty == ASSUME NEW f PROVE SumOf(f, {}) = 0
  BY SumRecursion, FS_EmptySet

\* A sum of whole numbers is one, and takes them in any order.
LEMMA SumInt ==
    ASSUME NEW f, NEW S, IsFiniteSet(S), \A x \in S : f[x] \in Int
    PROVE  SumOf(f, S) \in Int
<1> DEFINE Good == {T \in SUBSET S : SumOf(f, T) \in Int}
<1>1. ASSUME NEW T \in SUBSET S, \A U \in SUBSET T : U # T => U \in Good
      PROVE  T \in Good
  <2>1. IsFiniteSet(T)
    BY FS_Subset
  <2>2. CASE T = {}
    BY <2>2, SumEmpty
  <2>3. CASE T # {}
    <3>1. Pick(T) \in T
      BY <2>3, PickIn
    <3>2. SumOf(f, T \ {Pick(T)}) \in Int /\ f[Pick(T)] \in Int
      BY <1>1, <3>1
    <3>3. SumOf(f, T) = f[Pick(T)] + SumOf(f, T \ {Pick(T)})
      BY <2>1, <2>3, SumRecursion
    <3> QED
      BY <3>2, <3>3
  <2> QED
    BY <2>2, <2>3
<1>2. S \in Good
  <2> HIDE DEF Good
  <2> QED
    BY <1>1, SubsetInduction
<1> QED
  BY <1>2

LEMMA SumTakesOut ==
    ASSUME NEW f, NEW S, IsFiniteSet(S), \A x \in S : f[x] \in Int, NEW y \in S
    PROVE  SumOf(f, S) = f[y] + SumOf(f, S \ {y})
<1> DEFINE Good == {T \in SUBSET S : \A x \in T : SumOf(f, T) = f[x] + SumOf(f, T \ {x})}
<1>i. ASSUME NEW T \in SUBSET S
      PROVE  IsFiniteSet(T) /\ SumOf(f, T) \in Int
  <2>1. IsFiniteSet(T)
    BY FS_Subset
  <2> QED
    BY <2>1, SumInt
<1>1. ASSUME NEW T \in SUBSET S, \A U \in SUBSET T : U # T => U \in Good
      PROVE  T \in Good
  <2> SUFFICES ASSUME NEW x \in T
               PROVE  SumOf(f, T) = f[x] + SumOf(f, T \ {x})
    OBVIOUS
  <2> DEFINE p == Pick(T)
  <2>1. p \in T
    BY PickIn
  <2>2. SumOf(f, T) = f[p] + SumOf(f, T \ {p})
    BY <1>i, <2>1, SumRecursion
  <2> HIDE DEF p
  <2>3. CASE x = p
    BY <2>2, <2>3
  <2>4. CASE x # p
    <3>1. T \ {p} \in Good /\ T \ {x} \in Good
      BY <1>1, <2>1
    <3>2. SumOf(f, T \ {p}) = f[x] + SumOf(f, (T \ {p}) \ {x})
      BY <2>4, <3>1
    <3>3. SumOf(f, T \ {x}) = f[p] + SumOf(f, (T \ {x}) \ {p})
      BY <2>1, <2>4, <3>1
    <3>4. (T \ {p}) \ {x} = (T \ {x}) \ {p}
      OBVIOUS
    <3> DEFINE rest == SumOf(f, (T \ {x}) \ {p})
    <3>5. rest \in Int /\ f[x] \in Int /\ f[p] \in Int
      <4>1. (T \ {x}) \ {p} \in SUBSET S
        OBVIOUS
      <4> QED
        BY <1>i, <2>1, <4>1
    <3>6. SumOf(f, T \ {p}) = f[x] + rest /\ SumOf(f, T \ {x}) = f[p] + rest
      BY <3>2, <3>3, <3>4
    <3> HIDE DEF rest
    <3> QED
      BY <2>2, <3>5, <3>6
  <2> QED
    BY <2>3, <2>4
<1>2. S \in Good
  <2> HIDE DEF Good
  <2> QED
    BY <1>1, SubsetInduction
<1> QED
  BY <1>2

\* The values in the set are all that counts.
LEMMA SumSame ==
    ASSUME NEW f, NEW g, NEW S, IsFiniteSet(S), \A x \in S : f[x] = g[x]
    PROVE  SumOf(f, S) = SumOf(g, S)
<1> DEFINE Good == {T \in SUBSET S : SumOf(f, T) = SumOf(g, T)}
<1>1. ASSUME NEW T \in SUBSET S, \A U \in SUBSET T : U # T => U \in Good
      PROVE  T \in Good
  <2>1. IsFiniteSet(T)
    BY FS_Subset
  <2>2. CASE T = {}
    BY <2>2, SumEmpty
  <2>3. CASE T # {}
    <3>1. Pick(T) \in T
      BY <2>3, PickIn
    <3>2. SumOf(f, T \ {Pick(T)}) = SumOf(g, T \ {Pick(T)}) /\ f[Pick(T)] = g[Pick(T)]
      BY <1>1, <3>1
    <3>3. /\ SumOf(f, T) = f[Pick(T)] + SumOf(f, T \ {Pick(T)})
          /\ SumOf(g, T) = g[Pick(T)] + SumOf(g, T \ {Pick(T)})
      BY <2>1, <2>3, SumRecursion
    <3> QED
      BY <3>2, <3>3
  <2> QED
    BY <2>2, <2>3
<1>2. S \in Good
  <2> HIDE DEF Good
  <2> QED
    BY <1>1, SubsetInduction
<1> QED
  BY <1>2

\* A sum over two parts.
LEMMA SumParts ==
    ASSUME NEW f, NEW S, IsFiniteSet(S), \A x \in S : f[x] \in Int,
           NEW A, A \subseteq S
    PROVE  /\ SumOf(f, A) \in Int /\ SumOf(f, S \ A) \in Int
           /\ SumOf(f, S) = SumOf(f, A) + SumOf(f, S \ A)
<1>i. ASSUME NEW T \in SUBSET S
      PROVE  IsFiniteSet(T) /\ SumOf(f, T) \in Int
  <2>1. IsFiniteSet(T)
    BY FS_Subset
  <2> QED
    BY <2>1, SumInt
<1> DEFINE B == S \ A
           Good == {T \in SUBSET A : SumOf(f, T \cup B) = SumOf(f, T) + SumOf(f, B)}
<1>1. ASSUME NEW T \in SUBSET A, \A U \in SUBSET T : U # T => U \in Good
      PROVE  T \in Good
  <2>1. CASE T = {}
    <3>1. T \cup B = B /\ SumOf(f, T) = 0 /\ SumOf(f, B) \in Int
      BY <1>i, <2>1, SumEmpty
    <3> HIDE DEF B
    <3> QED
      BY <3>1, <2>1
  <2>2. CASE T # {}
    <3>1. PICK x \in T : TRUE
      BY <2>2
    <3>2. T \ {x} \in Good
      BY <1>1, <3>1
    <3>3. /\ T \cup B \in SUBSET S /\ T \in SUBSET S /\ B \in SUBSET S
          /\ T \ {x} \in SUBSET S /\ (T \ {x}) \cup B \in SUBSET S
      OBVIOUS
    <3>4. (T \cup B) \ {x} = (T \ {x}) \cup B
      BY <3>1
    <3>5. SumOf(f, T \cup B) = f[x] + SumOf(f, (T \ {x}) \cup B)
      <4>1. x \in T \cup B /\ IsFiniteSet(T \cup B) /\ \A z \in T \cup B : f[z] \in Int
        BY <1>i, <3>1, <3>3
      <4> HIDE DEF B
      <4> QED
        BY <3>4, <4>1, SumTakesOut
    <3>6. SumOf(f, T) = f[x] + SumOf(f, T \ {x})
      <4>1. x \in T /\ IsFiniteSet(T) /\ \A z \in T : f[z] \in Int
        BY <1>i, <3>1, <3>3
      <4> QED
        BY <4>1, SumTakesOut
    <3>7. /\ SumOf(f, T \ {x}) \in Int /\ SumOf(f, B) \in Int /\ f[x] \in Int
      BY <1>i, <3>1, <3>3
    <3>8. SumOf(f, (T \ {x}) \cup B) = SumOf(f, T \ {x}) + SumOf(f, B)
      BY <3>2
    <3>9. SumOf(f, T \cup B) = SumOf(f, T) + SumOf(f, B)
      <4> HIDE DEF B
      <4> QED
        BY <3>5, <3>6, <3>7, <3>8
    <3> QED
      BY <3>9
  <2> QED
    BY <2>1, <2>2
<1>2. A \in Good
  <2>1. IsFiniteSet(A)
    BY <1>i
  <2> HIDE DEF Good
  <2> QED
    BY <1>1, <2>1, SubsetInduction
<1>3. A \cup B = S
  OBVIOUS
<1>4. SumOf(f, A) \in Int /\ SumOf(f, B) \in Int
  BY <1>i
<1>5. SumOf(f, A \cup B) = SumOf(f, A) + SumOf(f, B)
  BY <1>2
<1> QED
  BY <1>3, <1>4, <1>5

LEMMA TwoParts ==
    ASSUME NEW f, NEW A, NEW B, NEW S, IsFiniteSet(S), A \cup B = S, A \cap B = {},
           \A x \in S : f[x] \in Int
    PROVE  /\ SumOf(f, A) \in Int /\ SumOf(f, B) \in Int
           /\ SumOf(f, S) = SumOf(f, A) + SumOf(f, B)
<1>1. A \subseteq S /\ B = S \ A
  OBVIOUS
<1>2. /\ SumOf(f, A) \in Int /\ SumOf(f, S \ A) \in Int
      /\ SumOf(f, S) = SumOf(f, A) + SumOf(f, S \ A)
  BY <1>1, SumParts
<1> QED
  BY <1>1, <1>2

LEMMA ImageFinite ==
    ASSUME NEW T, IsFiniteSet(T), NEW m
    PROVE  IsFiniteSet({m[x] : x \in T})
<1> DEFINE h == [x \in T |-> m[x]]
<1>1. h \in Surjection(T, {m[x] : x \in T})
  BY DEF Surjection
<1> HIDE DEF h
<1> QED
  BY <1>1, FS_Surjection

\* Names for the elements, one each, make no difference.
LEMMA SumRenamed ==
    ASSUME NEW f, NEW g, NEW S, IsFiniteSet(S), NEW m,
           \A x \in S : f[x] \in Int /\ g[m[x]] = f[x],
           \A x, y \in S : m[x] = m[y] => x = y
    PROVE  SumOf(g, {m[x] : x \in S}) = SumOf(f, S)
<1> DEFINE Img(T) == {m[x] : x \in T}
           Good == {T \in SUBSET S : SumOf(g, Img(T)) = SumOf(f, T)}
<1>1. ASSUME NEW T \in SUBSET S, \A U \in SUBSET T : U # T => U \in Good
      PROVE  T \in Good
  <2>1. IsFiniteSet(T)
    BY FS_Subset
  <2>2. CASE T = {}
    <3>1. Img(T) = {}
      BY <2>2
    <3> HIDE DEF Img
    <3> QED
      BY <2>2, <3>1, SumEmpty
  <2>3. CASE T # {}
    <3>1. PICK x \in T : TRUE
      BY <2>3
    <3>2. T \ {x} \in Good
      BY <1>1, <3>1
    <3>3. m[x] \in Img(T) /\ Img(T) \ {m[x]} = Img(T \ {x})
      BY <3>1
    <3>4. IsFiniteSet(Img(T))
      BY <2>1, ImageFinite
    <3>5. \A n \in Img(T) : g[n] \in Int
      OBVIOUS
    <3>6. SumOf(f, T) = f[x] + SumOf(f, T \ {x})
      BY <2>1, <3>1, SumTakesOut
    <3>7. SumOf(g, Img(T \ {x})) = SumOf(f, T \ {x}) /\ g[m[x]] = f[x]
      BY <3>1, <3>2
    <3> HIDE DEF Img
    <3>8. SumOf(g, Img(T)) = g[m[x]] + SumOf(g, Img(T) \ {m[x]})
      BY <3>3, <3>4, <3>5, SumTakesOut
    <3>9. SumOf(g, Img(T)) = SumOf(f, T)
      BY <3>3, <3>6, <3>7, <3>8
    <3> QED
      BY <3>9
  <2> QED
    BY <2>2, <2>3
<1>2. S \in Good
  <2> HIDE DEF Good
  <2> QED
    BY <1>1, SubsetInduction
<1> QED
  BY <1>2

\* A sum of sums.
LEMMA SumPlus ==
    ASSUME NEW f, NEW g, NEW h, NEW S, IsFiniteSet(S),
           \A x \in S : f[x] \in Int /\ g[x] \in Int /\ h[x] = f[x] + g[x]
    PROVE  /\ SumOf(f, S) \in Int /\ SumOf(g, S) \in Int
           /\ SumOf(h, S) = SumOf(f, S) + SumOf(g, S)
<1> DEFINE Good == {T \in SUBSET S : SumOf(h, T) = SumOf(f, T) + SumOf(g, T)}
<1>i. ASSUME NEW T \in SUBSET S
      PROVE  IsFiniteSet(T) /\ SumOf(f, T) \in Int /\ SumOf(g, T) \in Int
  <2>1. IsFiniteSet(T)
    BY FS_Subset
  <2> QED
    BY <2>1, SumInt
<1>1. ASSUME NEW T \in SUBSET S, \A U \in SUBSET T : U # T => U \in Good
      PROVE  T \in Good
  <2>1. CASE T = {}
    BY <2>1, SumEmpty
  <2>2. CASE T # {}
    <3>1. Pick(T) \in T
      BY <2>2, PickIn
    <3> DEFINE p == Pick(T)
               q == T \ {p}
    <3>2. SumOf(h, q) = SumOf(f, q) + SumOf(g, q)
      BY <1>1, <3>1
    <3>3. SumOf(f, q) \in Int /\ SumOf(g, q) \in Int
      BY <1>i
    <3>4. f[p] \in Int /\ g[p] \in Int /\ h[p] = f[p] + g[p]
      BY <3>1
    <3>5. /\ SumOf(f, T) = f[p] + SumOf(f, q)
          /\ SumOf(g, T) = g[p] + SumOf(g, q)
          /\ SumOf(h, T) = h[p] + SumOf(h, q)
      BY <1>i, <2>2, SumRecursion
    <3> HIDE DEF p, q
    <3>6. SumOf(h, T) = SumOf(f, T) + SumOf(g, T)
      BY <3>2, <3>3, <3>4, <3>5
    <3> QED
      BY <3>6
  <2> QED
    BY <2>1, <2>2
<1>2. S \in Good
  <2> HIDE DEF Good
  <2> QED
    BY <1>1, SubsetInduction
<1> QED
  BY <1>2, <1>i

\* Zeros count for nothing.
LEMMA SumZero ==
    ASSUME NEW f, NEW S, IsFiniteSet(S), \A x \in S : f[x] = 0
    PROVE  SumOf(f, S) = 0
<1> DEFINE Good == {T \in SUBSET S : SumOf(f, T) = 0}
<1>1. ASSUME NEW T \in SUBSET S, \A U \in SUBSET T : U # T => U \in Good
      PROVE  T \in Good
  <2>1. IsFiniteSet(T)
    BY FS_Subset
  <2>2. CASE T = {}
    BY <2>2, SumEmpty
  <2>3. CASE T # {}
    <3>1. Pick(T) \in T
      BY <2>3, PickIn
    <3>2. SumOf(f, T \ {Pick(T)}) = 0 /\ f[Pick(T)] = 0
      BY <1>1, <3>1
    <3>3. SumOf(f, T) = f[Pick(T)] + SumOf(f, T \ {Pick(T)})
      BY <2>1, <2>3, SumRecursion
    <3> QED
      BY <3>2, <3>3
  <2> QED
    BY <2>2, <2>3
<1>2. S \in Good
  <2> HIDE DEF Good
  <2> QED
    BY <1>1, SubsetInduction
<1> QED
  BY <1>2

LEMMA SumExtended ==
    ASSUME NEW f, NEW g, NEW S, IsFiniteSet(S), NEW A, A \subseteq S,
           \A x \in A : f[x] = g[x] /\ g[x] \in Int, \A x \in S \ A : f[x] = 0
    PROVE  SumOf(f, S) = SumOf(g, A) /\ SumOf(g, A) \in Int
<1> DEFINE B == S \ A
<1>1. IsFiniteSet(A) /\ IsFiniteSet(B)
  BY FS_Subset
<1>2. A \cup B = S /\ A \cap B = {} /\ \A x \in B : f[x] = 0
  OBVIOUS
<1> HIDE DEF B
<1>3. \A x \in S : f[x] \in Int
  BY <1>2
<1>4. SumOf(f, A) \in Int /\ SumOf(f, S) = SumOf(f, A) + SumOf(f, B)
  BY <1>2, <1>3, TwoParts
<1>5. SumOf(f, A) = SumOf(g, A)
  BY <1>1, SumSame
<1>6. SumOf(f, B) = 0
  BY <1>1, <1>2, SumZero
<1> QED
  BY <1>4, <1>5, <1>6

\* What everybody pays is what everybody receives.
LEMMA SumByTarget ==
    ASSUME NEW v, NEW P, IsFiniteSet(P), \A s \in P : v[s] \in Int,
           NEW T, IsFiniteSet(T), NEW m, \A s \in P : m[s] \in T,
           NEW One, \A t \in T : /\ One[t] \subseteq P
                                 /\ \A s \in P : s \in One[t] <=> m[s] = t,
           NEW w, \A t \in T : w[t] = SumOf(v, One[t])
    PROVE  SumOf(w, T) = SumOf(v, P)
<1> DEFINE From(U) == {s \in P : m[s] \in U}
           Good == {U \in SUBSET T : SumOf(w, U) = SumOf(v, From(U))}
<1>1. ASSUME NEW U \in SUBSET T, \A R \in SUBSET U : R # U => R \in Good
      PROVE  U \in Good
  <2>1. IsFiniteSet(U)
    BY FS_Subset
  <2>2. CASE U = {}
    <3>1. From(U) = {}
      BY <2>2
    <3> HIDE DEF From
    <3> QED
      BY <2>2, <3>1, SumEmpty
  <2>3. CASE U # {}
    <3> DEFINE t == Pick(U)
               R == U \ {t}
    <3>1. t \in U
      BY <2>3, PickIn
    <3>2. R \in Good
      BY <1>1, <3>1
    <3>3. SumOf(w, R) = SumOf(v, From(R))
      BY <3>2
    <3>4. SumOf(w, U) = w[t] + SumOf(w, R)
      BY <2>1, <2>3, SumRecursion
    <3>5. w[t] = SumOf(v, One[t])
      BY <3>1
    <3>6. One[t] \cup From(R) = From(U) /\ One[t] \cap From(R) = {} /\ From(U) \subseteq P
      BY <3>1
    <3>7. IsFiniteSet(From(U)) /\ \A s \in From(U) : v[s] \in Int
      <4> HIDE DEF From
      <4> QED
        BY <3>6, FS_Subset
    <3> HIDE DEF t, R, From
    <3>8. SumOf(v, From(U)) = SumOf(v, One[t]) + SumOf(v, From(R))
      BY <3>6, <3>7, TwoParts
    <3> QED
      BY <3>3, <3>4, <3>5, <3>8
  <2> QED
    BY <2>2, <2>3
<1>2. T \in Good
  <2> HIDE DEF Good
  <2> QED
    BY <1>1, SubsetInduction
<1>3. From(T) = P
  OBVIOUS
<1> QED
  BY <1>2, <1>3
-----------------------------------------------------------------------------
\* The total of a function that a set and an expression give.
LEMMA TotalOver ==
    ASSUME NEW S, IsFiniteSet(S), NEW f, NEW v, DOMAIN f = S, \A x \in S : f[x] = v[x]
    PROVE  Total(f) = SumOf(v, S)
<1>1. Total(f) = SumOf(f, S)
  BY TotalIsSum
<1> QED
  BY <1>1, SumSame

Gained(ops, S) == {o \in S : ops[o].amount > 0}

Spent(ops, S) == {o \in S : ops[o].amount <= 0}

Gains(ops) == [o \in DOMAIN ops |-> ops[o].amount]

Costs(ops) == [o \in DOMAIN ops |-> -ops[o].amount]

\* Incoming and outgoing operations, as sums over values that are given once.
LEMMA SignedSums ==
    ASSUME NEW ops, IsFiniteSet(DOMAIN ops), \A o \in DOMAIN ops : ops[o].amount \in Int,
           NEW S \in SUBSET DOMAIN ops
    PROVE  /\ IsFiniteSet(Gained(ops, S)) /\ IsFiniteSet(Spent(ops, S))
           /\ Incoming(ops, S) = SumOf(Gains(ops), Gained(ops, S))
           /\ Outgoing(ops, S) = SumOf(Costs(ops), Spent(ops, S))
           /\ \A o \in DOMAIN ops : Gains(ops)[o] \in Int /\ Costs(ops)[o] \in Int
<1>1. Gained(ops, S) \subseteq DOMAIN ops /\ Spent(ops, S) \subseteq DOMAIN ops
  BY DEF Gained, Spent
<1>2. IsFiniteSet(Gained(ops, S)) /\ IsFiniteSet(Spent(ops, S))
  BY <1>1, FS_Subset
<1>3. Incoming(ops, S) = SumOf(Gains(ops), Gained(ops, S))
  <2> DEFINE f == [o \in Gained(ops, S) |-> ops[o].amount]
  <2>1. Incoming(ops, S) = Total(f)
    BY DEF Incoming, Gained
  <2>2. DOMAIN f = Gained(ops, S) /\ \A o \in Gained(ops, S) : f[o] = Gains(ops)[o]
    BY <1>1 DEF Gains
  <2> HIDE DEF f
  <2> QED
    BY <1>2, <2>1, <2>2, TotalOver
<1>4. Outgoing(ops, S) = SumOf(Costs(ops), Spent(ops, S))
  <2> DEFINE f == [o \in Spent(ops, S) |-> -ops[o].amount]
  <2>1. Outgoing(ops, S) = Total(f)
    BY DEF Outgoing, Spent
  <2>2. DOMAIN f = Spent(ops, S) /\ \A o \in Spent(ops, S) : f[o] = Costs(ops)[o]
    BY <1>1 DEF Costs
  <2> HIDE DEF f
  <2> QED
    BY <1>2, <2>1, <2>2, TotalOver
<1>5. ASSUME NEW o \in DOMAIN ops
      PROVE  Gains(ops)[o] \in Int /\ Costs(ops)[o] \in Int
  BY DEF Gains, Costs
<1> QED
  BY <1>2, <1>3, <1>4, <1>5

\* Transfers and the other operations make up all of them, on both sides.
LEMMA TransfersApart ==
    ASSUME NEW ops, IsFiniteSet(DOMAIN ops), \A o \in DOMAIN ops : ops[o].amount \in Int
    PROVE  LET T == Transfers(ops)
               R == DOMAIN ops \ Transfers(ops)
           IN  /\ {Incoming(ops, T), Incoming(ops, R), Outgoing(ops, T), Outgoing(ops, R)}
                    \subseteq Int
               /\ Incoming(ops, DOMAIN ops) = Incoming(ops, T) + Incoming(ops, R)
               /\ Outgoing(ops, DOMAIN ops) = Outgoing(ops, T) + Outgoing(ops, R)
<1> DEFINE D == DOMAIN ops
           T == Transfers(ops)
           R == D \ T
<1>1. T \in SUBSET D /\ R \in SUBSET D /\ D \in SUBSET D
  BY DEF Transfers
<1>2. /\ Gained(ops, T) \subseteq Gained(ops, D)
      /\ Gained(ops, R) = Gained(ops, D) \ Gained(ops, T)
      /\ Spent(ops, T) \subseteq Spent(ops, D)
      /\ Spent(ops, R) = Spent(ops, D) \ Spent(ops, T)
      /\ Gained(ops, D) \subseteq D /\ Spent(ops, D) \subseteq D
  BY <1>1 DEF Gained, Spent
<1> HIDE DEF T, R
<1>3. ASSUME NEW S \in SUBSET D
      PROVE  /\ IsFiniteSet(Gained(ops, S)) /\ IsFiniteSet(Spent(ops, S))
             /\ Incoming(ops, S) = SumOf(Gains(ops), Gained(ops, S))
             /\ Outgoing(ops, S) = SumOf(Costs(ops), Spent(ops, S))
             /\ \A o \in D : Gains(ops)[o] \in Int /\ Costs(ops)[o] \in Int
  BY SignedSums
<1> HIDE DEF D
<1>4. /\ SumOf(Gains(ops), Gained(ops, T)) \in Int
      /\ SumOf(Gains(ops), Gained(ops, R)) \in Int
      /\ SumOf(Gains(ops), Gained(ops, D)) =
           SumOf(Gains(ops), Gained(ops, T)) + SumOf(Gains(ops), Gained(ops, R))
  <2>1. IsFiniteSet(Gained(ops, D)) /\ \A o \in Gained(ops, D) : Gains(ops)[o] \in Int
    BY <1>1, <1>2, <1>3
  <2>2. /\ Gained(ops, T) \cup Gained(ops, R) = Gained(ops, D)
        /\ Gained(ops, T) \cap Gained(ops, R) = {}
    BY <1>2
  <2> QED
    BY <2>1, <2>2, TwoParts
<1>5. /\ SumOf(Costs(ops), Spent(ops, T)) \in Int
      /\ SumOf(Costs(ops), Spent(ops, R)) \in Int
      /\ SumOf(Costs(ops), Spent(ops, D)) =
           SumOf(Costs(ops), Spent(ops, T)) + SumOf(Costs(ops), Spent(ops, R))
  <2>1. IsFiniteSet(Spent(ops, D)) /\ \A o \in Spent(ops, D) : Costs(ops)[o] \in Int
    BY <1>1, <1>2, <1>3
  <2>2. /\ Spent(ops, T) \cup Spent(ops, R) = Spent(ops, D)
        /\ Spent(ops, T) \cap Spent(ops, R) = {}
    BY <1>2
  <2> QED
    BY <2>1, <2>2, TwoParts
<1>6. /\ {Incoming(ops, T), Incoming(ops, R), Outgoing(ops, T), Outgoing(ops, R)} \subseteq Int
      /\ Incoming(ops, D) = Incoming(ops, T) + Incoming(ops, R)
      /\ Outgoing(ops, D) = Outgoing(ops, T) + Outgoing(ops, R)
  BY <1>1, <1>3, <1>4, <1>5
<1> QED
  BY <1>6 DEF D, T, R

LEMMA NotReinvestedIsInt ==
    ASSUME NEW a \in Row
    PROVE  NotReinvested(a) \in Int
<1>1. a.balance \in Int /\ a.reinvest \in Int /\ a.min \in Int /\ a.max \in Int
  BY DEF Row
<1>2. GainRate(a) \in Int
  BY <1>1 DEF GainRate
<1>3. a.balance * GainRate(a) \in Int
  BY <1>1, <1>2
<1>4. (a.balance * GainRate(a)) \div 1200 \in Int
  BY <1>3
<1>5. ((a.balance * GainRate(a)) \div 1200) * (100 - a.reinvest) \in Int
  BY <1>1, <1>4
<1> QED
  BY <1>5 DEF NotReinvested

\* The yields of a month: those paid to an account and the others.
LEMMA YieldsApart ==
    ASSUME NEW l, IsFiniteSet(DOMAIN l), \A s \in DOMAIN l : NotReinvested(l[s]) \in Int
    PROVE  /\ Total(YieldPayouts(l)) \in Int /\ UnpaidYield(l) \in Int
           /\ MonthlyYieldPayout(l) = Total(YieldPayouts(l)) + UnpaidYield(l)
<1> DEFINE v == [s \in DOMAIN l |-> NotReinvested(l[s])]
           Y == Yielding(l)
           P == DOMAIN YieldPayouts(l)
<1>1. Y \subseteq DOMAIN l /\ P \subseteq Y
  BY DEF Yielding, YieldPayouts
<1>2. IsFiniteSet(Y) /\ IsFiniteSet(P) /\ IsFiniteSet(Y \ P)
  BY <1>1, FS_Subset
<1>3. \A s \in DOMAIN l : v[s] \in Int
  OBVIOUS
<1>4. /\ SumOf(v, P) \in Int /\ SumOf(v, Y \ P) \in Int
      /\ SumOf(v, Y) = SumOf(v, P) + SumOf(v, Y \ P)
  <2>1. \A s \in Y : v[s] \in Int
    BY <1>1, <1>3
  <2>2. P \cup (Y \ P) = Y /\ P \cap (Y \ P) = {} /\ IsFiniteSet(Y)
    BY <1>1, <1>2
  <2> HIDE DEF v, Y, P
  <2> DEFINE Q == Y \ P
  <2>3. P \cup Q = Y /\ P \cap Q = {}
    BY <2>2
  <2> HIDE DEF Q
  <2>4. /\ SumOf(v, P) \in Int /\ SumOf(v, Q) \in Int
        /\ SumOf(v, Y) = SumOf(v, P) + SumOf(v, Q)
    BY <2>1, <2>2, <2>3, TwoParts
  <2> QED
    BY <2>4 DEF Q
<1>5. Total(YieldPayouts(l)) = SumOf(v, P)
  <2>1. \A s \in P : YieldPayouts(l)[s] = v[s]
    BY <1>1 DEF YieldPayouts
  <2> HIDE DEF v
  <2> QED
    BY <1>2, <2>1, TotalOver
<1>6. UnpaidYield(l) = SumOf(v, Y \ P)
  <2> DEFINE f == [s \in Y \ P |-> NotReinvested(l[s])]
  <2>1. UnpaidYield(l) = Total(f)
    BY DEF UnpaidYield
  <2>2. DOMAIN f = Y \ P /\ \A s \in Y \ P : f[s] = v[s]
    BY <1>1
  <2> HIDE DEF f, v, Y, P
  <2> QED
    BY <1>2, <2>1, <2>2, TotalOver
<1>7. MonthlyYieldPayout(l) = SumOf(v, Y)
  <2> DEFINE f == [s \in Y |-> NotReinvested(l[s])]
  <2>1. MonthlyYieldPayout(l) = Total(f)
    BY DEF MonthlyYieldPayout
  <2>2. DOMAIN f = Y /\ \A s \in Y : f[s] = v[s]
    BY <1>1
  <2> HIDE DEF f, v, Y
  <2> QED
    BY <1>2, <2>1, <2>2, TotalOver
<1> QED
  BY <1>4, <1>5, <1>6, <1>7

\* The two pages, on the same lists.
LEMMA PagesReconcile ==
    ASSUME NEW ops, IsFiniteSet(DOMAIN ops), ops \in [DOMAIN ops -> Operation],
           NEW l, IsFiniteSet(DOMAIN l), l \in [DOMAIN l -> Row]
    PROVE  LET page    == PageTotals(ops, l)
               summary == MonthlySummary(ops, l)
           IN  page.income - page.expenses + UnpaidYield(l) =
                 summary.income - summary.expenses
                   + Incoming(ops, Transfers(ops)) - Outgoing(ops, Transfers(ops))
<1> DEFINE T == Transfers(ops)
           R == DOMAIN ops \ T
           page == PageTotals(ops, l)
           summary == MonthlySummary(ops, l)
<1>1. /\ page.income = Incoming(ops, DOMAIN ops) + Total(YieldPayouts(l))
      /\ page.expenses = Outgoing(ops, DOMAIN ops)
  BY DEF PageTotals
<1>2. /\ summary.income = Incoming(ops, R) + MonthlyYieldPayout(l)
      /\ summary.expenses = Outgoing(ops, R)
  BY DEF MonthlySummary
<1>3. /\ Incoming(ops, T) \in Int /\ Incoming(ops, R) \in Int
      /\ Outgoing(ops, T) \in Int /\ Outgoing(ops, R) \in Int
      /\ Incoming(ops, DOMAIN ops) = Incoming(ops, T) + Incoming(ops, R)
      /\ Outgoing(ops, DOMAIN ops) = Outgoing(ops, T) + Outgoing(ops, R)
  <2>1. \A o \in DOMAIN ops : ops[o].amount \in Int
    BY DEF Operation
  <2> QED
    BY <2>1, TransfersApart
<1>4. /\ Total(YieldPayouts(l)) \in Int /\ UnpaidYield(l) \in Int
      /\ MonthlyYieldPayout(l) = Total(YieldPayouts(l)) + UnpaidYield(l)
  <2>1. \A s \in DOMAIN l : NotReinvested(l[s]) \in Int
    BY NotReinvestedIsInt
  <2> QED
    BY <2>1, YieldsApart
<1> HIDE DEF T, R, page, summary
<1>5. page.income - page.expenses + UnpaidYield(l) =
        summary.income - summary.expenses + Incoming(ops, T) - Outgoing(ops, T)
  BY <1>1, <1>2, <1>3, <1>4
<1> QED
  BY <1>5 DEF T, page, summary
-----------------------------------------------------------------------------
(***************************************************************************)
(* Tables, lists and maps stay finite.                                     *)
(***************************************************************************)

TablesFinite == IsFiniteSet(DOMAIN accounts) /\ IsFiniteSet(DOMAIN operations)

ReadsFinite ==
    \A r \in Slots : IsFiniteSet(DOMAIN listRead[r]) /\ IsFiniteSet(DOMAIN opsRead[r])

MapsFinite == IsFiniteSet(DOMAIN list) /\ IsFiniteSet(DOMAIN balances)

LEMMA OneMore ==
    ASSUME NEW S, IsFiniteSet(S), NEW T, NEW x, T \subseteq S \cup {x}
    PROVE  IsFiniteSet(T)
<1>1. IsFiniteSet(S \cup {x})
  BY FS_AddElement
<1> QED
  BY <1>1, FS_Subset

LEMMA EmptyFinite == IsFiniteSet(DOMAIN Empty)
  BY EmptyTyped, FS_EmptySet

\* A write inserts one row at most.
LEMMA WriteFinite ==
    ASSUME NEW r \in Slots, Write(r), TablesFinite
    PROVE  TablesFinite'
<1>1. \E x : /\ DOMAIN accounts' \subseteq DOMAIN accounts \cup {x}
             /\ DOMAIN operations' \subseteq DOMAIN operations \cup {x}
  <2>1. CASE InsertAccount(r)
    <3>1. operations' = operations
      BY <2>1 DEF InsertAccount
    <3>2. \E a : DOMAIN accounts' = DOMAIN accounts \cup {a}
      BY <2>1 DEF InsertAccount
    <3> QED
      BY <3>1, <3>2
  <2>2. CASE InsertOperation(r)
    <3>1. accounts' = accounts
      BY <2>2 DEF InsertOperation
    <3>2. \E o : DOMAIN operations' = DOMAIN operations \cup {o}
      BY <2>2 DEF InsertOperation
    <3> QED
      BY <3>1, <3>2
  <2>3. CASE SaveAccount(r) \/ UpdateAccount(r) \/ UpdateBalance(r) \/ DeleteAccount(r)
    <3>1. DOMAIN operations' \subseteq DOMAIN operations
      BY <2>3 DEF SaveAccount, UpdateAccount, UpdateBalance, DeleteAccount, OperationsWithout
    <3>2. DOMAIN accounts' \subseteq DOMAIN accounts
      BY <2>3 DEF SaveAccount, UpdateAccount, UpdateBalance, DeleteAccount, AccountsWithout
    <3> QED
      BY <3>1, <3>2
  <2>4. CASE SaveOperation(r) \/ UpdateOperation(r) \/ DeleteOperation(r)
    <3>1. accounts' = accounts
      BY <2>4 DEF SaveOperation, UpdateOperation, DeleteOperation
    <3>2. DOMAIN operations' \subseteq DOMAIN operations
      BY <2>4 DEF SaveOperation, UpdateOperation, DeleteOperation, Changed
    <3> QED
      BY <3>1, <3>2
  <2> QED
    BY <2>1, <2>2, <2>3, <2>4 DEF Write
<1> QED
  BY <1>1, OneMore DEF TablesFinite

\* A read takes rows of a table, or nothing.
LEMMA ReadFinite ==
    ASSUME TablesFinite, NEW u
    PROVE  /\ \A l \in Read(AccountsOf(u)) : IsFiniteSet(DOMAIN l)
           /\ \A l \in Read(OperationsOf(u)) : IsFiniteSet(DOMAIN l)
<1>1. /\ DOMAIN AccountsOf(u) \subseteq DOMAIN accounts
      /\ DOMAIN OperationsOf(u) \subseteq DOMAIN operations
  BY DEF AccountsOf, OperationsOf
<1>2. IsFiniteSet(DOMAIN AccountsOf(u)) /\ IsFiniteSet(DOMAIN OperationsOf(u))
  BY <1>1, FS_Subset DEF TablesFinite
<1>3. \A rows : \A l \in Read(rows) : l = rows \/ l = Empty
  BY DEF Read
<1> QED
  BY <1>2, <1>3, EmptyFinite

\* What the requests have read, over each step that reads.
LEMMA ReadsStayFinite ==
    ASSUME TypeOK, TablesFinite, ReadsFinite, NEW r \in Slots,
           \/ reads' = reads
           \/ ReadAccounts(r) \/ ReadOperations(r)
           \/ Answer(r)
           \/ DashboardAccounts(r) \/ DashboardPartial(r)
    PROVE  ReadsFinite'
<1>t. /\ listRead = [q \in Slots |-> listRead[q]]
      /\ opsRead = [q \in Slots |-> opsRead[q]]
  BY DEF TypeOK, LedgerTypeOK
<1>l. ASSUME NEW l, IsFiniteSet(DOMAIN l), listRead' = [listRead EXCEPT ![r] = l]
      PROVE  \A q \in Slots : IsFiniteSet(DOMAIN listRead'[q])
  <2>1. \A q \in Slots : listRead'[q] = IF q = r THEN l ELSE listRead[q]
    BY <1>l, <1>t
  <2> QED
    BY <2>1, <1>l DEF ReadsFinite
<1>o. ASSUME NEW l, IsFiniteSet(DOMAIN l), opsRead' = [opsRead EXCEPT ![r] = l]
      PROVE  \A q \in Slots : IsFiniteSet(DOMAIN opsRead'[q])
  <2>1. \A q \in Slots : opsRead'[q] = IF q = r THEN l ELSE opsRead[q]
    BY <1>o, <1>t
  <2> QED
    BY <2>1, <1>o DEF ReadsFinite
<1>1. CASE reads' = reads
  BY <1>1 DEF reads, ReadsFinite
<1>2. CASE ReadAccounts(r)
  <2>1. PICK l \in Read(AccountsOf(req[r].user)) : listRead' = [listRead EXCEPT ![r] = l]
    BY <1>2 DEF ReadAccounts
  <2>2. opsRead' = opsRead
    BY <1>2 DEF ReadAccounts
  <2>3. IsFiniteSet(DOMAIN l)
    BY <2>1, ReadFinite
  <2> QED
    BY <1>l, <2>1, <2>2, <2>3 DEF ReadsFinite
<1>3. CASE ReadOperations(r)
  <2>1. PICK l \in Read(OperationsOf(req[r].user)) : opsRead' = [opsRead EXCEPT ![r] = l]
    BY <1>3 DEF ReadOperations
  <2>2. listRead' = listRead
    BY <1>3 DEF ReadOperations
  <2>3. IsFiniteSet(DOMAIN l)
    BY <2>1, ReadFinite
  <2> QED
    BY <1>o, <2>1, <2>2, <2>3 DEF ReadsFinite
<1>4. CASE Answer(r)
  BY <1>4, <1>l, <1>o, EmptyFinite DEF Answer, ReadsFinite
<1>5. CASE DashboardAccounts(r)
  <2>1. /\ listRead' = [listRead EXCEPT ![r] = AccountsOf(req[r].user)]
        /\ opsRead' = opsRead
    BY <1>5 DEF DashboardAccounts
  <2>2. IsFiniteSet(DOMAIN AccountsOf(req[r].user))
    <3>1. AccountsOf(req[r].user) \in Read(AccountsOf(req[r].user))
      BY DEF Read
    <3> QED
      BY <3>1, ReadFinite
  <2> QED
    BY <1>l, <2>1, <2>2 DEF ReadsFinite
<1>6. CASE DashboardPartial(r)
  <2>1. listRead' = [listRead EXCEPT ![r] = Empty] /\ opsRead' = opsRead
    BY <1>6 DEF DashboardPartial
  <2> QED
    BY <1>l, <2>1, EmptyFinite DEF ReadsFinite
<1> QED
  BY <1>1, <1>2, <1>3, <1>4, <1>5, <1>6

\* A step of the calculation adds one entry at most to the balances.
LEMMA CalculateFinite ==
    ASSUME TypeOK, MapsFinite, Calculate
    PROVE  MapsFinite' /\ list' = list
<1>1. list' = list
  BY DEF Calculate, VisitInactive, VisitYielding, PayOut, EndMonth
<1>2. \E x : DOMAIN balances' \subseteq DOMAIN balances \cup {x}
  <2>1. CASE \E s \in left : VisitInactive(s) \/ VisitYielding(s)
    <3>1. DOMAIN balances' = DOMAIN balances
      BY <2>1 DEF VisitInactive, VisitYielding
    <3> QED
      BY <3>1
  <2>2. CASE \E t \in DOMAIN payouts : PayOut(t)
    BY <2>2 DEF PayOut, Credit
  <2>3. CASE EndMonth
    BY <2>3 DEF EndMonth
  <2> QED
    BY <2>1, <2>2, <2>3 DEF Calculate
<1> QED
  BY <1>1, <1>2, OneMore DEF MapsFinite

LEMMA MapsStayFinite ==
    ASSUME TypeOK, TablesFinite, MapsFinite, [Next]_vars
    PROVE  MapsFinite'
<1>1. ASSUME UNCHANGED projectionVars PROVE MapsFinite'
  BY <1>1 DEF projectionVars, MapsFinite
<1>2. ASSUME NEW r \in Slots, DashboardAccounts(r) PROVE MapsFinite'
  <2>1. list' = AccountsOf(req[r].user) /\ DOMAIN balances' = DOMAIN AccountsOf(req[r].user)
    BY <1>2 DEF DashboardAccounts, Begin
  <2>2. IsFiniteSet(DOMAIN AccountsOf(req[r].user))
    <3>1. AccountsOf(req[r].user) \in Read(AccountsOf(req[r].user))
      BY DEF Read
    <3> QED
      BY <3>1, ReadFinite
  <2> QED
    BY <2>1, <2>2 DEF MapsFinite
<1>3. ASSUME NEW r \in Slots, DashboardOperations(r) \/ DashboardPartial(r) PROVE MapsFinite'
  <2>1. list' = Empty /\ balances' = Empty
    BY <1>3 DEF DashboardOperations, DashboardPartial, Clear
  <2> QED
    BY <2>1, EmptyFinite DEF MapsFinite
<1>4. ASSUME NEW r \in Slots, DashboardError(r) PROVE MapsFinite'
  BY <1>1, <1>4 DEF DashboardError
<1>5. ASSUME UNCHANGED vars PROVE MapsFinite'
  BY <1>1, <1>5 DEF vars
<1> QED
  BY <1>1, <1>2, <1>3, <1>4, <1>5, CalculateFinite DEF Next, Dash

FiniteInv == TablesFinite /\ ReadsFinite /\ MapsFinite

LEMMA NextFinite ==
    ASSUME TypeOK, FiniteInv, [Next]_vars
    PROVE  FiniteInv'
<1>1. TablesFinite'
  <2>1. CASE \E r \in Slots : Write(r)
    BY <2>1, WriteFinite DEF FiniteInv
  <2>2. CASE \A r \in Slots : ~Write(r)
    <3>1. accounts' = accounts /\ operations' = operations
      BY <2>2, OthersKeepTables
    <3> QED
      BY <3>1 DEF FiniteInv, TablesFinite
  <2> QED
    BY <2>1, <2>2
<1>2. ReadsFinite'
  <2> DEFINE Touches(r) == \/ reads' = reads
                           \/ ReadAccounts(r) \/ ReadOperations(r)
                           \/ Answer(r)
                           \/ DashboardAccounts(r) \/ DashboardPartial(r)
  <2>w. ASSUME NEW r \in Slots, Write(r) PROVE reads' = reads
    BY <2>w, WriteTyped DEF TypeOK
  <2>1. ASSUME NEW r \in Slots, Serve(r) PROVE Touches(r)
    BY <2>1, <2>w DEF Serve, Submit, Refuse, Show, PageAccounts, PageOperations,
                      TableOperations, TableAccounts, reads
  <2>2. ASSUME NEW r \in Slots, Dash(r) PROVE Touches(r)
    BY <2>2 DEF Dash, DashboardError, DashboardOperations
  <2>3. ASSUME UNCHANGED ledgerVars PROVE reads' = reads
    BY <2>3 DEF ledgerVars
  <2>4. (\E r \in Slots : Touches(r)) \/ reads' = reads
    BY <2>1, <2>2, <2>3 DEF Next, vars
  <2>5. CASE reads' = reads
    BY <2>5 DEF reads, ReadsFinite, FiniteInv
  <2>6. CASE \E r \in Slots : Touches(r)
    BY <2>6, ReadsStayFinite DEF FiniteInv
  <2> QED
    BY <2>4, <2>5, <2>6
<1>3. MapsFinite'
  BY MapsStayFinite DEF FiniteInv
<1> QED
  BY <1>1, <1>2, <1>3 DEF FiniteInv

LEMMA InitFinite == Init => FiniteInv
<1> SUFFICES ASSUME Init PROVE FiniteInv
  OBVIOUS
<1>1. /\ accounts = InitialAccounts /\ operations = Empty
      /\ list = Empty /\ balances = Empty
      /\ \A r \in Slots : listRead[r] = Empty /\ opsRead[r] = Empty
  BY DEF Init, LedgerInit, Idle
<1> QED
  BY <1>1, EmptyFinite, InitialAssumption
     DEF FiniteInv, TablesFinite, ReadsFinite, MapsFinite

LEMMA SpecFinite == Spec => []FiniteInv
<1>1. Invariant /\ FiniteInv /\ [Next]_vars => FiniteInv'
  BY NextFinite DEF Invariant
<1> QED
  BY <1>1, InitFinite, SpecInvariant, PTL DEF Spec

\* For any lists of accounts and operations that a request has read, at whatever
\* moments: the totals of the page (AccountsPage, renderAccountsList) and those of
\* the dashboard (CalculateMonthlySummary) differ by the transfers and by the
\* yields that no account receives, and by nothing else.
THEOREM PageAndDashboardReconcile == Spec => []TotalsReconcile
<1>1. Invariant /\ FiniteInv => TotalsReconcile
  <2> SUFFICES ASSUME Invariant, FiniteInv, NEW r \in Slots
               PROVE  LET ops     == opsRead[r]
                          page    == PageTotals(ops, listRead[r])
                          summary == MonthlySummary(ops, listRead[r])
                      IN  page.income - page.expenses + UnpaidYield(listRead[r]) =
                            summary.income - summary.expenses
                              + Incoming(ops, Transfers(ops)) - Outgoing(ops, Transfers(ops))
    BY DEF TotalsReconcile
  <2>1. /\ opsRead[r] \in [DOMAIN opsRead[r] -> Operation]
        /\ listRead[r] \in [DOMAIN listRead[r] -> Row]
    BY DEF Invariant, TypeOK, LedgerTypeOK
  <2>2. IsFiniteSet(DOMAIN opsRead[r]) /\ IsFiniteSet(DOMAIN listRead[r])
    BY DEF FiniteInv, ReadsFinite
  <2> QED
    BY <2>1, <2>2, PagesReconcile
<1> QED
  BY <1>1, SpecInvariant, SpecFinite, PTL
-----------------------------------------------------------------------------
(***************************************************************************)
(* The lines of a chart and its end, as they are rounded.                  *)
(***************************************************************************)

\* A quotient, and what is left.
LEMMA Quotient ==
    ASSUME NEW n \in Nat, NEW d \in Nat \ {0}
    PROVE  n \div d \in Int /\ d * (n \div d) <= n /\ n < d * (n \div d) + d
  OBVIOUS

\* math.Round moves an amount by half a unit at most, whatever its sign.
LEMMA RoundedNear ==
    ASSUME NEW x \in Int
    PROVE  Rounded(x) \in Int /\ 2 * Abs(Rounded(x) - x) <= Unit
<1> DEFINE n == 2 * Abs(x) + Unit
           d == 2 * Unit
           q == n \div d
           size == q * Unit
<1>1. n \in Nat /\ d \in Nat \ {0} /\ Unit \in Nat
  BY UnitAssumption DEF Abs
<1>2. q \in Int /\ d * q <= n /\ n < d * q + d
  <2> HIDE DEF n, d
  <2> QED
    BY <1>1, Quotient
<1>3. d * q = 2 * size /\ size \in Int
  <2> HIDE DEF q
  <2> QED
    BY <1>1, <1>2
<1>4. Rounded(x) = IF x < 0 THEN -size ELSE size
  BY DEF Rounded
<1>5. 2 * size <= 2 * Abs(x) + Unit /\ 2 * Abs(x) - Unit < 2 * size
  <2>1. 2 * size <= n /\ n < 2 * size + d
    <3> HIDE DEF n, d, q, size
    <3> QED
      BY <1>2, <1>3
  <2>2. Abs(x) \in Int
    BY DEF Abs
  <2> HIDE DEF q, size
  <2> QED
    BY <1>1, <1>3, <2>1, <2>2
<1>6. Abs(x) = IF x < 0 THEN -x ELSE x
  BY DEF Abs
<1> HIDE DEF size
<1> QED
  BY <1>1, <1>3, <1>4, <1>5, <1>6 DEF Abs

LEMMA SpreadOfTwo ==
    ASSUME NEW x \in Int, NEW y \in Int, NEW z \in Int, NEW u \in Int, NEW v \in Int,
           2 * Abs(x - y) <= u, 2 * Abs(y - z) <= v
    PROVE  2 * Abs(x - z) <= u + v
  BY DEF Abs

LEMMA SpreadOfSums ==
    ASSUME NEW w \in Int, NEW x \in Int, NEW y \in Int, NEW z \in Int,
           NEW u \in Int, NEW v \in Int,
           2 * Abs(w - x) <= u, 2 * Abs(y - z) <= v
    PROVE  2 * Abs((w + y) - (x + z)) <= u + v
  BY DEF Abs

\* Sums whose terms differ by half a unit at most differ by half a unit for each.
LEMMA SumWithin ==
    ASSUME NEW f, NEW g, NEW S, IsFiniteSet(S),
           \A x \in S : f[x] \in Int /\ g[x] \in Int /\ 2 * Abs(f[x] - g[x]) <= Unit
    PROVE  2 * Abs(SumOf(f, S) - SumOf(g, S)) <= Unit * Cardinality(S)
<1> DEFINE Good == {T \in SUBSET S :
                      2 * Abs(SumOf(f, T) - SumOf(g, T)) <= Unit * Cardinality(T)}
<1>1. ASSUME NEW T \in SUBSET S, \A U \in SUBSET T : U # T => U \in Good
      PROVE  T \in Good
  <2>1. IsFiniteSet(T)
    BY FS_Subset
  <2>2. CASE T = {}
    <3>1. SumOf(f, T) = 0 /\ SumOf(g, T) = 0 /\ Cardinality(T) = 0
      BY <2>2, SumEmpty, FS_EmptySet
    <3>2. 2 * Abs(SumOf(f, T) - SumOf(g, T)) <= Unit * Cardinality(T)
      BY <3>1, UnitAssumption DEF Abs
    <3> QED
      BY <3>2
  <2>3. CASE T # {}
    <3> DEFINE x == Pick(T)
               R == T \ {x}
    <3>1. x \in T /\ R \in SUBSET T /\ R # T
      BY <2>3, PickIn
    <3>2. 2 * Abs(SumOf(f, R) - SumOf(g, R)) <= Unit * Cardinality(R)
      BY <1>1, <3>1
    <3>3. SumOf(f, T) = f[x] + SumOf(f, R) /\ SumOf(g, T) = g[x] + SumOf(g, R)
      BY <2>1, <2>3, SumRecursion
    <3>4. f[x] \in Int /\ g[x] \in Int /\ 2 * Abs(f[x] - g[x]) <= Unit
      BY <3>1
    <3>5. IsFiniteSet(R) /\ \A y \in R : f[y] \in Int /\ g[y] \in Int
      BY <2>1, FS_Subset
    <3>6. Cardinality(T) \in Nat /\ Cardinality(R) = Cardinality(T) - 1
      BY <2>1, <3>1, FS_RemoveElement, FS_CardinalityType
    <3> HIDE DEF x, R
    <3>7. SumOf(f, R) \in Int /\ SumOf(g, R) \in Int
      BY <3>5, SumInt
    <3>8. Unit * Cardinality(T) = Unit * Cardinality(R) + Unit /\ Unit * Cardinality(R) \in Int
      BY <3>6, UnitAssumption
    <3>9. 2 * Abs(SumOf(f, T) - SumOf(g, T)) <= Unit * Cardinality(T)
      <4> DEFINE fx == f[x]
                 gx == g[x]
                 fr == SumOf(f, R)
                 gr == SumOf(g, R)
                 most == Unit * Cardinality(R)
      <4>1. /\ fx \in Int /\ gx \in Int /\ fr \in Int /\ gr \in Int
            /\ Unit \in Int /\ most \in Int
            /\ 2 * Abs(fx - gx) <= Unit /\ 2 * Abs(fr - gr) <= most
        BY <3>2, <3>4, <3>7, <3>8, UnitAssumption
      <4>2. /\ SumOf(f, T) = fx + fr /\ SumOf(g, T) = gx + gr
            /\ Unit * Cardinality(T) = most + Unit
        BY <3>3, <3>8
      <4> HIDE DEF fx, gx, fr, gr, most
      <4>3. 2 * Abs((fx + fr) - (gx + gr)) <= Unit + most
        BY <4>1, SpreadOfSums
      <4> QED
        BY <4>1, <4>2, <4>3
    <3> QED
      BY <3>9
  <2> QED
    BY <2>2, <2>3
<1>2. S \in Good
  <2> HIDE DEF Good
  <2> QED
    BY <1>1, SubsetInduction
<1> QED
  BY <1>2

\* createYearData puts the last point where the last month ends, and rounds; the
\* figure of the interests is rounded for itself.  For any accounts and any number
\* of years the two meet within one unit, however the roundings fall.
THEOREM ChartsEndAtTheTotals == Spec => []ChartEndsAtTheTotals
<1>1. Invariant /\ FiniteInv => ChartEndsAtTheTotals
  <2> SUFFICES ASSUME Invariant, FiniteInv, Finished
               PROVE  Abs(point.total - TotalBalance - TotalInterests) <= Unit
    BY DEF Invariant, ChartInv, ChartEndsAtTheTotals
  <2> DEFINE all == Total(balances)
             first == [a \in DOMAIN list |-> list[a].balance]
  <2>1. all \in Int
    <3>1. IsFiniteSet(DOMAIN balances) /\ \A a \in DOMAIN balances : balances[a] \in Int
      BY DEF FiniteInv, MapsFinite, Invariant, TypeOK, ProjectionTypeOK
    <3> QED
      BY <3>1, SumInt, TotalIsSum
  <2>2. TotalBalance \in Int
    <3>1. IsFiniteSet(DOMAIN list) /\ list \in [DOMAIN list -> Row]
      BY DEF FiniteInv, MapsFinite, Invariant, TypeOK, ProjectionTypeOK
    <3>2. DOMAIN first = DOMAIN list /\ \A a \in DOMAIN list : first[a] \in Int
      BY <3>1 DEF Row
    <3> HIDE DEF first
    <3>3. Total(first) \in Int
      BY <3>1, <3>2, SumInt, TotalIsSum
    <3> QED
      BY <3>3 DEF TotalBalance, first
  <2>3. point.total = Rounded(all) /\ TotalInterests = Rounded(all - TotalBalance)
    BY DEF Invariant, ChartInv, TotalInterests
  <2> HIDE DEF all
  <2>4. /\ Rounded(all) \in Int /\ 2 * Abs(Rounded(all) - all) <= Unit
        /\ Rounded(all - TotalBalance) \in Int
        /\ 2 * Abs(Rounded(all - TotalBalance) - (all - TotalBalance)) <= Unit
    BY <2>1, <2>2, RoundedNear
  <2> QED
    BY <2>1, <2>2, <2>3, <2>4, UnitAssumption DEF Abs
<1> QED
  BY <1>1, SpecInvariant, SpecFinite, PTL

LineName(l, a) == IF a \in DOMAIN l THEN l[a].name ELSE Unnamed

\* A chart has no more lines than balances, and when it has as many, each line is
\* the balance of the one account of its name, rounded.
LEMMA LinesOfBalances ==
    ASSUME NEW l, NEW b, IsFiniteSet(DOMAIN b), \A a \in DOMAIN b : b[a] \in Int,
           NEW f \in Lines(l, b)
    PROVE  /\ Cardinality(DOMAIN f) <= Cardinality(DOMAIN b)
           /\ Total(b) \in Int
           /\ Cardinality(DOMAIN f) = Cardinality(DOMAIN b) =>
                /\ Total(f) \in Int
                /\ 2 * Abs(Total(f) - Total(b)) <= Unit * Cardinality(DOMAIN b)
<1> DEFINE m == [a \in DOMAIN b |-> LineName(l, a)]
           N == {m[a] : a \in DOMAIN b}
           r == [a \in DOMAIN b |-> Rounded(b[a])]
<1>1. /\ DOMAIN f = N
      /\ \A n \in N : \E a \in DOMAIN b : m[a] = n /\ f[n] = r[a]
  <2>1. N = {LineName(l, a) : a \in DOMAIN b}
    OBVIOUS
  <2>2. /\ f \in [{LineName(l, a) : a \in DOMAIN b} -> {Rounded(b[a]) : a \in DOMAIN b}]
        /\ \A n \in {LineName(l, a) : a \in DOMAIN b} :
             \E a \in DOMAIN b : LineName(l, a) = n /\ f[n] = Rounded(b[a])
    BY DEF Lines, LineName
  <2>3. \A a \in DOMAIN b : m[a] = LineName(l, a) /\ r[a] = Rounded(b[a])
    OBVIOUS
  <2> HIDE DEF m, N, r
  <2> QED
    BY <2>1, <2>2, <2>3
<1>2. m \in Surjection(DOMAIN b, N)
  BY DEF Surjection
<1>r. \A x \in DOMAIN b : r[x] \in Int /\ 2 * Abs(r[x] - b[x]) <= Unit
  BY RoundedNear
<1> HIDE DEF m, N, r
<1>3. /\ IsFiniteSet(N) /\ Cardinality(N) <= Cardinality(DOMAIN b)
      /\ Cardinality(N) = Cardinality(DOMAIN b) <=> m \in Injection(DOMAIN b, N)
  BY <1>2, FS_Surjection
<1>4. ASSUME Cardinality(N) = Cardinality(DOMAIN b)
      PROVE  Total(f) = SumOf(r, DOMAIN b)
  <2>1. \A x, y \in DOMAIN b : m[x] = m[y] => x = y
    <3>1. m \in Injection(DOMAIN b, N)
      BY <1>3, <1>4
    <3> QED
      BY <3>1 DEF Injection, IsInjective
  <2>2. \A x \in DOMAIN b : r[x] \in Int /\ f[m[x]] = r[x]
    <3> SUFFICES ASSUME NEW x \in DOMAIN b
                 PROVE  f[m[x]] = r[x]
      BY <1>r
    <3>1. m[x] \in N
      BY DEF N
    <3>2. PICK a \in DOMAIN b : m[a] = m[x] /\ f[m[x]] = r[a]
      BY <1>1, <3>1
    <3> QED
      BY <2>1, <3>2
  <2>3. SumOf(f, {m[x] : x \in DOMAIN b}) = SumOf(r, DOMAIN b)
    BY <2>1, <2>2, SumRenamed
  <2>4. Total(f) = SumOf(f, N)
    BY <1>1, TotalIsSum
  <2> QED
    BY <2>3, <2>4 DEF N
<1>5. SumOf(r, DOMAIN b) \in Int /\ Total(b) \in Int /\ Total(b) = SumOf(b, DOMAIN b)
  BY <1>r, SumInt, TotalIsSum
<1>6. 2 * Abs(SumOf(r, DOMAIN b) - SumOf(b, DOMAIN b)) <= Unit * Cardinality(DOMAIN b)
  BY <1>r, SumWithin
<1> QED
  BY <1>1, <1>3, <1>4, <1>5, <1>6

\* The point shown was made from balances of accounts that still have one.
PointOf(b) ==
    /\ b \in [DOMAIN b -> Int]
    /\ DOMAIN b \subseteq DOMAIN opening
    /\ point.lines \in Lines(list, b)
    /\ point.total = Rounded(Total(b))

PointInv == years > 0 => \E b : PointOf(b)

LEMMA NextPoint ==
    ASSUME TypeOK, TypeOK', PointInv, [Next]_vars
    PROVE  PointInv'
<1>k. ASSUME years' = years, list' = list, opening' = opening, point' = point
      PROVE  PointInv'
  BY <1>k DEF PointInv, PointOf
<1>1. ASSUME UNCHANGED projectionVars PROVE PointInv'
  BY <1>1, <1>k DEF projectionVars
<1>2. ASSUME NEW r \in Slots, DashboardAccounts(r) PROVE PointInv'
  <2>1. PICK l, y, date : Begin(l, y, date)
    BY <1>2 DEF DashboardAccounts
  <2> DEFINE b == [a \in DOMAIN l |-> l[a].balance]
  <2>2. opening' = b /\ list' = l
    BY <2>1 DEF Begin
  <2>3. point'.lines \in Lines(l, b) /\ point'.total = Rounded(Total(b))
    BY <2>1 DEF Begin, YearData
  <2>4. opening' \in [DOMAIN opening' -> Int]
    BY DEF TypeOK, ProjectionTypeOK
  <2> HIDE DEF b
  <2>5. PointOf(b)'
    BY <2>2, <2>3, <2>4 DEF PointOf
  <2> QED
    BY <2>2, <2>3, <2>4 DEF PointInv, PointOf
<1>3. ASSUME NEW r \in Slots, DashboardOperations(r) \/ DashboardPartial(r) PROVE PointInv'
  <2>1. years' = 0
    BY <1>3 DEF DashboardOperations, DashboardPartial, Clear
  <2> QED
    BY <2>1 DEF PointInv
<1>4. ASSUME NEW r \in Slots, DashboardError(r) PROVE PointInv'
  BY <1>1, <1>4 DEF DashboardError
<1>5. ASSUME NEW s \in left, VisitInactive(s) \/ VisitYielding(s) PROVE PointInv'
  BY <1>5, <1>k DEF VisitInactive, VisitYielding
<1>6. ASSUME NEW t \in DOMAIN payouts, PayOut(t) PROVE PointInv'
  BY <1>6, <1>k DEF PayOut
<1>7. ASSUME EndMonth PROVE PointInv'
  <2>1. /\ list' = list /\ years' = years /\ opening' = balances
        /\ balances \in [DOMAIN balances -> Int] /\ DOMAIN opening \subseteq DOMAIN balances
    BY <1>7 DEF EndMonth, TypeOK, ProjectionTypeOK
  <2>2. CASE Shown(month, years)
    <3>1. /\ point'.lines \in Lines(list, balances)
          /\ point'.total = Rounded(Total(balances))
      BY <1>7, <2>2 DEF EndMonth, YearData
    <3> QED
      BY <2>1, <3>1 DEF PointInv, PointOf
  <2>3. CASE ~Shown(month, years)
    <3>1. point' = point
      BY <1>7, <2>3 DEF EndMonth
    <3> QED
      BY <2>1, <3>1 DEF PointInv, PointOf
  <2> QED
    BY <2>2, <2>3
<1>8. ASSUME UNCHANGED vars PROVE PointInv'
  BY <1>1, <1>8 DEF vars
<1> QED
  BY <1>1, <1>2, <1>3, <1>4, <1>5, <1>6, <1>7, <1>8 DEF Next, Dash, Calculate

LEMMA SpecPoint == Spec => []PointInv
<1>1. Init => PointInv
  BY DEF Init, Idle, PointInv
<1>2. Invariant /\ Invariant' /\ PointInv /\ [Next]_vars => PointInv'
  BY NextPoint DEF Invariant
<1> QED
  BY <1>1, <1>2, SpecInvariant, PTL DEF Spec

\* createYearData keeps the lines by name and the total by id, and rounds each line
\* and the total by itself: for any accounts, a chart with as many lines as there are
\* balances adds up to the total beside it within half a unit for each figure, and
\* nothing but the roundings makes a difference.
THEOREM ChartLinesAddUp == Spec => []LinesAddUp
<1>1. Invariant /\ FiniteInv /\ PointInv => LinesAddUp
  <2> SUFFICES ASSUME Invariant, FiniteInv, PointInv, years > 0,
                      Cardinality(DOMAIN point.lines) = Cardinality(DOMAIN opening)
               PROVE  2 * Abs(Total(point.lines) - point.total)
                        <= Unit * (Cardinality(DOMAIN point.lines) + 1)
    BY DEF LinesAddUp
  <2>1. PICK b : PointOf(b)
    BY DEF PointInv
  <2>2. IsFiniteSet(DOMAIN opening)
    BY FS_Subset DEF Invariant, TypeOK, ProjectionTypeOK, FiniteInv, MapsFinite
  <2>3. IsFiniteSet(DOMAIN b) /\ Cardinality(DOMAIN b) <= Cardinality(DOMAIN opening)
    BY <2>1, <2>2, FS_Subset DEF PointOf
  <2>4. /\ \A a \in DOMAIN b : b[a] \in Int
        /\ point.lines \in Lines(list, b)
        /\ point.total = Rounded(Total(b))
    BY <2>1 DEF PointOf
  <2> DEFINE size == Cardinality(DOMAIN b)
             shown == Total(point.lines)
             exact == Total(b)
  <2>5. /\ Cardinality(DOMAIN point.lines) <= size
        /\ exact \in Int
        /\ Cardinality(DOMAIN point.lines) = size =>
             shown \in Int /\ 2 * Abs(shown - exact) <= Unit * size
    BY <2>3, <2>4, LinesOfBalances
  <2>6. size \in Nat /\ Cardinality(DOMAIN opening) \in Nat
    BY <2>2, <2>3, FS_CardinalityType
  <2>7. Cardinality(DOMAIN point.lines) = size
    BY <2>3, <2>5, <2>6
  <2>8. Rounded(exact) \in Int /\ 2 * Abs(Rounded(exact) - exact) <= Unit
    BY <2>5, RoundedNear
  <2> HIDE DEF size, shown, exact
  <2>9. 2 * Abs(exact - Rounded(exact)) <= Unit
    BY <2>5, <2>8 DEF Abs
  <2>10. 2 * Abs(shown - Rounded(exact)) <= Unit * size + Unit
    BY <2>5, <2>6, <2>7, <2>8, <2>9, SpreadOfTwo, UnitAssumption
  <2>11. Unit * size + Unit = Unit * (size + 1)
    BY <2>6, UnitAssumption
  <2> QED
    BY <2>4, <2>7, <2>10, <2>11 DEF shown, exact
<1> QED
  BY <1>1, SpecInvariant, SpecFinite, SpecPoint, PTL
-----------------------------------------------------------------------------
(***************************************************************************)
(* The months that the two loops of Calculate implement.                   *)
(***************************************************************************)

\* What an account does not keep of a month's yield, on the opening balances.
RestOf(l, o) == [s \in DOMAIN l |-> MonthlyInterest(l[s], o[s]) - Reinvested(l[s], o[s])]

PayersIn(l, o, V) == {s \in V : l[s].target # None /\ RestOf(l, o)[s] > 0}

PayersTo(l, o, V, t) == {s \in PayersIn(l, o, V) : l[s].target = t}

\* The accounts whose yield is known.
Visited == Yielding(list) \ left

\* The maps in the middle of a month: the payouts known so far, and balances with
\* the parts kept so far and the payouts credited so far.
PayoutsInv ==
    /\ DOMAIN payouts = {list[s].target : s \in PayersIn(list, opening, Visited)}
    /\ \A t \in DOMAIN payouts :
         payouts[t] = SumOf(RestOf(list, opening), PayersTo(list, opening, Visited, t))

BalancesInv ==
    /\ DOMAIN balances = DOMAIN opening \cup paid
    /\ \A a \in DOMAIN balances :
         balances[a] = (IF a \in DOMAIN opening THEN opening[a] ELSE 0)
                         + (IF a \in Visited THEN Reinvested(list[a], opening[a]) ELSE 0)
                         + (IF a \in paid THEN payouts[a] ELSE 0)

LEMMA ListIsInts ==
    ASSUME TypeOK
    PROVE  /\ \A s \in DOMAIN list : /\ s \in DOMAIN opening /\ opening[s] \in Int
                                     /\ Reinvested(list[s], opening[s]) \in Int
                                     /\ RestOf(list, opening)[s] \in Int
           /\ \A a \in DOMAIN opening : opening[a] \in Int
           /\ \A a \in DOMAIN balances : balances[a] \in Int
           /\ \A t \in DOMAIN payouts : payouts[t] \in Int
           /\ Yielding(list) \subseteq DOMAIN list
           /\ DOMAIN list \subseteq DOMAIN opening
           /\ balances = [a \in DOMAIN balances |-> balances[a]]
<1>1. /\ opening \in [DOMAIN opening -> Int] /\ DOMAIN list \subseteq DOMAIN opening
      /\ balances \in [DOMAIN balances -> Int]
      /\ payouts \in [DOMAIN payouts -> Nat \ {0}]
      /\ list \in [DOMAIN list -> Row]
  BY DEF TypeOK, ProjectionTypeOK
<1>2. ASSUME NEW s \in DOMAIN list
      PROVE  /\ s \in DOMAIN opening /\ opening[s] \in Int
             /\ Reinvested(list[s], opening[s]) \in Int
             /\ RestOf(list, opening)[s] \in Int
  <2>1. list[s] \in Row /\ opening[s] \in Int /\ s \in DOMAIN opening
    BY <1>1
  <2>2. /\ MonthlyInterest(list[s], opening[s]) \in Int
        /\ Reinvested(list[s], opening[s]) \in Int
    BY <2>1, ReinvestedIsInt
  <2> QED
    BY <2>1, <2>2 DEF RestOf
<1>3. \A t \in DOMAIN payouts : payouts[t] \in Int
  BY <1>1
<1>4. balances = [a \in DOMAIN balances |-> balances[a]]
  BY <1>1
<1> QED
  BY <1>1, <1>2, <1>3, <1>4 DEF Yielding

\* An account more that is visited, and that pays or does not.
LEMMA OneMoreVisited ==
    ASSUME NEW l, NEW o, NEW V, NEW s \in DOMAIN l, NEW t
    PROVE  /\ PayersIn(l, o, V \cup {s}) =
                IF l[s].target # None /\ RestOf(l, o)[s] > 0
                  THEN PayersIn(l, o, V) \cup {s} ELSE PayersIn(l, o, V)
           /\ PayersTo(l, o, V \cup {s}, t) =
                IF l[s].target = t /\ t # None /\ RestOf(l, o)[s] > 0
                  THEN PayersTo(l, o, V, t) \cup {s} ELSE PayersTo(l, o, V, t)
<1> DEFINE Pays(x) == l[x].target # None /\ RestOf(l, o)[x] > 0
           To(x) == l[x].target = t
<1>1. /\ PayersIn(l, o, V \cup {s}) = {x \in V \cup {s} : Pays(x)}
      /\ PayersIn(l, o, V) = {x \in V : Pays(x)}
  BY DEF PayersIn
<1>2. /\ PayersTo(l, o, V \cup {s}, t) = {x \in PayersIn(l, o, V \cup {s}) : To(x)}
      /\ PayersTo(l, o, V, t) = {x \in PayersIn(l, o, V) : To(x)}
  BY DEF PayersTo
<1> HIDE DEF Pays, To
<1>3. PayersIn(l, o, V \cup {s}) =
        IF Pays(s) THEN PayersIn(l, o, V) \cup {s} ELSE PayersIn(l, o, V)
  BY <1>1
<1>4. PayersTo(l, o, V \cup {s}, t) =
        IF To(s) /\ Pays(s) THEN PayersTo(l, o, V, t) \cup {s} ELSE PayersTo(l, o, V, t)
  BY <1>2, <1>3
<1> QED
  BY <1>3, <1>4 DEF Pays, To

\* The first loop, for an account that yields: what was known, and this account.
LEMMA VisitPayouts ==
    ASSUME TypeOK, FiniteInv, InterestOnOpening, PayoutsInv, NEW s \in left, VisitYielding(s)
    PROVE  PayoutsInv'
<1> DEFINE v == RestOf(list, opening)
           t == list[s].target
           V == Visited
<1>1. /\ s \in DOMAIN list /\ s \notin V /\ Visited' = V \cup {s}
      /\ list' = list /\ opening' = opening
  BY DEF VisitYielding, Visited, Yielding, TypeOK, ProjectionTypeOK
<1>2. balances[s] = opening[s]
  BY DEF InterestOnOpening, VisitYielding
<1>3. payouts' = IF v[s] > 0 /\ t # None THEN Credit(payouts, t, v[s]) ELSE payouts
  BY <1>1, <1>2 DEF VisitYielding, RestOf
<1>4. /\ V \subseteq DOMAIN list /\ \A x \in DOMAIN list : v[x] \in Int
      /\ IsFiniteSet(DOMAIN list)
  BY ListIsInts DEF Visited, FiniteInv, MapsFinite
<1>p. /\ DOMAIN payouts = {list[x].target : x \in PayersIn(list, opening, V)}
      /\ \A c \in DOMAIN payouts : payouts[c] = SumOf(v, PayersTo(list, opening, V, c))
  BY DEF PayoutsInv
<1>m. ASSUME NEW c
      PROVE  /\ PayersIn(list, opening, V \cup {s}) =
                  IF t # None /\ v[s] > 0
                    THEN PayersIn(list, opening, V) \cup {s} ELSE PayersIn(list, opening, V)
             /\ PayersTo(list, opening, V \cup {s}, c) =
                  IF t = c /\ c # None /\ v[s] > 0
                    THEN PayersTo(list, opening, V, c) \cup {s} ELSE PayersTo(list, opening, V, c)
  BY <1>1, OneMoreVisited
<1> HIDE DEF v, V
<1>5. CASE v[s] > 0 /\ t # None
  <2>1. /\ PayersIn(list, opening, V \cup {s}) = PayersIn(list, opening, V) \cup {s}
        /\ PayersTo(list, opening, V \cup {s}, t) = PayersTo(list, opening, V, t) \cup {s}
        /\ \A c : c # t =>
             PayersTo(list, opening, V \cup {s}, c) = PayersTo(list, opening, V, c)
    BY <1>5, <1>m
  <2>2. payouts' = Credit(payouts, t, v[s])
    BY <1>3, <1>5
  <2>3. DOMAIN payouts' = DOMAIN payouts \cup {t}
    BY <2>2 DEF Credit
  <2>4. DOMAIN payouts' = {list[x].target : x \in PayersIn(list, opening, V \cup {s})}
    BY <1>p, <2>1, <2>3
  <2> DEFINE P == PayersTo(list, opening, V, t)
             Q == PayersTo(list, opening, V \cup {s}, t)
  <2>5. Q \subseteq DOMAIN list /\ P = Q \ {s} /\ s \in Q /\ P \subseteq DOMAIN list
    <3>1. P \subseteq V
      BY DEF PayersTo, PayersIn
    <3> HIDE DEF P, Q
    <3>2. Q = P \cup {s}
      BY <2>1 DEF P, Q
    <3> QED
      BY <1>1, <1>4, <3>1, <3>2
  <2>6. SumOf(v, Q) = v[s] + SumOf(v, P) /\ SumOf(v, P) \in Int
    <3> HIDE DEF P, Q
    <3>1. IsFiniteSet(Q) /\ IsFiniteSet(P)
      BY <1>4, <2>5, FS_Subset
    <3>2. (\A x \in Q : v[x] \in Int) /\ (\A x \in P : v[x] \in Int)
      BY <1>4, <2>5
    <3>3. SumOf(v, Q) = v[s] + SumOf(v, Q \ {s})
      BY <2>5, <3>1, <3>2, SumTakesOut
    <3>4. SumOf(v, P) \in Int
      BY <3>1, <3>2, SumInt
    <3> QED
      BY <2>5, <3>3, <3>4
  <2>7. payouts'[t] = SumOf(v, Q)
    <3>1. CASE t \in DOMAIN payouts
      <4>1. payouts[t] = SumOf(v, P)
        BY <1>p, <3>1
      <4>2. payouts'[t] = payouts[t] + v[s]
        BY <2>2, <3>1 DEF Credit
      <4> HIDE DEF P, Q
      <4> QED
        BY <1>1, <1>4, <2>6, <4>1, <4>2
    <3>2. CASE t \notin DOMAIN payouts
      <4>1. P = {}
        BY <1>p, <3>2 DEF PayersTo
      <4>2. SumOf(v, P) = 0
        BY <4>1, SumEmpty
      <4>3. payouts'[t] = 0 + v[s]
        BY <2>2, <3>2 DEF Credit
      <4> HIDE DEF P, Q
      <4> QED
        BY <1>1, <1>4, <2>6, <4>2, <4>3
    <3> QED
      BY <3>1, <3>2
  <2>8. \A c \in DOMAIN payouts : c # t =>
          payouts'[c] = SumOf(v, PayersTo(list, opening, V \cup {s}, c))
    <3> SUFFICES ASSUME NEW c \in DOMAIN payouts, c # t
                 PROVE  payouts'[c] = SumOf(v, PayersTo(list, opening, V \cup {s}, c))
      OBVIOUS
    <3>1. payouts'[c] = payouts[c]
      BY <2>2 DEF Credit
    <3>2. PayersTo(list, opening, V \cup {s}, c) = PayersTo(list, opening, V, c)
      BY <2>1
    <3> QED
      BY <1>p, <3>1, <3>2
  <2>9. \A c \in DOMAIN payouts' :
          payouts'[c] = SumOf(v, PayersTo(list, opening, V \cup {s}, c))
    BY <2>3, <2>7, <2>8
  <2> QED
    BY <1>1, <2>4, <2>9 DEF PayoutsInv, v
<1>6. CASE ~(v[s] > 0 /\ t # None)
  <2>1. /\ PayersIn(list, opening, V \cup {s}) = PayersIn(list, opening, V)
        /\ \A c : PayersTo(list, opening, V \cup {s}, c) = PayersTo(list, opening, V, c)
    BY <1>6, <1>m
  <2>2. payouts' = payouts
    BY <1>3, <1>6
  <2> QED
    BY <1>1, <1>p, <2>1, <2>2 DEF PayoutsInv, v
<1> QED
  BY <1>5, <1>6

LEMMA VisitBalances ==
    ASSUME TypeOK, InterestOnOpening, BalancesInv, NEW s \in left, VisitYielding(s)
    PROVE  BalancesInv'
<1>1. /\ s \in DOMAIN list /\ s \notin Visited /\ Visited' = Visited \cup {s}
      /\ list' = list /\ opening' = opening /\ paid' = paid
      /\ paid = {} /\ s \in DOMAIN balances
  BY DEF VisitYielding, Visited, Yielding, TypeOK, ProjectionTypeOK
<1>2. balances[s] = opening[s]
  BY DEF InterestOnOpening, VisitYielding
<1> DEFINE kept == Reinvested(list[s], opening[s])
<1>3. balances' = [balances EXCEPT ![s] = balances[s] + kept]
  BY <1>2 DEF VisitYielding
<1>4. s \in DOMAIN opening /\ opening[s] \in Int /\ kept \in Int
  BY <1>1, ListIsInts
<1>5. DOMAIN balances' = DOMAIN balances
  BY <1>3
<1>6. balances'[s] = opening[s] + kept + 0
  BY <1>1, <1>2, <1>3, <1>4
<1>7. \A a \in DOMAIN balances : a # s => balances'[a] = balances[a]
  BY <1>3
<1> HIDE DEF kept
<1>8. \A a \in DOMAIN balances' :
        balances'[a] = (IF a \in DOMAIN opening' THEN opening'[a] ELSE 0)
                         + (IF a \in Visited' THEN Reinvested(list'[a], opening'[a]) ELSE 0)
                         + (IF a \in paid' THEN payouts'[a] ELSE 0)
  <2> SUFFICES ASSUME NEW a \in DOMAIN balances
               PROVE  balances'[a] = (IF a \in DOMAIN opening THEN opening[a] ELSE 0)
                        + (IF a \in Visited \cup {s} THEN Reinvested(list[a], opening[a]) ELSE 0)
                        + 0
    BY <1>1, <1>5
  <2>1. CASE a = s
    BY <1>4, <1>6, <2>1 DEF kept
  <2>2. CASE a # s
    BY <1>1, <1>7, <2>2 DEF BalancesInv
  <2> QED
    BY <2>1, <2>2
<1> QED
  BY <1>1, <1>5, <1>8 DEF BalancesInv

\* The second loop.
LEMMA PayOutBalances ==
    ASSUME TypeOK, BalancesInv, NEW t \in DOMAIN payouts, PayOut(t)
    PROVE  BalancesInv'
<1>1. /\ list' = list /\ opening' = opening /\ payouts' = payouts /\ Visited' = Visited
      /\ paid' = paid \cup {t} /\ t \notin paid
      /\ balances' = Credit(balances, t, payouts[t])
  BY DEF PayOut, Visited
<1>2. DOMAIN balances' = DOMAIN balances \cup {t}
  BY <1>1 DEF Credit
<1>3. DOMAIN balances' = DOMAIN opening' \cup paid'
  BY <1>1, <1>2 DEF BalancesInv
<1>4. /\ payouts[t] \in Int
      /\ Visited \subseteq DOMAIN list /\ DOMAIN list \subseteq DOMAIN opening
      /\ \A a \in DOMAIN opening : opening[a] \in Int
      /\ \A a \in DOMAIN list : Reinvested(list[a], opening[a]) \in Int
  BY ListIsInts DEF Visited
<1> DEFINE Open(a) == IF a \in DOMAIN opening THEN opening[a] ELSE 0
           Kept(a) == IF a \in Visited THEN Reinvested(list[a], opening[a]) ELSE 0
<1>5. Open(t) \in Int /\ Kept(t) \in Int
  BY <1>4
<1>6. \A a \in DOMAIN balances :
        balances[a] = Open(a) + Kept(a) + (IF a \in paid THEN payouts[a] ELSE 0)
  BY DEF BalancesInv
<1>7. t \notin DOMAIN balances => Open(t) = 0 /\ Kept(t) = 0
  BY <1>4 DEF BalancesInv
<1> HIDE DEF Open, Kept
<1>8. \A a \in DOMAIN balances' :
        balances'[a] = Open(a) + Kept(a) + (IF a \in paid \cup {t} THEN payouts[a] ELSE 0)
  <2> SUFFICES ASSUME NEW a \in DOMAIN balances \cup {t}
               PROVE  balances'[a] =
                        Open(a) + Kept(a) + (IF a \in paid \cup {t} THEN payouts[a] ELSE 0)
    BY <1>2
  <2>1. CASE a = t
    <3>1. balances'[a] = (IF t \in DOMAIN balances THEN balances[t] ELSE 0) + payouts[t]
      BY <1>1, <2>1 DEF Credit
    <3> QED
      BY <1>1, <1>4, <1>5, <1>6, <1>7, <2>1, <3>1
  <2>2. CASE a # t
    <3>1. balances'[a] = balances[a]
      BY <1>1, <2>2 DEF Credit
    <3> QED
      BY <1>6, <2>2, <3>1
  <2> QED
    BY <2>1, <2>2
<1> QED
  BY <1>1, <1>3, <1>8 DEF BalancesInv, Open, Kept

MonthInv == PayoutsInv /\ BalancesInv

\* A month starts with nothing visited and nothing to pay.
LEMMA MonthOpens ==
    ASSUME TypeOK', left' = DOMAIN list', payouts' = Empty, paid' = {}, opening' = balances'
    PROVE  MonthInv'
<1>1. Visited' = {} /\ DOMAIN payouts' = {}
  BY EmptyTyped DEF Visited, Yielding
<1>2. PayoutsInv'
  BY <1>1 DEF PayoutsInv, PayersIn
<1>3. \A a \in DOMAIN balances' : balances'[a] \in Int
  BY DEF TypeOK, ProjectionTypeOK
<1>4. BalancesInv'
  BY <1>1, <1>3 DEF BalancesInv
<1> QED
  BY <1>2, <1>4 DEF MonthInv

LEMMA NextMonthInv ==
    ASSUME Invariant, TypeOK', FiniteInv, MonthInv, [Next]_vars
    PROVE  MonthInv'
<1>t. TypeOK /\ InterestOnOpening
  BY DEF Invariant
<1>1. ASSUME UNCHANGED projectionVars PROVE MonthInv'
  BY <1>1 DEF projectionVars, MonthInv, PayoutsInv, BalancesInv, Visited
<1>2. ASSUME NEW r \in Slots, DashboardAccounts(r) PROVE MonthInv'
  <2>1. left' = DOMAIN list' /\ payouts' = Empty /\ paid' = {} /\ opening' = balances'
    BY <1>2 DEF DashboardAccounts, Begin
  <2> QED
    BY <2>1, MonthOpens
<1>3. ASSUME NEW r \in Slots, DashboardOperations(r) \/ DashboardPartial(r) PROVE MonthInv'
  <2>1. left' = DOMAIN list' /\ payouts' = Empty /\ paid' = {} /\ opening' = balances'
    BY <1>3, EmptyTyped DEF DashboardOperations, DashboardPartial, Clear
  <2> QED
    BY <2>1, MonthOpens
<1>4. ASSUME NEW r \in Slots, DashboardError(r) PROVE MonthInv'
  BY <1>1, <1>4 DEF DashboardError
<1>5. ASSUME NEW s \in left, VisitInactive(s) PROVE MonthInv'
  <2>1. Visited' = Visited
    BY <1>5 DEF VisitInactive, Visited, Yielding
  <2> QED
    BY <1>5, <2>1 DEF VisitInactive, MonthInv, PayoutsInv, BalancesInv
<1>6. ASSUME NEW s \in left, VisitYielding(s) PROVE MonthInv'
  BY <1>6, <1>t, VisitPayouts, VisitBalances DEF MonthInv
<1>7. ASSUME NEW t \in DOMAIN payouts, PayOut(t) PROVE MonthInv'
  <2>1. PayoutsInv'
    BY <1>7 DEF PayOut, MonthInv, PayoutsInv, Visited
  <2>2. BalancesInv'
    BY <1>7, <1>t, PayOutBalances DEF MonthInv
  <2> QED
    BY <2>1, <2>2 DEF MonthInv
<1>8. ASSUME EndMonth PROVE MonthInv'
  <2>1. left' = DOMAIN list' /\ payouts' = Empty /\ paid' = {} /\ opening' = balances'
    BY <1>8 DEF EndMonth
  <2> QED
    BY <2>1, MonthOpens
<1>9. ASSUME UNCHANGED vars PROVE MonthInv'
  BY <1>1, <1>9 DEF vars
<1> QED
  BY <1>1, <1>2, <1>3, <1>4, <1>5, <1>6, <1>7, <1>8, <1>9 DEF Next, Dash, Calculate

LEMMA InitMonthInv == Init => MonthInv
<1> SUFFICES ASSUME Init PROVE MonthInv
  OBVIOUS
<1>1. /\ list = Empty /\ left = {} /\ payouts = Empty /\ paid = {}
      /\ balances = Empty /\ opening = Empty
  BY DEF Init, Idle
<1>2. Visited = {} /\ DOMAIN payouts = {} /\ DOMAIN balances = {} /\ DOMAIN opening = {}
  BY <1>1, EmptyTyped DEF Visited, Yielding
<1>3. PayoutsInv
  BY <1>2 DEF PayoutsInv, PayersIn
<1>4. BalancesInv
  BY <1>1, <1>2 DEF BalancesInv
<1> QED
  BY <1>3, <1>4 DEF MonthInv

LEMMA SpecMonthInv == Spec => []MonthInv
<1>1. Invariant /\ Invariant' /\ FiniteInv /\ MonthInv /\ [Next]_vars => MonthInv'
  BY NextMonthInv DEF Invariant
<1> QED
  BY <1>1, InitMonthInv, SpecInvariant, SpecFinite, PTL DEF Spec
-----------------------------------------------------------------------------
\* The months use the formulas of the calculation.
LEMMA SameFormulas ==
    /\ Months!Empty = Empty
    /\ \A f : Months!Total(f) = Total(f)
    /\ \A l : Months!Yielding(l) = Yielding(l)
    /\ \A a, b : /\ Months!MonthlyInterest(a, b) = MonthlyInterest(a, b)
                 /\ Months!Reinvested(a, b) = Reinvested(a, b)
<1>1. Months!Empty = Empty
  BY DEF Months!Empty, Empty
<1>2. ASSUME NEW f PROVE Months!Total(f) = Total(f)
  BY DEF Months!Total, Total, Months!MapThenSumSet, MapThenSumSet,
         Months!MapThenFoldSet, MapThenFoldSet
<1>3. ASSUME NEW l PROVE Months!Yielding(l) = Yielding(l)
  BY DEF Months!Yielding, Yielding
<1>4. ASSUME NEW a, NEW b PROVE Months!MonthlyInterest(a, b) = MonthlyInterest(a, b)
  BY DEF Months!MonthlyInterest, MonthlyInterest, Months!Rate, Rate
<1>5. ASSUME NEW a, NEW b PROVE Months!Reinvested(a, b) = Reinvested(a, b)
  BY <1>4 DEF Months!Reinvested, Reinvested
<1> QED
  BY <1>1, <1>2, <1>3, <1>4, <1>5

\* When both loops are over, the maps are those of the simultaneous step.
LEMMA LoopsOver ==
    ASSUME TypeOK, FiniteInv, MonthInv, left = {}, paid = DOMAIN payouts
    PROVE  /\ DOMAIN balances = DOMAIN opening \cup {list[s].target : s \in Months!Payers}
           /\ Months!Payers \subseteq Yielding(list)
           /\ \A s \in Yielding(list) : Months!Rest(s) = RestOf(list, opening)[s]
           /\ \A a : Months!Received(a) =
                     SumOf(RestOf(list, opening), {s \in Months!Payers : list[s].target = a})
           /\ \A a \in DOMAIN balances :
                balances[a] = (IF a \in DOMAIN opening THEN opening[a] ELSE 0)
                                + Months!Kept(a) + Months!Received(a)
<1> DEFINE v == RestOf(list, opening)
           To(a) == PayersTo(list, opening, Yielding(list), a)
<1>1. paid = DOMAIN payouts /\ Visited = Yielding(list)
  BY DEF Visited
<1>2. \A s \in Yielding(list) : Months!Rest(s) = v[s]
  BY SameFormulas DEF Months!Rest, RestOf, Yielding
<1>3. /\ Months!Payers = PayersIn(list, opening, Yielding(list))
      /\ Months!Payers \subseteq Yielding(list)
  BY <1>2, SameFormulas DEF Months!Payers, PayersIn
<1>4. DOMAIN balances = DOMAIN opening \cup {list[s].target : s \in Months!Payers}
  BY <1>1, <1>3 DEF MonthInv, BalancesInv, PayoutsInv
<1>i. /\ IsFiniteSet(DOMAIN list) /\ Yielding(list) \subseteq DOMAIN list
      /\ balances = [a \in DOMAIN balances |-> balances[a]]
  BY ListIsInts DEF FiniteInv, MapsFinite
<1>5. ASSUME NEW a
      PROVE  Months!Received(a) = SumOf(v, To(a))
  <2> DEFINE f == [s \in {s \in Months!Payers : list[s].target = a} |-> Months!Rest(s)]
  <2>1. Months!Received(a) = Total(f)
    BY SameFormulas DEF Months!Received
  <2>2. To(a) = {s \in Months!Payers : list[s].target = a}
    BY <1>3 DEF PayersTo
  <2>3. DOMAIN f = To(a)
    BY <2>2
  <2>4. \A s \in To(a) : f[s] = v[s]
    BY <1>2, <1>3, <2>2
  <2>5. IsFiniteSet(To(a))
    <3>1. To(a) \subseteq DOMAIN list
      BY <1>3, <1>i, <2>2
    <3> HIDE DEF To
    <3> QED
      BY <1>i, <3>1, FS_Subset
  <2> HIDE DEF f, v, To
  <2> QED
    BY <2>1, <2>3, <2>4, <2>5, TotalOver
<1>6. ASSUME NEW a
      PROVE  Months!Received(a) = IF a \in paid THEN payouts[a] ELSE 0
  <2>1. CASE a \in paid
    BY <1>1, <1>5, <2>1 DEF MonthInv, PayoutsInv
  <2>2. CASE a \notin paid
    <3>1. To(a) = {}
      BY <1>1, <2>2 DEF MonthInv, PayoutsInv, PayersTo
    <3> QED
      BY <1>5, <2>2, <3>1, SumEmpty
  <2> QED
    BY <2>1, <2>2
<1>7. ASSUME NEW a \in DOMAIN balances
      PROVE  balances[a] = (IF a \in DOMAIN opening THEN opening[a] ELSE 0)
                             + Months!Kept(a) + Months!Received(a)
  <2>1. Months!Kept(a) = IF a \in Visited THEN Reinvested(list[a], opening[a]) ELSE 0
    BY <1>1, SameFormulas DEF Months!Kept
  <2>2. balances[a] = (IF a \in DOMAIN opening THEN opening[a] ELSE 0)
                        + (IF a \in Visited THEN Reinvested(list[a], opening[a]) ELSE 0)
                        + (IF a \in paid THEN payouts[a] ELSE 0)
    BY DEF MonthInv, BalancesInv
  <2>3. Months!Received(a) = IF a \in paid THEN payouts[a] ELSE 0
    BY <1>6
  <2> QED
    BY <2>1, <2>2, <2>3
<1>8. ASSUME NEW a
      PROVE  Months!Received(a) = SumOf(v, {s \in Months!Payers : list[s].target = a})
  <2>1. To(a) = {s \in Months!Payers : list[s].target = a}
    BY <1>3 DEF PayersTo
  <2> QED
    BY <1>5, <2>1
<1> QED
  BY <1>2, <1>3, <1>4, <1>7, <1>8

\* The end of a month is a month of the specification.
LEMMA EndIsMonth ==
    ASSUME TypeOK, FiniteInv, MonthInv, EndMonth
    PROVE  Months!Month
<1>1. /\ left = {} /\ paid = DOMAIN payouts
      /\ opening' = balances /\ month' = month + 1 /\ list' = list /\ years' = years
      /\ month \in 1..(12 * years)
  BY DEF EndMonth, Simulating
<1>2. balances = [a \in DOMAIN balances |-> balances[a]]
  BY ListIsInts
<1>3. /\ DOMAIN balances = DOMAIN opening \cup {list[s].target : s \in Months!Payers}
      /\ \A a \in DOMAIN balances :
           balances[a] = (IF a \in DOMAIN opening THEN opening[a] ELSE 0)
                           + Months!Kept(a) + Months!Received(a)
  BY <1>1, LoopsOver
<1>4. opening' = [a \in DOMAIN opening \cup {list[s].target : s \in Months!Payers} |->
                    (IF a \in DOMAIN opening THEN opening[a] ELSE 0)
                      + Months!Kept(a) + Months!Received(a)]
  <2> DEFINE M == [a \in DOMAIN balances |->
                     (IF a \in DOMAIN opening THEN opening[a] ELSE 0)
                       + Months!Kept(a) + Months!Received(a)]
  <2>1. balances = M
    BY <1>2, <1>3
  <2> QED
    BY <1>1, <1>3, <2>1
<1> QED
  BY <1>1, <1>4 DEF Months!Month

\* Each step of the dashboard is a step of the months or none.
LEMMA NextIsMonths ==
    ASSUME Invariant, FiniteInv, MonthInv, [Next]_vars
    PROVE  [Months!Next]_(Months!vars)
<1>k. ASSUME list' = list, years' = years, month' = month, opening' = opening
      PROVE  UNCHANGED Months!vars
  BY <1>k DEF Months!vars
<1>1. ASSUME UNCHANGED projectionVars PROVE UNCHANGED Months!vars
  BY <1>1, <1>k DEF projectionVars
<1>2. ASSUME NEW r \in Slots, DashboardAccounts(r) PROVE Months!Begin
  <2>1. PICK y \in YearsAsked, date \in Dates :
               Begin(AccountsOf(req[r].user), YearsShown(y), date)
    BY <1>2 DEF DashboardAccounts
  <2>2. YearsShown(y) > 0
    BY YearsAssumption, YearsShownPositive
  <2> QED
    BY <2>1, <2>2 DEF Begin, Months!Begin
<1>3. ASSUME NEW r \in Slots, DashboardOperations(r) \/ DashboardPartial(r) PROVE Months!End
  BY <1>3, SameFormulas DEF DashboardOperations, DashboardPartial, Clear, Months!End
<1>4. ASSUME NEW r \in Slots, DashboardError(r) PROVE UNCHANGED Months!vars
  BY <1>1, <1>4 DEF DashboardError
<1>5. ASSUME NEW s \in left, VisitInactive(s) \/ VisitYielding(s) PROVE UNCHANGED Months!vars
  BY <1>5, <1>k DEF VisitInactive, VisitYielding
<1>6. ASSUME NEW t \in DOMAIN payouts, PayOut(t) PROVE UNCHANGED Months!vars
  BY <1>6, <1>k DEF PayOut
<1>7. ASSUME EndMonth PROVE Months!Month
  BY <1>7, EndIsMonth DEF Invariant
<1>8. ASSUME UNCHANGED vars PROVE UNCHANGED Months!vars
  BY <1>1, <1>8 DEF vars
<1> QED
  BY <1>1, <1>2, <1>3, <1>4, <1>5, <1>6, <1>7, <1>8 DEF Next, Dash, Calculate, Months!Next

\* Calculate, with its two loops over maps in whatever order Go takes them and
\* with targets that are no accounts, implements the specification in which all
\* accounts yield, keep and pay at once, each month on the balances it opens with.
THEOREM LoopsImplementMonths == Spec => ImplementsMonths
<1>1. Init => Months!Init
  BY SameFormulas DEF Init, Idle, Months!Init
<1>2. Invariant /\ FiniteInv /\ MonthInv /\ [Next]_vars => [Months!Next]_(Months!vars)
  BY NextIsMonths
<1> QED
  BY <1>1, <1>2, SpecInvariant, SpecFinite, SpecMonthInv, PTL
     DEF Spec, ImplementsMonths, Months!Spec
-----------------------------------------------------------------------------
(***************************************************************************)
(* The first month and the operations that announce it.                    *)
(***************************************************************************)

\* The calculation and the announcement multiply a month's interest by the part
\* reinvested and by the part that is not.  With float64 both are exact up to
\* rounding; with whole numbers they are when the first leaves no remainder.  No
\* handler bounds the part reinvested (the slider of the page does): above 100
\* percent a debt pays but announces nothing.
WholeShares ==
    \A s \in Yielding(list) :
        /\ list[s].reinvest <= 100
        /\ (MonthlyInterest(list[s], list[s].balance) * list[s].reinvest) % 100 = 0

LEMMA SharesOfWhole ==
    ASSUME NEW i \in Int, NEW p \in Int, (i * p) % 100 = 0
    PROVE  (i * (100 - p)) \div 100 = i - ((i * p) \div 100)
<1> DEFINE x == i * p
<1>1. x \in Int /\ x % 100 = 0
  OBVIOUS
<1>2. i * (100 - p) = 100 * i - x
  OBVIOUS
<1> HIDE DEF x
<1>3. (100 * i - x) \div 100 = i - (x \div 100)
  BY <1>1
<1> QED
  BY <1>2, <1>3 DEF x

\* An account announces what it does not keep, and announces it when it pays.
LEMMA AnnouncedRest ==
    ASSUME NEW a \in Row, a.reinvest <= 100,
           (MonthlyInterest(a, a.balance) * a.reinvest) % 100 = 0
    PROVE  /\ NotReinvested(a) = MonthlyInterest(a, a.balance) - Reinvested(a, a.balance)
           /\ NotReinvested(a) > 0 => a.reinvest < 100
<1> DEFINE i == MonthlyInterest(a, a.balance)
<1>1. a.balance \in Int /\ a.reinvest \in Int
  BY DEF Row
<1>2. i \in Int
  BY <1>1, ReinvestedIsInt
<1>3. NotReinvested(a) = (i * (100 - a.reinvest)) \div 100
  BY DEF NotReinvested, GainRate, MonthlyInterest, Rate
<1>4. Reinvested(a, a.balance) = (i * a.reinvest) \div 100
  BY DEF Reinvested
<1> HIDE DEF i
<1>5. (i * (100 - a.reinvest)) \div 100 = i - ((i * a.reinvest) \div 100)
  BY <1>1, <1>2, SharesOfWhole DEF i
<1>6. a.reinvest = 100 => i * (100 - a.reinvest) = 0
  BY <1>1, <1>2
<1>7. NotReinvested(a) > 0 => a.reinvest < 100
  BY <1>1, <1>3, <1>6
<1> QED
  BY <1>3, <1>4, <1>5, <1>7 DEF i

\* The first month opens with the balances of the list.
FirstMonth == (years > 0 /\ month = 1) => opening = [a \in DOMAIN list |-> list[a].balance]

LEMMA NextFirstMonth ==
    ASSUME TypeOK, FirstMonth, [Next]_vars
    PROVE  FirstMonth'
<1>k. ASSUME years' = years, list' = list, opening' = opening, month' = month
      PROVE  FirstMonth'
  BY <1>k DEF FirstMonth
<1>1. ASSUME UNCHANGED projectionVars PROVE FirstMonth'
  BY <1>1, <1>k DEF projectionVars
<1>2. ASSUME NEW r \in Slots, DashboardAccounts(r) PROVE FirstMonth'
  <2>1. list' = AccountsOf(req[r].user)
        /\ opening' = [a \in DOMAIN AccountsOf(req[r].user) |-> AccountsOf(req[r].user)[a].balance]
    BY <1>2 DEF DashboardAccounts, Begin
  <2> QED
    BY <2>1 DEF FirstMonth
<1>3. ASSUME NEW r \in Slots, DashboardOperations(r) \/ DashboardPartial(r) PROVE FirstMonth'
  <2>1. years' = 0
    BY <1>3 DEF DashboardOperations, DashboardPartial, Clear
  <2> QED
    BY <2>1 DEF FirstMonth
<1>4. ASSUME NEW r \in Slots, DashboardError(r) PROVE FirstMonth'
  BY <1>1, <1>4 DEF DashboardError
<1>5. ASSUME Calculate, ~EndMonth PROVE FirstMonth'
  BY <1>5, <1>k DEF Calculate, VisitInactive, VisitYielding, PayOut
<1>6. ASSUME EndMonth PROVE FirstMonth'
  <2>1. month \in Nat /\ month >= 1 /\ month' = month + 1
    BY <1>6 DEF EndMonth, Simulating, TypeOK, ProjectionTypeOK
  <2> QED
    BY <2>1 DEF FirstMonth
<1>7. ASSUME UNCHANGED vars PROVE FirstMonth'
  BY <1>1, <1>7 DEF vars
<1> QED
  BY <1>1, <1>2, <1>3, <1>4, <1>5, <1>6, <1>7 DEF Next, Dash

LEMMA SpecFirstMonth == Spec => []FirstMonth
<1>1. Init => FirstMonth
  BY DEF Init, Idle, FirstMonth
<1>2. Invariant /\ FirstMonth /\ [Next]_vars => FirstMonth'
  BY NextFirstMonth DEF Invariant
<1> QED
  BY <1>1, <1>2, SpecInvariant, PTL DEF Spec

\* Where the parts come out even, Calculate pays every target in the first month
\* what CalculateYieldPayouts lists as the operations to come: for any accounts,
\* with several that pay into one, debts, and targets that are not in the list.
THEOREM FirstMonthAsAnnounced == Spec => [](WholeShares => PayoutsAsAnnounced)
<1>1. Invariant /\ FiniteInv /\ MonthInv /\ FirstMonth => (WholeShares => PayoutsAsAnnounced)
  <2> SUFFICES ASSUME Invariant, FiniteInv, MonthInv, FirstMonth, WholeShares,
                      Simulating, month = 1, left = {}
               PROVE  /\ DOMAIN payouts = {list[s].target : s \in DOMAIN YieldPayouts(list)}
                      /\ \A t \in DOMAIN payouts :
                           payouts[t] =
                             Total([s \in {s \in DOMAIN YieldPayouts(list) : list[s].target = t}
                                      |-> YieldPayouts(list)[s]])
    BY DEF PayoutsAsAnnounced
  <2> DEFINE v == RestOf(list, opening)
             Y == YieldPayouts(list)
             Owed(t) == PayersTo(list, opening, Yielding(list), t)
  <2>t. /\ TypeOK /\ years \in Nat /\ list \in [DOMAIN list -> Row]
        /\ IsFiniteSet(DOMAIN list) /\ Yielding(list) \subseteq DOMAIN list
    BY ListIsInts DEF Invariant, TypeOK, ProjectionTypeOK, FiniteInv, MapsFinite
  <2>1. years > 0
    BY <2>t DEF Simulating
  <2>2. opening = [a \in DOMAIN list |-> list[a].balance]
    BY <2>1 DEF FirstMonth
  <2>3. ASSUME NEW s \in Yielding(list)
        PROVE  /\ NotReinvested(list[s]) = v[s]
               /\ NotReinvested(list[s]) > 0 => list[s].reinvest < 100
    <3>1. list[s] \in Row /\ s \in DOMAIN list /\ opening[s] = list[s].balance
      BY <2>t, <2>2
    <3>2. /\ list[s].reinvest <= 100
          /\ (MonthlyInterest(list[s], list[s].balance) * list[s].reinvest) % 100 = 0
      BY DEF WholeShares
    <3>3. /\ NotReinvested(list[s]) =
               MonthlyInterest(list[s], list[s].balance) - Reinvested(list[s], list[s].balance)
          /\ NotReinvested(list[s]) > 0 => list[s].reinvest < 100
      BY <3>1, <3>2, AnnouncedRest
    <3> QED
      BY <3>1, <3>3 DEF RestOf
  <2>4. DOMAIN Y = PayersIn(list, opening, Yielding(list))
    <3>1. DOMAIN Y = {s \in Yielding(list) : /\ list[s].reinvest < 100
                                             /\ list[s].target # None
                                             /\ NotReinvested(list[s]) > 0}
      BY DEF YieldPayouts
    <3>2. PayersIn(list, opening, Yielding(list)) =
            {s \in Yielding(list) : list[s].target # None /\ v[s] > 0}
      BY DEF PayersIn
    <3> HIDE DEF v, Y
    <3> QED
      BY <2>3, <3>1, <3>2
  <2>5. \A s \in DOMAIN Y : Y[s] = v[s]
    <3>1. \A s \in DOMAIN Y : s \in Yielding(list) /\ Y[s] = NotReinvested(list[s])
      BY DEF YieldPayouts
    <3> HIDE DEF v, Y
    <3> QED
      BY <2>3, <3>1
  <2>6. Visited = Yielding(list)
    BY DEF Visited
  <2>7. /\ DOMAIN payouts = {list[s].target : s \in DOMAIN Y}
        /\ \A t \in DOMAIN payouts : payouts[t] = SumOf(v, Owed(t))
    BY <2>4, <2>6 DEF MonthInv, PayoutsInv
  <2>8. ASSUME NEW t
        PROVE  Total([s \in {s \in DOMAIN Y : list[s].target = t} |-> Y[s]]) = SumOf(v, Owed(t))
    <3> DEFINE f == [s \in {s \in DOMAIN Y : list[s].target = t} |-> Y[s]]
    <3>1. Owed(t) = {s \in DOMAIN Y : list[s].target = t}
      BY <2>4 DEF PayersTo
    <3>2. Owed(t) \subseteq DOMAIN list
      BY <2>t, <3>1 DEF YieldPayouts
    <3>3. IsFiniteSet(Owed(t))
      <4> HIDE DEF Owed
      <4> QED
        BY <2>t, <3>2, FS_Subset
    <3> HIDE DEF v, Y, Owed
    <3>4. DOMAIN f = Owed(t) /\ \A s \in Owed(t) : f[s] = v[s]
      BY <2>5, <3>1
    <3> HIDE DEF f
    <3>5. Total(f) = SumOf(v, Owed(t))
      BY <3>3, <3>4, TotalOver
    <3> QED
      BY <3>5 DEF f
  <2> HIDE DEF v, Owed
  <2> QED
    BY <2>7, <2>8
<1> QED
  BY <1>1, SpecInvariant, SpecFinite, SpecMonthInv, SpecFirstMonth, PTL
-----------------------------------------------------------------------------
(***************************************************************************)
(* The interests of a chart.                                               *)
(***************************************************************************)

\* All balances together, once both loops are over.
LEMMA TotalGrows ==
    ASSUME TypeOK, FiniteInv, MonthInv, left = {}, paid = DOMAIN payouts
    PROVE  Total(balances) =
             Total(opening)
               + Total([s \in Yielding(list) |-> MonthlyInterest(list[s], opening[s])])
               - Total([s \in Yielding(list) \ Months!Payers |-> Months!Rest(s)])
<1> DEFINE B == DOMAIN balances
           D == DOMAIN opening
           Y == Yielding(list)
           P == Months!Payers
           L == Y \ P
           v == RestOf(list, opening)
           target == [s \in DOMAIN list |-> list[s].target]
           open == [a \in B |-> IF a \in D THEN opening[a] ELSE 0]
           kept == [a \in B |-> Months!Kept(a)]
           got == [a \in B |-> Months!Received(a)]
           stays == [s \in Y |-> Reinvested(list[s], opening[s])]
           earned == [s \in Y |-> MonthlyInterest(list[s], opening[s])]
           lost == [s \in L |-> Months!Rest(s)]
\* What there is to add up.
<1>1. /\ IsFiniteSet(B) /\ D \subseteq B /\ Y \subseteq D /\ P \subseteq Y /\ L \subseteq Y
      /\ Y \subseteq DOMAIN list
  BY LoopsOver, ListIsInts DEF FiniteInv, MapsFinite
<1>2. IsFiniteSet(Y) /\ IsFiniteSet(P) /\ IsFiniteSet(L) /\ IsFiniteSet(D)
  <2> HIDE DEF B, D, Y, P, L
  <2>1. D \subseteq B /\ Y \subseteq B /\ P \subseteq B /\ L \subseteq B
    BY <1>1
  <2> QED
    BY <1>1, <2>1, FS_Subset
<1>3. /\ \A s \in Y : /\ v[s] \in Int /\ stays[s] \in Int
                      /\ earned[s] = stays[s] + v[s]
      /\ \A s \in L : lost[s] = v[s]
      /\ \A a \in D : opening[a] \in Int
  <2>1. \A s \in Y : /\ v[s] \in Int /\ Reinvested(list[s], opening[s]) \in Int
                     /\ MonthlyInterest(list[s], opening[s]) \in Int
    <3>1. \A s \in Y : v[s] \in Int /\ Reinvested(list[s], opening[s]) \in Int
      BY <1>1, ListIsInts
    <3>2. ASSUME NEW s \in Y
          PROVE  MonthlyInterest(list[s], opening[s]) \in Int
      <4>1. list[s] \in Row /\ opening[s] \in Int
        BY <1>1, ListIsInts DEF TypeOK, ProjectionTypeOK
      <4> QED
        BY <4>1, ReinvestedIsInt
    <3> QED
      BY <3>1, <3>2
  <2>2. \A s \in Y : v[s] = MonthlyInterest(list[s], opening[s]) - Reinvested(list[s], opening[s])
    BY <1>1 DEF RestOf
  <2>3. /\ \A s \in Y : stays[s] = Reinvested(list[s], opening[s])
        /\ \A s \in Y : earned[s] = MonthlyInterest(list[s], opening[s])
    OBVIOUS
  <2>4. \A s \in L : lost[s] = v[s]
    BY LoopsOver
  <2>5. \A a \in D : opening[a] \in Int
    BY ListIsInts
  <2> HIDE DEF Y, L, v, stays, earned, lost
  <2>6. \A s \in Y : stays[s] \in Int /\ earned[s] = stays[s] + v[s]
    BY <2>1, <2>2, <2>3
  <2> QED
    BY <2>1, <2>4, <2>5, <2>6
<1>4. \A a \in B : balances[a] = open[a] + kept[a] + got[a]
  BY LoopsOver
\* The opening balances.
<1>5. SumOf(open, B) = SumOf(opening, D) /\ SumOf(opening, D) \in Int
  <2>1. \A a \in D : open[a] = opening[a] /\ opening[a] \in Int
    BY <1>1, <1>3
  <2>2. \A a \in B \ D : open[a] = 0
    OBVIOUS
  <2>3. IsFiniteSet(B) /\ D \subseteq B
    BY <1>1
  <2> HIDE DEF B, D, open
  <2> QED
    BY <2>1, <2>2, <2>3, SumExtended
\* The parts that stay.
<1>6. SumOf(kept, B) = SumOf(stays, Y) /\ SumOf(stays, Y) \in Int
  <2>1. (\A a \in Y : kept[a] = stays[a]) /\ (\A a \in B \ Y : kept[a] = 0)
    BY <1>1, SameFormulas DEF Months!Kept
  <2>2. Y \subseteq B
    BY <1>1
  <2> HIDE DEF B, Y, kept, stays
  <2> QED
    BY <1>1, <1>3, <2>1, <2>2, SumExtended
\* The parts that are paid.
<1>7. SumOf(got, B) = SumOf(v, P) /\ SumOf(v, P) \in Int
  <2> DEFINE One == [a \in B |-> {s \in P : list[s].target = a}]
  <2>1. \A s \in P : target[s] \in B /\ target[s] = list[s].target
    BY <1>1, LoopsOver
  <2>2. \A a \in B : One[a] \subseteq P /\ \A s \in P : s \in One[a] <=> target[s] = a
    BY <2>1
  <2>3. \A a \in B : got[a] = SumOf(v, One[a])
    BY LoopsOver
  <2>4. \A s \in P : v[s] \in Int
    BY <1>1, <1>3
  <2>5. IsFiniteSet(B) /\ IsFiniteSet(P) /\ \A s \in P : target[s] \in B
    BY <1>1, <1>2, <2>1
  <2> HIDE DEF B, P, v, target, got, One
  <2>6. SumOf(v, P) \in Int
    BY <1>2, <2>4, SumInt
  <2>7. SumOf(got, B) = SumOf(v, P)
    BY <2>2, <2>3, <2>4, <2>5, SumByTarget
  <2> QED
    BY <2>6, <2>7
<1> HIDE DEF B, D, Y, P, L, v, target, open, kept, got, stays, earned, lost
\* All of it.
<1>8. SumOf(balances, B) = SumOf(open, B) + SumOf(kept, B) + SumOf(got, B)
  <2> DEFINE both == [a \in B |-> open[a] + kept[a]]
  <2>1. \A a \in B : /\ open[a] \in Int /\ kept[a] \in Int /\ got[a] \in Int
    <3>1. \A a \in B : open[a] \in Int
      BY <1>3 DEF open
    <3>2. \A a \in B : kept[a] \in Int
      BY <1>3, SameFormulas DEF kept, stays, Months!Kept, Y
    <3>3. \A a \in B : got[a] \in Int
      <4> SUFFICES ASSUME NEW a \in B
                   PROVE  got[a] \in Int
        OBVIOUS
      <4> DEFINE S == {s \in P : list[s].target = a}
      <4>1. got[a] = SumOf(v, S)
        BY LoopsOver DEF got, v, P
      <4>2. S \subseteq P /\ \A s \in S : v[s] \in Int
        BY <1>1, <1>3
      <4> HIDE DEF S
      <4>3. IsFiniteSet(S)
        BY <1>2, <4>2, FS_Subset
      <4> QED
        BY <4>1, <4>2, <4>3, SumInt
    <3> QED
      BY <3>1, <3>2, <3>3
  <2>2. \A a \in B : both[a] = open[a] + kept[a]
    OBVIOUS
  <2> HIDE DEF both
  <2>3. SumOf(both, B) = SumOf(open, B) + SumOf(kept, B)
    BY <1>1, <2>1, <2>2, SumPlus
  <2>4. \A a \in B : both[a] \in Int /\ got[a] \in Int /\ balances[a] = both[a] + got[a]
    BY <1>4, <2>1, <2>2
  <2>5. SumOf(balances, B) = SumOf(both, B) + SumOf(got, B)
    BY <1>1, <2>4, SumPlus
  <2> QED
    BY <2>3, <2>5
<1>9. SumOf(earned, Y) = SumOf(stays, Y) + SumOf(v, Y)
  BY <1>2, <1>3, SumPlus
<1>10. SumOf(v, Y) = SumOf(v, P) + SumOf(v, L) /\ SumOf(v, L) \in Int
  <2>1. P \cup L = Y /\ P \cap L = {}
    BY <1>1 DEF L
  <2>2. IsFiniteSet(Y) /\ \A s \in Y : v[s] \in Int
    BY <1>2, <1>3
  <2> QED
    BY <2>1, <2>2, TwoParts
<1>11. SumOf(lost, L) = SumOf(v, L)
  BY <1>2, <1>3, SumSame
<1>12. SumOf(balances, B) = SumOf(opening, D) + SumOf(earned, Y) - SumOf(lost, L)
  BY <1>5, <1>6, <1>7, <1>8, <1>9, <1>10, <1>11
<1>13. /\ Total(balances) = SumOf(balances, B) /\ Total(opening) = SumOf(opening, D)
       /\ Total(earned) = SumOf(earned, Y) /\ Total(lost) = SumOf(lost, L)
  <2>1. DOMAIN earned = Y /\ DOMAIN lost = L /\ DOMAIN balances = B /\ DOMAIN opening = D
    BY DEF earned, lost, B, D
  <2> QED
    BY <2>1, TotalIsSum
<1>14. Total(balances) = Total(opening) + Total(earned) - Total(lost)
  BY <1>12, <1>13
<1> QED
  BY <1>14 DEF earned, lost, L, P, Y

\* TotalInterests is a difference of two totals.  For any accounts, whoever pays
\* whom, each month adds to it the interest of all accounts less the rests that
\* nobody is to receive: no payout is dropped or credited twice.
THEOREM MonthsGrowByInterest == Spec => []MonthGrowsByInterest
<1>1. Invariant /\ FiniteInv /\ MonthInv => MonthGrowsByInterest
  BY TotalGrows DEF Invariant, MonthGrowsByInterest
<1> QED
  BY <1>1, SpecInvariant, SpecFinite, SpecMonthInv, PTL
=============================================================================
