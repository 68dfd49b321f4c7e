------------------------- MODULE MemoryChainProofs -------------------------
(***************************************************************************)
(* Theorems about MemoryChain, for a chain of any height and any numbers.  *)
(***************************************************************************)
EXTENDS MemoryChain, FiniteSetTheorems, WellFoundedInduction, TLAPS

----------------------------------------------------------------------------
(* Minima over finite chains.                                              *)

\* What min() over a list returns: the first of the smallest.
IsFirstMin(S, f, l) == l \in S /\ \A m \in S : f[l] < f[m] \/ (f[l] = f[m] /\ l <= m)

\* The chain lengths n for which some set of levels up to n has no first minimum.
Bad == {n \in Nat : \E S \in SUBSET (1..n) : \E f \in [S -> Int] :
                       S # {} /\ \A l \in S : ~IsFirstMin(S, f, l)}

\* The less-than relation is well founded on the naturals, so a nonempty set of
\* naturals has a least element.
LEMMA LeastNatural ==
  ASSUME NEW T, T \subseteq Nat, T # {}
  PROVE  \E n \in T : \A m \in T : n <= m
<1>1. IsWellFoundedOn(OpToRel(<, Nat), Nat)
  BY NatLessThanWellFounded
<1>2. PICK n \in T : \A m \in T : ~(<<m, n>> \in OpToRel(<, Nat))
  BY <1>1, WFMin, Zenon
<1>3. ASSUME NEW m \in T
      PROVE  n <= m
  <2>1. ~(m < n)
    BY <1>2 DEF OpToRel
  <2> QED
    BY <2>1
<1> QED
  BY <1>3

\* A nonempty set of levels has a first minimum under any integer key.
LEMMA FirstMinExists ==
  ASSUME NEW n \in Nat, NEW S \in SUBSET (1..n), S # {}, NEW f \in [S -> Int]
  PROVE  \E l \in S : IsFirstMin(S, f, l)
<1>1. Bad = {}
  <2> SUFFICES ASSUME Bad # {}
               PROVE  FALSE
    OBVIOUS
  <2>1. PICK k \in Bad : \A m \in Bad : k <= m
    BY LeastNatural DEF Bad
  <2>2. k \in Nat
    BY DEF Bad
  <2>3a. PICK R \in SUBSET (1..k) : \E g \in [R -> Int] :
            R # {} /\ \A l \in R : ~IsFirstMin(R, g, l)
    BY DEF Bad
  <2>3. PICK g \in [R -> Int] : R # {} /\ \A l \in R : ~IsFirstMin(R, g, l)
    BY <2>3a
  <2>4. k # 0
    <3>1. PICK l \in R : TRUE
      BY <2>3
    <3>2. l \in 1..k
      OBVIOUS
    <3> QED
      BY <2>2, <3>2
  <2>5. k - 1 \in Nat /\ k - 1 \notin Bad
    BY <2>1, <2>2, <2>4
  <2> DEFINE Q == R \ {k}
             h == [l \in Q |-> g[l]]
  <2>6. Q \in SUBSET (1..(k - 1)) /\ h \in [Q -> Int]
    BY <2>2, <2>3
  <2>7. CASE Q = {}
    <3>1. R = {k}
      BY <2>3, <2>7
    <3>2. IsFirstMin(R, g, k)
      BY <3>1, <2>2, <2>3 DEF IsFirstMin
    <3> QED
      BY <3>1, <3>2, <2>3
  <2>8. CASE Q # {}
    <3>1. PICK l \in Q : IsFirstMin(Q, h, l)
      BY <2>5, <2>6, <2>8 DEF Bad
    <3>2. \A m \in Q : g[l] < g[m] \/ (g[l] = g[m] /\ l <= m)
      BY <3>1 DEF IsFirstMin
    <3>3. l \in R /\ l \in 1..(k - 1) /\ g[l] \in Int
      BY <3>1, <2>3, <2>6
    <3>4. CASE k \notin R \/ g[l] <= g[k]
      <4>1. IsFirstMin(R, g, l)
        BY <3>2, <3>3, <3>4, <2>2, <2>3 DEF IsFirstMin
      <4> QED
        BY <4>1, <3>3, <2>3
    <3>5. CASE k \in R /\ g[k] < g[l]
      <4>1. \A m \in Q : g[m] \in Int
        BY <2>3
      <4>2. \A m \in Q : g[k] < g[m]
        BY <3>2, <3>3, <3>5, <4>1, <2>3
      <4>3. IsFirstMin(R, g, k)
        BY <3>5, <4>2, <2>2, <2>3 DEF IsFirstMin
      <4> QED
        BY <4>3, <3>5, <2>3
    <3>6. k \in R => g[k] \in Int
      OBVIOUS
    <3> QED
      BY <3>3, <3>4, <3>5, <3>6
  <2> QED
    BY <2>7, <2>8
<1>2. n \notin Bad
  BY <1>1
<1> QED
  BY <1>2 DEF Bad

----------------------------------------------------------------------------
(* The levels the answer is taken from.                                    *)

\* The tightest limit is one of those read, none is smaller, and of several as small
\* it is the innermost.
LEMMA TightestIsLeast ==
  ASSUME TypeOK, Held # {}
  PROVE  /\ Tightest \in Held
         /\ \A m \in Held : held[Tightest] <= held[m]
         /\ \A m \in Held : held[m] = held[Tightest] => Tightest <= m
<1> DEFINE f == [l \in Held |-> held[l]]
<1>1. Height \in Nat /\ Held \in SUBSET (1..Height)
  BY HeightAssumption DEF Held, Level
<1>2. \A l \in Held : held[l] \in Nat
  BY DEF TypeOK, Held
<1>3. f \in [Held -> Int]
  BY <1>2
<1>4. PICK l \in Held : IsFirstMin(Held, f, l)
  BY <1>1, <1>3, FirstMinExists
<1>5. \A m \in Held : held[l] < held[m] \/ (held[l] = held[m] /\ l <= m)
  BY <1>4 DEF IsFirstMin
<1>6. /\ Tightest \in Held
      /\ \A m \in Held : held[Tightest] < held[m] \/ (held[Tightest] = held[m] /\ Tightest <= m)
  BY <1>5 DEF Tightest, FirstMin, Limit
<1> QED
  BY <1>2, <1>6

\* The level the room is taken from: a silent one where there is any, else one
\* whose distance no other level undercuts.
LEMMA ClosestIsLeast ==
  ASSUME TypeOK, Held # {}
  PROVE  /\ Closest \in Held
         /\ Silent # {} => usage[Closest] = None
         /\ Silent = {} => \A m \in Held : /\ usage[m] # None
                                           /\ Distance(m) \in Int
                                           /\ Distance(Closest) <= Distance(m)
<1>1. Height \in Nat /\ Held \in SUBSET (1..Height)
  BY HeightAssumption DEF Held, Level
<1>2. CASE Silent # {}
  <2>1. Silent \subseteq Nat
    <3>1. Silent \subseteq 1..Height
      BY <1>1 DEF Silent
    <3> QED
      BY <3>1, <1>1
  <2>2. \E l \in Silent : \A m \in Silent : l <= m
    BY <2>1, <1>2, LeastNatural
  <2>3. Closest \in Silent
    BY <2>2, <1>2 DEF Closest
  <2> QED
    BY <2>3, <1>2 DEF Silent
<1>3. CASE Silent = {}
  <2> DEFINE f == [l \in Held |-> Distance(l)]
  <2>1. \A l \in Held : held[l] \in Nat /\ usage[l] # None
    BY <1>3 DEF TypeOK, Held, Silent
  <2>2. \A l \in Held : usage[l].charged \in Nat
    BY <2>1 DEF TypeOK, Held
  <2>3. \A l \in Held : Distance(l) \in Int
    BY <2>1, <2>2 DEF Distance
  <2>4. f \in [Held -> Int]
    BY <2>3
  <2>5. PICK l \in Held : IsFirstMin(Held, f, l)
    BY <1>1, <2>4, FirstMinExists
  <2>6. \A m \in Held : Distance(l) < Distance(m) \/ (Distance(l) = Distance(m) /\ l <= m)
    BY <2>5 DEF IsFirstMin
  <2>7. Closest = FirstMin(Held, Distance)
    BY <1>3 DEF Closest
  <2>8. /\ Closest \in Held
        /\ \A m \in Held : \/ Distance(Closest) < Distance(m)
                           \/ Distance(Closest) = Distance(m) /\ Closest <= m
    BY <2>6, <2>7 DEF FirstMin
  <2> QED
    BY <1>3, <2>1, <2>3, <2>8
<1> QED
  BY <1>2, <1>3

----------------------------------------------------------------------------
(* Type correctness.                                                       *)

\* A machine on which nothing is charged yet, and a call that has not begun.
LEMMA InitType == Init => TypeOK
<1> SUFFICES ASSUME Init
             PROVE  TypeOK
  OBVIOUS
<1>1. 1 \in Level
  BY HeightAssumption DEF Level
<1>2. host \in Host
  BY HostAssumption DEF Init
<1>3. /\ pages \in [Level -> [Kind -> Nat]]
      /\ \A l, m \in Level : l <= m => \A x \in Kind : pages[l][x] <= pages[m][x]
  BY DEF Init
<1>4. limit \in [Level -> Int \cup {NoLimit}]
  BY <1>2 DEF Init, Host
<1>5. reply \in [outcome : Outcome, budget : Budgets \cup {NoBudget},
                 level : Level \cup {None}, unflushed : Nat \cup {None}]
  BY DEF Init, Says, Outcome
<1> QED
  BY <1>1, <1>2, <1>3, <1>4, <1>5 DEF Init, TypeOK, Nothing

\* What the kernel does leaves the counts natural, and a level counts at least
\* what the levels below it count.
LEMMA KernelType == TypeOK /\ Kernel => TypeOK'
<1> SUFFICES ASSUME TypeOK, Kernel
             PROVE  TypeOK'
  OBVIOUS
<1>1. Observe => TypeOK' \/ ~( /\ pages' \in [Level -> [Kind -> Nat]]
                               /\ \A l, m \in Level : l <= m =>
                                    \A x \in Kind : pages'[l][x] <= pages'[m][x]
                               /\ limit' \in [Level -> Int \cup {NoLimit}]
                               /\ mute' \subseteq Level \X Entry)
  BY DEF TypeOK, Observe
<1>2. \A l \in Level : l \in Nat /\ l >= 1 /\ (l # 1 => l - 1 \in Level)
  BY HeightAssumption DEF Level
<1>3. ASSUME NEW k \in Level, NEW x \in {"anon", "clean"}, Charge(k, x)
      PROVE  TypeOK'
  <2>1. x \in Kind
    BY DEF Kind
  <2>2. \A l \in Level, y \in Kind :
          pages'[l][y] = IF l >= k /\ y = x THEN pages[l][y] + 1 ELSE pages[l][y]
    <3> SUFFICES ASSUME NEW l \in Level, NEW y \in Kind
                 PROVE  pages'[l][y] = IF l >= k /\ y = x THEN pages[l][y] + 1 ELSE pages[l][y]
      OBVIOUS
    <3>1. l \in Nat /\ k \in Nat /\ pages[l] \in [Kind -> Nat]
      BY <1>2 DEF TypeOK
    <3>2. pages'[l] = IF l < k THEN pages[l] ELSE [pages[l] EXCEPT ![x] = @ + 1]
      BY <1>3 DEF Charge
    <3> QED
      BY <3>1, <3>2, <2>1
  <2>3. /\ pages' \in [Level -> [Kind -> Nat]]
        /\ \A l, m \in Level : l <= m => \A y \in Kind : pages'[l][y] <= pages'[m][y]
    <3>1. pages' = [l \in Level |-> IF l < k THEN pages[l] ELSE [pages[l] EXCEPT ![x] = @ + 1]]
      BY <1>3 DEF Charge
    <3>2. pages' \in [Level -> [Kind -> Nat]]
      BY <3>1, <2>1 DEF TypeOK
    <3>3. ASSUME NEW l \in Level, NEW m \in Level, l <= m, NEW y \in Kind
          PROVE  pages'[l][y] <= pages'[m][y]
      <4>1. l \in Nat /\ m \in Nat /\ k \in Nat
        BY <1>2
      <4>2. pages[l][y] \in Nat /\ pages[m][y] \in Nat /\ pages[l][y] <= pages[m][y]
        BY <3>3 DEF TypeOK
      <4> QED
        BY <4>1, <4>2, <2>2, <3>3
    <3> QED
      BY <3>2, <3>3
  <2> QED
    BY <1>1, <1>3, <2>3 DEF Charge, TypeOK
<1>4. ASSUME NEW k \in Level, NEW x \in Kind, Own(k, x) > 0
      PROVE  /\ \A l \in Level : l >= k => pages[l][x] >= 1
             /\ \A l, m \in Level : l < k /\ m >= k => pages[l][x] <= pages[m][x] - 1
  <2>1. \A l \in Level : pages[l][x] \in Nat
    BY DEF TypeOK
  <2>2. \A l, m \in Level : l <= m => pages[l][x] <= pages[m][x]
    BY DEF TypeOK
  <2>3. pages[k][x] >= 1
    BY <1>2, <1>4, <2>1 DEF Own
  <2>4. \A l \in Level : l < k => pages[l][x] <= pages[k][x] - 1
    <3> SUFFICES ASSUME NEW l \in Level, l < k
                 PROVE  pages[l][x] <= pages[k][x] - 1
      OBVIOUS
    <3>1. k # 1 /\ k - 1 \in Level /\ l <= k - 1
      BY <1>2
    <3>2. pages[k][x] - pages[k - 1][x] > 0
      BY <1>4, <3>1 DEF Own
    <3> QED
      BY <3>1, <3>2, <2>1, <2>2
  <2> QED
    BY <1>2, <2>1, <2>2, <2>3, <2>4
<1>5. ASSUME NEW k \in Level, NEW x \in {"anon", "clean"}, Release(k, x)
      PROVE  TypeOK'
  <2>1. x \in Kind /\ Own(k, x) > 0
    BY <1>5 DEF Kind, Release
  <2>2. \A l \in Level, y \in Kind :
          pages'[l][y] = IF l >= k /\ y = x THEN pages[l][y] - 1 ELSE pages[l][y]
    <3> SUFFICES ASSUME NEW l \in Level, NEW y \in Kind
                 PROVE  pages'[l][y] =
                         IF l >= k /\ y = x THEN pages[l][y] - 1 ELSE pages[l][y]
      OBVIOUS
    <3>1. l \in Nat /\ k \in Nat /\ pages[l] \in [Kind -> Nat]
      BY <1>2 DEF TypeOK
    <3>2. pages'[l] = IF l < k THEN pages[l] ELSE [pages[l] EXCEPT ![x] = @ - 1]
      BY <1>5 DEF Release
    <3> QED
      BY <3>1, <3>2, <2>1
  <2>3. /\ pages' \in [Level -> [Kind -> Nat]]
        /\ \A l, m \in Level : l <= m => \A y \in Kind : pages'[l][y] <= pages'[m][y]
    <3>1. \A l \in Level, y \in Kind : pages'[l][y] \in Nat
      BY <1>2, <1>4, <2>1, <2>2 DEF TypeOK
    <3>2. pages' = [l \in Level |-> IF l < k THEN pages[l] ELSE [pages[l] EXCEPT ![x] = @ - 1]]
      BY <1>5 DEF Release
    <3>3. pages' \in [Level -> [Kind -> Nat]]
      BY <3>1, <3>2, <2>1 DEF TypeOK
    <3>4. ASSUME NEW l \in Level, NEW m \in Level, l <= m, NEW y \in Kind
          PROVE  pages'[l][y] <= pages'[m][y]
      <4>1. l \in Nat /\ m \in Nat /\ k \in Nat
        BY <1>2
      <4>2. pages[l][y] \in Nat /\ pages[m][y] \in Nat /\ pages[l][y] <= pages[m][y]
        BY <3>4 DEF TypeOK
      <4>3. l < k /\ m >= k => pages[l][x] <= pages[m][x] - 1
        BY <1>4, <2>1
      <4> QED
        BY <4>1, <4>2, <4>3, <2>2, <3>4
    <3> QED
      BY <3>3, <3>4
  <2> QED
    BY <1>1, <1>5, <2>3 DEF Release, TypeOK
<1>6. ASSUME NEW k \in Level, NEW t \in Turns, Turn(k, t[1], t[2])
      PROVE  TypeOK'
  <2>1. t[1] \in Kind /\ t[2] \in Kind /\ t[1] # t[2] /\ Own(k, t[1]) > 0
    BY <1>6 DEF Kind, Turns, Turn
  <2>2. \A l \in Level, y \in Kind :
          pages'[l][y] = IF l >= k /\ y = t[1] THEN pages[l][y] - 1
                         ELSE IF l >= k /\ y = t[2] THEN pages[l][y] + 1
                         ELSE pages[l][y]
    <3> SUFFICES ASSUME NEW l \in Level, NEW y \in Kind
                 PROVE  pages'[l][y] =
                         IF l >= k /\ y = t[1] THEN pages[l][y] - 1
                         ELSE IF l >= k /\ y = t[2] THEN pages[l][y] + 1
                         ELSE pages[l][y]
      OBVIOUS
    <3>1. l \in Nat /\ k \in Nat /\ pages[l] \in [Kind -> Nat]
      BY <1>2 DEF TypeOK
    <3>2. pages'[l] = IF l < k THEN pages[l] ELSE [pages[l] EXCEPT ![t[1]] = @ - 1, ![t[2]] = @ + 1]
      BY <1>6 DEF Turn
    <3> QED
      BY <3>1, <3>2, <2>1
  <2>3. /\ pages' \in [Level -> [Kind -> Nat]]
        /\ \A l, m \in Level : l <= m => \A y \in Kind : pages'[l][y] <= pages'[m][y]
    <3>1. \A l \in Level, y \in Kind : pages'[l][y] \in Nat
      BY <1>2, <1>4, <2>1, <2>2 DEF TypeOK
    <3>2. pages' = [l \in Level |-> IF l < k THEN pages[l]
                      ELSE [pages[l] EXCEPT ![t[1]] = @ - 1, ![t[2]] = @ + 1]]
      BY <1>6 DEF Turn
    <3>3. pages' \in [Level -> [Kind -> Nat]]
      BY <3>1, <3>2, <2>1 DEF TypeOK
    <3>4. ASSUME NEW l \in Level, NEW m \in Level, l <= m, NEW y \in Kind
          PROVE  pages'[l][y] <= pages'[m][y]
      <4>1. l \in Nat /\ m \in Nat /\ k \in Nat
        BY <1>2
      <4>2. pages[l][y] \in Nat /\ pages[m][y] \in Nat /\ pages[l][y] <= pages[m][y]
        BY <3>4 DEF TypeOK
      <4>3. l < k /\ m >= k => pages[l][t[1]] <= pages[m][t[1]] - 1
        BY <1>4, <2>1
      <4> QED
        BY <4>1, <4>2, <4>3, <2>2, <3>4
    <3> QED
      BY <3>3, <3>4
  <2> QED
    BY <1>1, <1>6, <2>3 DEF Turn, TypeOK
<1>7. ASSUME NEW l \in host.rewrites, NEW content \in host.limits, SetLimit(l, content)
      PROVE  TypeOK'
  <2>1. limit' \in [Level -> Int \cup {NoLimit}]
    BY <1>7 DEF SetLimit, TypeOK, Host
  <2> QED
    BY <1>1, <1>7, <2>1 DEF SetLimit, TypeOK
<1>8. ASSUME NEW lf \in host.flaky, Flip(lf)
      PROVE  TypeOK'
  <2>1. mute' \subseteq Level \X Entry
    BY <1>8 DEF Flip, TypeOK, Host
  <2> QED
    BY <1>1, <1>8, <2>1 DEF Flip, TypeOK
<1> QED
  BY <1>3, <1>5, <1>6, <1>7, <1>8 DEF Kernel

\* The counts are natural numbers, so are the files made of them.
LEMMA FileTypes ==
  ASSUME TypeOK, NEW l \in Level
  PROVE  /\ Charged(l) \in Nat
         /\ InactiveFile(l) \in Nat
         /\ FileDirty(l) \in Nat
         /\ FileWriteback(l) \in Nat
         /\ pages[l]["clean"] \in Nat
<1>1. \A x \in Kind : pages[l][x] \in Nat
  BY DEF TypeOK
<1>2. /\ pages[l]["anon"] \in Nat
      /\ pages[l]["clean"] \in Nat
      /\ pages[l]["dirty"] \in Nat
      /\ pages[l]["writeback"] \in Nat
      /\ pages[l]["active"] \in Nat
  BY <1>1 DEF Kind
<1> QED
  BY <1>2 DEF Charged, InactiveFile, FileDirty, FileWriteback

\* What a level is charged is never negative, and nothing but the inactive cache
\* left after the unflushed pages is credited back.
LEMMA UsageType ==
  ASSUME NEW keys \in SUBSET StatKeys, NEW charge \in Nat, NEW inactive \in Nat,
         NEW dirty \in Nat, NEW writeback \in Nat
  PROVE  MemoryUsage(charge, inactive, Unflushed(keys, dirty, writeback))
           \in [charged : Nat, unflushed : Nat \cup {None}]
<1> DEFINE u == Unflushed(keys, dirty, writeback)
<1>1. u \in Nat \cup {None}
  BY DEF Unflushed, Max0
<1>2. Credit(inactive, u) \in Nat
  BY <1>1, ContentAssumption DEF Credit, Max0
<1>3. Max0(charge - Credit(inactive, u)) \in Nat
  BY <1>2 DEF Max0
<1> QED
  BY <1>1, <1>3 DEF MemoryUsage

\* The budget _reconcile makes is a pair of naturals below the limit.
LEMMA ReconcileType ==
  ASSUME NEW cap \in Nat, NEW used \in Int, NEW available \in Int
  PROVE  Reconcile(cap, used, available) \in Budgets
<1> DEFINE charged == AtMost(Max0(used), cap)
<1>1. charged \in Nat /\ charged <= cap
  BY DEF AtMost, Max0
<1>2. AtMost(Max0(available), cap - charged) \in Nat
  BY <1>1 DEF AtMost, Max0
<1> QED
  BY <1>1, <1>2 DEF Reconcile, Budgets

\* The answers of _evaluate_memory.
LEMMA EvaluateType ==
  ASSUME TypeOK
  PROVE  Evaluate \in [outcome : Outcome, budget : Budgets \cup {NoBudget},
                       level : Level \cup {None}, unflushed : Nat \cup {None}]
<1>1. \A o \in Outcome : Says(o) \in [outcome : Outcome, budget : Budgets \cup {NoBudget},
                                      level : Level \cup {None}, unflushed : Nat \cup {None}]
  BY DEF Says
<1>2. CASE Held # {} /\ usage[Closest] # None
  <2>1. Tightest \in Level /\ held[Tightest] \in Nat
    BY <1>2, TightestIsLeast DEF Held, TypeOK
  <2>2. Closest \in Level /\ held[Closest] \in Nat
    BY <1>2, ClosestIsLeast DEF Held, TypeOK
  <2>3. usage[Closest] \in [charged : Nat, unflushed : Nat \cup {None}]
    BY <1>2, <2>2 DEF TypeOK
  <2>4. Available(Closest) \in Nat
    BY <2>2, <2>3 DEF Available, Distance, Max0
  <2>5. Reconcile(held[Tightest], held[Tightest] - Available(Closest), Available(Closest)) \in Budgets
    <3>1. held[Tightest] - Available(Closest) \in Int /\ Available(Closest) \in Int
      BY <2>1, <2>4
    <3> QED
      BY <2>1, <3>1, ReconcileType
  <2>6. [outcome   |-> "budget",
         budget    |-> Reconcile(held[Tightest], held[Tightest] - Available(Closest),
                                 Available(Closest)),
         level     |-> Tightest,
         unflushed |-> usage[Closest].unflushed]
          \in [outcome : Outcome, budget : Budgets \cup {NoBudget},
               level : Level \cup {None}, unflushed : Nat \cup {None}]
    BY <2>1, <2>3, <2>5 DEF Outcome
  <2> QED
    BY <1>1, <1>2, <2>6 DEF Evaluate, Outcome
<1>3. CASE ~(Held # {} /\ usage[Closest] # None)
  BY <1>1, <1>3 DEF Evaluate, Outcome
<1> QED
  BY <1>2, <1>3

\* Moving on to the next level.
LEMMA AdvanceType ==
  ASSUME TypeOK, Advance
  PROVE  at' \in Level /\ pc' \in {"limit", "judge"} /\ current' \in Nat
BY HeightAssumption DEF Advance, TypeOK, Level

\* No read and no judgement of get_memory_budget() leaves a variable outside its
\* type, so no usage and no number of a budget is ever negative.
LEMMA ReaderType == TypeOK /\ WalkInv /\ Reader => TypeOK'
<1> SUFFICES ASSUME TypeOK, WalkInv, Reader
             PROVE  TypeOK'
  OBVIOUS
<1>1. 1 \in Level
  BY HeightAssumption DEF Level
<1>2. CASE Begin
  <2>1. Needed \subseteq Level \X File
    BY DEF Needed
  <2>2. Says("pending") \in [outcome : Outcome, budget : Budgets \cup {NoBudget},
                             level : Level \cup {None}, unflushed : Nat \cup {None}]
    BY DEF Says, Outcome
  <2>3. hidden' \subseteq Level \X File /\ pc' \in {"judge", "limit"}
    BY <1>2, <2>1 DEF Begin
  <2> QED
    BY <1>1, <1>2, <2>2, <2>3 DEF Begin, TypeOK, kernel
<1>3. CASE RejectLevel
  BY <1>3 DEF RejectLevel, TypeOK, kernel, history
<1>4. CASE SkipLevel
  BY <1>4, AdvanceType DEF SkipLevel, TypeOK, kernel, history
<1>5. CASE HoldLevel
  <2>1. limit[at] \in Nat
    BY <1>5 DEF HoldLevel, Unusable, Unlimited, TypeOK
  <2> QED
    BY <1>5, <2>1 DEF HoldLevel, TypeOK, kernel, history
<1>6. CASE ReadCharge
  BY <1>6, FileTypes DEF ReadCharge, TypeOK, kernel, history
<1>7. CASE LoseUsage
  BY <1>7, AdvanceType DEF LoseUsage, TypeOK, kernel, history
<1>8. CASE ReadStat
  <2> DEFINE u == MemoryUsage(current, InactiveFile(at),
                              Unflushed(host.keys, FileDirty(at), FileWriteback(at)))
             b == held[at] - (Charged(at) - pages[at]["clean"]) + Max0(Charged(at) - current)
  <2>1. u \in [charged : Nat, unflushed : Nat \cup {None}]
    BY FileTypes, UsageType DEF TypeOK, Host
  <2>2. usage' \in [Level -> [charged : Nat, unflushed : Nat \cup {None}] \cup {None}]
    BY <1>8, <2>1 DEF ReadStat, TypeOK
  <2>3. at \in Level /\ held[at] \in Nat
    BY <1>8 DEF ReadStat, TypeOK, WalkInv
  <2>4. bound' \in [Level -> Int]
    <3>1. b \in Int
      BY <2>3, FileTypes DEF TypeOK, Max0
    <3> QED
      BY <1>8, <3>1 DEF ReadStat, TypeOK
  <2> QED
    BY <1>8, <2>2, <2>4, AdvanceType DEF ReadStat, TypeOK, kernel
<1>9. CASE Judge
  BY <1>1, <1>9, EvaluateType DEF Judge, TypeOK, kernel, Nothing
<1> QED
  BY <1>2, <1>3, <1>4, <1>5, <1>6, <1>7, <1>8, <1>9 DEF Reader

----------------------------------------------------------------------------
(* The rest of the inductive invariant.                                    *)

\* The invariant holds before the first call.
LEMMA InitInv == Init => IInv
<1> SUFFICES ASSUME Init
             PROVE  IInv
  OBVIOUS
<1>1. TypeOK
  BY InitType
<1>2. WalkInv
  BY DEF Init, WalkInv, Nothing, Ahead
<1>3. RoomInv
  BY DEF Init, RoomInv, Nothing
<1>4. HiddenInv
  BY DEF Init, HiddenInv
<1>5. QuietInv
  BY DEF Init, QuietInv
<1> QED
  BY <1>1, <1>2, <1>3, <1>4, <1>5 DEF IInv

\* A walk gathers no limit of a level ahead of it, and no usage without a limit.
LEMMA ReaderWalk == TypeOK /\ WalkInv /\ Reader => WalkInv'
<1> SUFFICES ASSUME TypeOK, WalkInv, Reader
             PROVE  WalkInv'
  OBVIOUS
<1>1. at \in Level /\ Level \subseteq Nat
  BY HeightAssumption DEF TypeOK, Level
<1>2. CASE Begin
  BY <1>2 DEF Begin, WalkInv, Nothing, TypeOK, Ahead, Host
<1>3. CASE RejectLevel
  BY <1>3 DEF RejectLevel, WalkInv, Ahead
<1>4. CASE SkipLevel
  BY <1>1, <1>4 DEF SkipLevel, Advance, WalkInv, Ahead, TypeOK
<1>5. CASE HoldLevel
  <2>1. limit[at] # None
    BY <1>5, ContentAssumption DEF HoldLevel, Unlimited, TypeOK
  <2>2. held' \in [Level -> Nat \cup {None}] /\ held'[at] = limit[at]
    BY <1>1, <1>5 DEF HoldLevel, Unusable, Unlimited, TypeOK
  <2>3. \A l \in Level : l # at => held'[l] = held[l]
    BY <1>5 DEF HoldLevel, TypeOK
  <2>4. usage[at] = None
    BY <1>1, <1>5 DEF HoldLevel, WalkInv, Ahead
  <2> QED
    BY <1>1, <1>5, <2>1, <2>2, <2>3, <2>4 DEF HoldLevel, WalkInv, Ahead
<1>6. CASE ReadCharge
  BY <1>6 DEF ReadCharge, WalkInv, Ahead
<1>7. CASE LoseUsage
  BY <1>1, <1>7 DEF LoseUsage, Advance, WalkInv, Ahead, TypeOK
<1>8. CASE ReadStat
  <2>1. \A l \in Level : l # at => usage'[l] = usage[l]
    BY <1>8 DEF ReadStat, TypeOK
  <2>2. UNCHANGED <<held, unreadable, host>> /\ Advance /\ pc = "stat" /\ held[at] # None
    BY <1>8 DEF ReadStat, WalkInv
  <2> QED
    BY <1>1, <2>1, <2>2 DEF Advance, WalkInv, Ahead, TypeOK
<1>9. CASE Judge
  BY <1>9 DEF Judge, WalkInv, Nothing, Ahead
<1> QED
  BY <1>2, <1>3, <1>4, <1>5, <1>6, <1>7, <1>8, <1>9 DEF Reader

\* With both keys, no more is credited than the clean pages of the inactive list.
LEMMA CreditIsClean ==
  ASSUME TypeOK, NEW l \in Level
  PROVE  LET u == Unflushed(StatKeys, FileDirty(l), FileWriteback(l))
         IN  /\ u # None
             /\ Credit(InactiveFile(l), u) \in Nat
             /\ Credit(InactiveFile(l), u) <= pages[l]["clean"]
<1> DEFINE u == Unflushed(StatKeys, FileDirty(l), FileWriteback(l))
<1>1. /\ pages[l]["clean"] \in Nat
      /\ pages[l]["dirty"] \in Nat
      /\ pages[l]["writeback"] \in Nat
      /\ pages[l]["active"] \in Nat
  BY DEF TypeOK, Kind
<1>2. u = pages[l]["dirty"] + pages[l]["active"] + pages[l]["writeback"]
  BY <1>1 DEF Unflushed, StatKeys, FileDirty, FileWriteback, Max0
<1>3. u \in Nat /\ u # None
  BY <1>1, <1>2, ContentAssumption
<1>4. Credit(InactiveFile(l), u) = Max0(pages[l]["clean"] - pages[l]["active"])
  <2>1. InactiveFile(l) - u = pages[l]["clean"] - pages[l]["active"]
    BY <1>1, <1>2 DEF InactiveFile
  <2> QED
    BY <1>3, <2>1 DEF Credit
<1> QED
  BY <1>1, <1>3, <1>4 DEF Max0

\* Nothing changes what is fixed while the process runs.
LEMMA HostFixed == Reader => host' = host
<1>1. Begin => host' = host
  BY DEF Begin
<1>2. RejectLevel \/ SkipLevel \/ HoldLevel \/ ReadCharge => host' = host
  BY DEF RejectLevel, SkipLevel, HoldLevel, ReadCharge
<1>3. LoseUsage \/ ReadStat \/ Judge => host' = host
  BY DEF LoseUsage, ReadStat, Judge
<1> QED
  BY <1>1, <1>2, <1>3 DEF Reader

\* The distance a level is given is room it had when its stat file was read.
LEMMA ReaderRoom == TypeOK /\ WalkInv /\ RoomInv /\ Reader => RoomInv'
<1> SUFFICES ASSUME TypeOK, WalkInv, RoomInv, Reader
             PROVE  RoomInv'
  OBVIOUS
<1> SUFFICES ASSUME host.keys = StatKeys, NEW l \in Level, usage'[l] # None
             PROVE  (Distance(l) <= bound[l])'
  BY HostFixed DEF RoomInv
<1>1. CASE Begin
  BY <1>1 DEF Begin, WalkInv, Nothing
<1>2. CASE RejectLevel \/ SkipLevel \/ ReadCharge \/ LoseUsage
  BY <1>2 DEF RejectLevel, SkipLevel, ReadCharge, LoseUsage, RoomInv, Distance, history
<1>3. CASE HoldLevel
  <2>1. l # at
    <3>1. held[l] # None /\ l \in Nat
      BY <1>3, HeightAssumption DEF HoldLevel, WalkInv, Level
    <3> QED
      BY <1>3, <3>1 DEF HoldLevel, WalkInv, Ahead
  <2>2. held'[l] = held[l] /\ usage' = usage /\ bound' = bound
    BY <1>3, <2>1 DEF HoldLevel, history, TypeOK
  <2> QED
    BY <2>2 DEF RoomInv, Distance
<1>4. CASE ReadStat
  <2>1. held' = held
    BY <1>4 DEF ReadStat
  <2>2. CASE l # at
    <3>1. usage'[l] = usage[l] /\ bound'[l] = bound[l]
      BY <1>4, <2>2 DEF ReadStat, TypeOK
    <3> QED
      BY <2>1, <3>1 DEF RoomInv, Distance
  <2>3. CASE l = at
    <3> DEFINE u == Unflushed(StatKeys, FileDirty(l), FileWriteback(l))
               c == Credit(InactiveFile(l), u)
    <3>1. held[l] \in Nat
      BY <1>4, <2>3 DEF ReadStat, WalkInv, TypeOK
    <3>2. usage'[l] = MemoryUsage(current, InactiveFile(l), u)
      BY <1>4, <2>3 DEF ReadStat, TypeOK
    <3>3. usage'[l].charged = Max0(current - c)
      BY <3>2 DEF MemoryUsage
    <3>4. bound'[l] = held[l] - (Charged(l) - pages[l]["clean"]) + Max0(Charged(l) - current)
      BY <1>4, <2>3 DEF ReadStat, TypeOK
    <3>5. /\ c \in Nat /\ c <= pages[l]["clean"]
          /\ current \in Nat /\ Charged(l) \in Nat /\ pages[l]["clean"] \in Nat
      BY CreditIsClean, FileTypes DEF TypeOK
    <3>6. held[l] - Max0(current - c)
            <= held[l] - (Charged(l) - pages[l]["clean"]) + Max0(Charged(l) - current)
      BY <3>1, <3>5 DEF Max0
    <3> QED
      BY <2>1, <3>3, <3>4, <3>6 DEF Distance
  <2> QED
    BY <2>2, <2>3
<1>5. CASE Judge
  BY <1>5 DEF Judge, Nothing
<1> QED
  BY <1>1, <1>2, <1>3, <1>4, <1>5 DEF Reader

\* A file that fails all along is ahead of the walk, ends it, or leaves its level
\* without a usage.
LEMMA ReaderHidden == TypeOK /\ WalkInv /\ HiddenInv /\ Reader => HiddenInv'
<1> SUFFICES ASSUME TypeOK, WalkInv, HiddenInv, Reader
             PROVE  HiddenInv'
  OBVIOUS
<1> USE DEF Silent, Held
<1>1. at \in Level /\ Level \subseteq Nat
  BY HeightAssumption DEF TypeOK, Level
<1>2. Needed' = Needed
  BY DEF Needed, Denied, Binds, Reader, Begin, RejectLevel, SkipLevel, HoldLevel, ReadCharge,
         LoseUsage, ReadStat, Judge, kernel
<1>3. Needed \subseteq Level \X File
  BY DEF Needed
<1>4. \A l \in Level : /\ <<l, "limit">> \in Needed => Unusable(l)
                       /\ <<l, "charge">> \in Needed => ~Unlimited(l) /\ Fails(l, "charge")
                       /\ <<l, "stat">> \in Needed => ~Unlimited(l) /\ Fails(l, "stat")
  BY DEF Needed, Binds, Unusable, Unlimited, Fails, TypeOK
<1>5. CASE Begin
  BY <1>1, <1>2, <1>3, <1>5 DEF Begin, HiddenInv, Ahead, Level
<1>6. CASE RejectLevel
  <2>1. unreadable' # None
    BY <1>1, <1>6, ContentAssumption DEF RejectLevel
  <2> QED
    BY <1>2, <1>6, <2>1 DEF RejectLevel, HiddenInv, history
<1>7. CASE Judge
  BY <1>7 DEF Judge, HiddenInv
<1>8. CASE SkipLevel \/ HoldLevel \/ ReadCharge \/ LoseUsage \/ ReadStat
  <2>1. hidden' = hidden /\ unreadable' = unreadable /\ unreadable = None
    BY <1>8 DEF SkipLevel, HoldLevel, ReadCharge, LoseUsage, ReadStat, WalkInv, history
  <2> SUFFICES ASSUME NEW l \in Level, NEW f \in File, <<l, f>> \in hidden
               PROVE  \/ Ahead(l)'
                      \/ /\ f # "limit"
                         /\ held'[l] # None
                         /\ usage'[l] = None
                         /\ pc' = "stat" => <<l, f>> # <<at', "charge">>
    BY <1>2, <1>3, <2>1 DEF HiddenInv
  <2>2. \/ Ahead(l)
        \/ /\ f # "limit"
           /\ held[l] # None
           /\ usage[l] = None
           /\ pc = "stat" => <<l, f>> # <<at, "charge">>
    BY <2>1 DEF HiddenInv
  <2>3. <<l, f>> \in Needed
    BY DEF HiddenInv
  <2>4. CASE SkipLevel
    <3>1. l # at
      BY <1>4, <2>3, <2>4 DEF SkipLevel, File
    <3> QED
      BY <1>1, <2>2, <2>4, <3>1 DEF SkipLevel, Advance, Ahead, Level
  <2>5. CASE HoldLevel
    <3>1. f # "limit" \/ l # at
      BY <1>4, <2>3, <2>5 DEF HoldLevel
    <3>2. limit[at] # None /\ usage[at] = None
      BY <1>1, <2>5, ContentAssumption DEF HoldLevel, Unlimited, WalkInv, TypeOK, Ahead
    <3>3. held'[at] = limit[at] /\ (l # at => held'[l] = held[l])
      BY <1>1, <2>5 DEF HoldLevel, TypeOK
    <3>4. pc = "limit" /\ pc' = "charge" /\ at' = at /\ usage' = usage
      BY <2>5 DEF HoldLevel
    <3>5. CASE l = at
      BY <3>1, <3>2, <3>3, <3>4, <3>5
    <3>6. CASE l # at
      BY <1>1, <2>2, <3>3, <3>4, <3>6 DEF Ahead
    <3> QED
      BY <3>5, <3>6
  <2>6. CASE ReadCharge
    <3>1. <<l, f>> # <<at, "charge">>
      BY <1>4, <2>3, <2>6 DEF ReadCharge
    <3> QED
      BY <2>2, <2>6, <3>1 DEF ReadCharge, Ahead
  <2>7. CASE LoseUsage
    BY <1>1, <2>2, <2>7 DEF LoseUsage, Advance, Ahead, Level
  <2>8. CASE ReadStat
    <3>1. <<l, f>> # <<at, "stat">>
      BY <1>4, <2>3, <2>8 DEF ReadStat
    <3>2. l # at
      BY <1>1, <2>2, <2>8, <3>1 DEF ReadStat, Ahead, File
    <3>3. usage'[l] = usage[l] /\ held' = held /\ pc = "stat" /\ Advance
      BY <2>8, <3>2 DEF ReadStat, TypeOK
    <3> QED
      BY <1>1, <2>2, <3>2, <3>3 DEF Advance, Ahead, Level
  <2> QED
    BY <1>8, <2>4, <2>5, <2>6, <2>7, <2>8
<1> QED
  BY <1>5, <1>6, <1>7, <1>8 DEF Reader

\* What the files say where the kernel does not move.
LEMMA FilesStand ==
  ASSUME UNCHANGED <<pages, limit, mute, host>>
  PROVE  /\ \A l \in Level : NowUsage(l)' = NowUsage(l) /\ NowHeld(l)' = NowHeld(l)
         /\ \A l : (Unusable(l)' <=> Unusable(l)) /\ (Unlimited(l)' <=> Unlimited(l))
         /\ \A l \in Level : Charged(l)' = Charged(l)
<1>1. \A l \in Level : /\ Charged(l)' = Charged(l) /\ InactiveFile(l)' = InactiveFile(l)
                       /\ FileDirty(l)' = FileDirty(l) /\ FileWriteback(l)' = FileWriteback(l)
                       /\ NowUnknown(l)' <=> NowUnknown(l)
  BY DEF Charged, InactiveFile, FileDirty, FileWriteback, NowUnknown, Fails, Denied
<1>2. \A l \in Level : NowUsage(l)' = NowUsage(l)
  BY <1>1 DEF NowUsage
<1>3. \A l \in Level : NowHeld(l)' = NowHeld(l)
  BY DEF NowHeld, Unlimited, Denied
<1> QED
  BY <1>1, <1>2, <1>3 DEF Unusable, Unlimited, Denied

\* While the kernel does not move, each read adds what the file says.
LEMMA ReaderQuiet == TypeOK /\ WalkInv /\ QuietInv /\ Reader => QuietInv'
<1> SUFFICES ASSUME TypeOK, WalkInv, QuietInv, Reader, quiet', pc' # "idle"
             PROVE  QuietInv'
  BY DEF QuietInv
<1>1. at \in Level /\ Level \subseteq Nat
  BY HeightAssumption DEF TypeOK, Level
<1>2. UNCHANGED <<pages, limit, mute, host>>
  BY DEF Reader, Begin, RejectLevel, SkipLevel, HoldLevel, ReadCharge, LoseUsage, ReadStat, Judge, kernel
<1>3. /\ \A l \in Level : NowUsage(l)' = NowUsage(l) /\ NowHeld(l)' = NowHeld(l)
      /\ \A l : (Unusable(l)' <=> Unusable(l)) /\ (Unlimited(l)' <=> Unlimited(l))
      /\ \A l \in Level : Charged(l)' = Charged(l)
  BY <1>2, FilesStand
<1>4. CASE Begin
  <2>1. /\ held' = Nothing /\ unreadable' = None /\ at' = 1 /\ pc' # "stat"
        /\ host.mechanism = "cgroup" => pc' = "limit"
    BY <1>4 DEF Begin, WalkInv
  <2>2. host.mechanism = "cgroup" => \A l \in Level : Ahead(l)'
    BY <1>1, <2>1 DEF Ahead, Level
  <2> QED
    BY <1>2, <2>1, <2>2 DEF QuietInv
<1>5. CASE Judge
  BY <1>5 DEF Judge
<1>6. CASE RejectLevel \/ SkipLevel \/ HoldLevel \/ ReadCharge \/ LoseUsage \/ ReadStat
  <2>1. quiet /\ pc \in {"limit", "charge", "stat"} /\ host.mechanism = "cgroup" /\ unreadable = None
    BY <1>6 DEF RejectLevel, SkipLevel, HoldLevel, ReadCharge, LoseUsage, ReadStat, WalkInv, history
  <2>2. \A l \in Level : ~Ahead(l) =>
          /\ ~Unusable(l) /\ held[l] = NowHeld(l)
          /\ ~Unlimited(l) /\ ~Reading(l) => usage[l] = NowUsage(l)
    BY <2>1 DEF QuietInv
  <2>3. CASE RejectLevel
    <3>1. unreadable' = at /\ Unusable(at) /\ pc' = "judge" /\ at # None
      BY <1>1, <2>3, ContentAssumption DEF RejectLevel
    <3> QED
      BY <1>2, <1>3, <2>1, <3>1 DEF QuietInv
  <2>4. SUFFICES ASSUME ~RejectLevel
                 PROVE  /\ \A l \in Level : ~Ahead(l)' =>
                             /\ ~Unusable(l) /\ held'[l] = NowHeld(l)
                             /\ ~Unlimited(l) /\ ~Reading(l)' => usage'[l] = NowUsage(l)
                        /\ pc' = "stat" => ~Fails(at, "charge") /\ at' = at /\ current' = Charged(at)'
    <3>1. CASE RejectLevel
      BY <2>3, <3>1
    <3>2. CASE ~RejectLevel
      <4>1. unreadable' = None
        BY <1>6, <2>1, <3>2 DEF SkipLevel, HoldLevel, ReadCharge, LoseUsage, ReadStat
      <4>2. ~Fails(at, "charge") => ~Fails(at, "charge")' \/ at' # at
        BY <1>2 DEF Fails, Denied
      <4> QED
        BY <1>2, <1>3, <2>1, <2>4, <3>2, <4>1, <4>2 DEF QuietInv
    <3> QED
      BY <3>1, <3>2
  <2>5. CASE SkipLevel
    <3>1. /\ Advance /\ UNCHANGED <<held, usage>> /\ pc = "limit"
          /\ ~Unusable(at) /\ Unlimited(at) /\ held[at] = None
      BY <1>1, <2>5 DEF SkipLevel, WalkInv, Ahead
    <3>2. \A l \in Level : ~Ahead(l)' => ~Ahead(l) \/ l = at
      BY <1>1, <3>1 DEF Advance, Ahead, Level
    <3> QED
      BY <2>2, <3>1, <3>2 DEF Advance, Reading, NowHeld
  <2>6. CASE HoldLevel
    <3>1. /\ ~Unusable(at) /\ ~Unlimited(at) /\ UNCHANGED <<at, usage>> /\ pc = "limit" /\ pc' = "charge"
          /\ held'[at] = limit[at] /\ \A l \in Level : l # at => held'[l] = held[l]
      BY <1>1, <2>6 DEF HoldLevel, TypeOK
    <3>2. \A l \in Level : ~Ahead(l)' => l = at \/ ~Ahead(l)
      BY <1>1, <3>1 DEF Ahead
    <3>3. \A l \in Level : l # at => ~Reading(l)
      BY DEF Reading
    <3> QED
      BY <2>2, <3>1, <3>2, <3>3 DEF Reading, NowHeld
  <2>7. CASE ReadCharge
    <3>1. /\ pc = "charge" /\ pc' = "stat" /\ UNCHANGED <<at, held, usage>>
          /\ ~Fails(at, "charge") /\ current' = Charged(at)
      BY <2>7 DEF ReadCharge
    <3>2. Charged(at)' = Charged(at)
      BY <1>2, <3>1 DEF Charged
    <3> QED
      BY <2>2, <3>1, <3>2 DEF Ahead, Reading
  <2>8. CASE LoseUsage
    <3>1. /\ Advance /\ UNCHANGED <<held, usage>> /\ pc \in {"charge", "stat"}
          /\ Fails(at, pc) /\ usage[at] = None /\ pc' # "stat"
      BY <2>8 DEF LoseUsage, WalkInv, Advance
    <3>2. \A l \in Level : ~Ahead(l)' => ~Ahead(l)
      BY <1>1, <3>1 DEF Advance, Ahead, Level
    <3>3. NowUsage(at) = None
      BY <3>1 DEF NowUsage, NowUnknown
    <3> QED
      BY <2>2, <3>1, <3>2, <3>3 DEF Reading
  <2>9. CASE ReadStat
    <3>1. /\ Advance /\ held' = held /\ pc = "stat" /\ pc' # "stat" /\ ~Fails(at, "stat")
          /\ usage'[at] = MemoryUsage(current, InactiveFile(at),
                                      Unflushed(host.keys, FileDirty(at), FileWriteback(at)))
          /\ \A l \in Level : l # at => usage'[l] = usage[l]
      BY <1>1, <2>9 DEF ReadStat, TypeOK, Advance
    <3>2. \A l \in Level : ~Ahead(l)' => ~Ahead(l)
      BY <1>1, <3>1 DEF Advance, Ahead, Level
    <3>3. ~Fails(at, "charge") /\ current = Charged(at)
      BY <2>1, <3>1 DEF QuietInv
    <3>4. usage'[at] = NowUsage(at)
      BY <3>1, <3>3 DEF NowUsage, NowUnknown
    <3> QED
      BY <2>2, <3>1, <3>2, <3>4 DEF Reading
  <2> QED
    BY <1>6, <2>4, <2>5, <2>6, <2>7, <2>8, <2>9
<1> QED
  BY <1>4, <1>5, <1>6 DEF Reader

\* Whatever the kernel does between two reads, what the walk has gathered stands.
LEMMA KernelInv == IInv /\ Kernel => IInv'
<1> SUFFICES ASSUME IInv, Kernel
             PROVE  IInv'
  OBVIOUS
<1>1. Observe
  BY DEF Kernel, Charge, Release, Turn, SetLimit, Flip
<1>2. TypeOK'
  BY KernelType DEF IInv
<1>3. WalkInv'
  <2>1. hidden = {} => hidden' = {}
    BY <1>1 DEF Observe
  <2> QED
    BY <1>1, <2>1 DEF Observe, IInv, WalkInv, Ahead
<1>4. RoomInv'
  BY <1>1 DEF Observe, IInv, RoomInv, Distance
<1>5. HiddenInv'
  BY <1>1 DEF Observe, IInv, HiddenInv, Ahead, Silent, Held
<1>6. QuietInv'
  BY <1>1 DEF Observe, QuietInv
<1> QED
  BY <1>2, <1>3, <1>4, <1>5, <1>6 DEF IInv

\* The invariant speaks of the variables alone.
LEMMA StutterInv == IInv /\ UNCHANGED vars => IInv'
<1> SUFFICES ASSUME IInv, UNCHANGED vars
             PROVE  IInv'
  OBVIOUS
<1>1. TypeOK'
  BY DEF IInv, TypeOK, vars, history
<1>2. WalkInv'
  BY DEF IInv, WalkInv, Ahead, vars, history
<1>3. RoomInv'
  BY DEF IInv, RoomInv, Distance, vars, history
<1>4. HiddenInv'
  BY DEF IInv, HiddenInv, Ahead, Silent, Held, Needed, Denied, Binds, vars, history
<1>5. QuietInv'
  <2>1. \A l \in Level : NowUsage(l)' = NowUsage(l) /\ NowHeld(l)' = NowHeld(l)
    BY FilesStand DEF vars
  <2>2. \A l \in Level \cup {unreadable} : (Unusable(l)' <=> Unusable(l)) /\ (Unlimited(l)' <=> Unlimited(l))
    BY DEF Unusable, Unlimited, Denied, vars
  <2>3. Charged(at)' = Charged(at) /\ (Fails(at, "charge")' <=> Fails(at, "charge"))
    BY DEF Charged, Fails, Denied, vars
  <2> QED
    BY <2>1, <2>2, <2>3 DEF IInv, QuietInv, Ahead, Reading, vars, history
<1> QED
  BY <1>1, <1>2, <1>3, <1>4, <1>5 DEF IInv

\* Every step of the kernel and of the reader preserves the invariant.
LEMMA NextInv == IInv /\ [Next]_vars => IInv'
<1>1. IInv /\ Reader => IInv'
  BY ReaderType, ReaderWalk, ReaderRoom, ReaderHidden, ReaderQuiet DEF IInv
<1> QED
  BY <1>1, KernelInv, StutterInv DEF Next

\* The inductive invariant holds for every chain, every limit and every fault.
THEOREM Inductive == Spec => []IInv
<1>1. Init => IInv
  BY InitInv
<1>2. IInv /\ [Next]_vars => IInv'
  BY NextInv
<1> QED
  BY <1>1, <1>2, PTL DEF Spec

\* The variables have their types: usages and budgets are never negative,
\* however the two reads of _read_memory_usage are torn.
THEOREM TypeCorrect == Spec => []TypeOK
<1>1. IInv => TypeOK
  BY DEF IInv
<1> QED
  BY <1>1, Inductive, PTL

----------------------------------------------------------------------------
(* What a returned budget promises.                                        *)

\* A call returns by Judge and nothing else.
LEMMA ReturnsIsJudge ==
  ASSUME [Next]_vars, Returns
  PROVE  Judge
<1>1. ~Kernel
  BY DEF Returns, Kernel, Charge, Release, Turn, SetLimit, Flip, Observe
<1>2. ~UNCHANGED vars
  BY DEF Returns, vars
<1>3. ~(Begin \/ RejectLevel \/ SkipLevel \/ HoldLevel \/ ReadCharge \/ LoseUsage \/ ReadStat)
  BY DEF Returns, Begin, RejectLevel, SkipLevel, HoldLevel, ReadCharge, LoseUsage, ReadStat
<1> QED
  BY <1>1, <1>2, <1>3 DEF Next, Reader

\* Where a budget comes from: every limited level answered, the closest one
\* gives the room and the tightest one the limit, below the machine.
LEMMA BudgetSource ==
  ASSUME TypeOK, Evaluate.outcome = "budget"
  PROVE  /\ unreadable = None
         /\ Silent = {}
         /\ Held # {}
         /\ Closest \in Held
         /\ \A m \in Held : Distance(m) \in Int /\ Distance(Closest) <= Distance(m)
         /\ Tightest \in Held /\ held[Tightest] \in Nat
         /\ host.machine \in Nat /\ held[Tightest] < host.machine
         /\ Evaluate.budget = Reconcile(held[Tightest], held[Tightest] - Available(Closest),
                                        Available(Closest))
<1>1. /\ unreadable = None
      /\ Held # {}
      /\ host.machine # None
      /\ ~CoversMachine
      /\ usage[Closest] # None
      /\ Evaluate.budget = Reconcile(held[Tightest], held[Tightest] - Available(Closest),
                                     Available(Closest))
  BY DEF Evaluate, Says
<1>2. /\ Closest \in Held /\ Silent = {}
      /\ \A m \in Held : Distance(m) \in Int /\ Distance(Closest) <= Distance(m)
  BY <1>1, ClosestIsLeast
<1>3. Tightest \in Held /\ held[Tightest] \in Nat
  BY <1>1, TightestIsLeast DEF TypeOK, Held
<1>4. host.machine \in Nat /\ held[Tightest] < host.machine
  <2>1. host.machine \in Nat
    BY <1>1 DEF TypeOK, Host
  <2> QED
    BY <1>1, <1>3, <2>1 DEF CoversMachine
<1> QED
  BY <1>1, <1>2, <1>3, <1>4

\* The room of a budget is the distance of the closest level, clamped at zero;
\* _reconcile changes nothing, because the tightest level is one of those the
\* closest is chosen from.
LEMMA BudgetNumbers ==
  ASSUME TypeOK, Evaluate.outcome = "budget"
  PROVE  /\ Evaluate.budget.available = Available(Closest)
         /\ Evaluate.budget.used = held[Tightest] - Available(Closest)
         /\ Evaluate.budget.limit = held[Tightest]
         /\ Available(Closest) \in Nat /\ Available(Closest) <= held[Tightest]
<1> DEFINE a == Available(Closest)
<1>1. /\ Closest \in Held /\ Tightest \in Held /\ Silent = {}
      /\ Distance(Closest) \in Int /\ Distance(Tightest) \in Int
      /\ Distance(Closest) <= Distance(Tightest)
      /\ held[Tightest] \in Nat
  BY BudgetSource
<1>2. usage[Tightest].charged \in Nat
  BY <1>1 DEF Silent, Held, TypeOK
<1>3. Distance(Tightest) <= held[Tightest]
  BY <1>1, <1>2 DEF Distance
<1>4. a \in Nat /\ a <= held[Tightest]
  BY <1>1, <1>3 DEF Available, Max0
<1>5. Reconcile(held[Tightest], held[Tightest] - a, a)
        = [limit |-> held[Tightest], used |-> held[Tightest] - a, available |-> a]
  BY <1>1, <1>4 DEF Reconcile, AtMost, Max0
<1> QED
  BY <1>4, <1>5, BudgetSource

\* No budget names more room than a limited level had, for a chain of any height
\* and any kernel: read off the inductive invariant as the call returns.
THEOREM NeverOverpromised == Spec => RoomNeverOverpromised
<1>1. IInv /\ [Next]_vars => (Returns /\ reply'.outcome = "budget" /\ host.keys = StatKeys
        => \A l \in Held : reply'.budget.available <= Max0(bound[l]))
  <2> SUFFICES ASSUME IInv, [Next]_vars, Returns, reply'.outcome = "budget",
                      host.keys = StatKeys, NEW l \in Held
               PROVE  reply'.budget.available <= Max0(bound[l])
    OBVIOUS
  <2>1. reply' = Evaluate
    BY ReturnsIsJudge DEF Judge
  <2>2. reply'.budget.available = Available(Closest)
    BY <2>1, BudgetNumbers DEF IInv
  <2>3. /\ Distance(l) \in Int /\ Distance(Closest) \in Int
        /\ Distance(Closest) <= Distance(l) /\ usage[l] # None
    BY <2>1, BudgetSource DEF IInv, Silent
  <2>4. Distance(l) <= bound[l] /\ bound[l] \in Int
    BY <2>3 DEF IInv, RoomInv, TypeOK, Held
  <2> QED
    BY <2>2, <2>3, <2>4 DEF Available, Max0
<1> QED
  BY <1>1, Inductive, PTL DEF RoomNeverOverpromised, Spec

\* While a file that decides the answer was unusable for a whole call, the call
\* reports no budget, for a chain of any height.
THEOREM FailsClosed == Spec => FailClosed
<1>1. IInv /\ [Next]_vars => (Returns /\ hidden # {} => reply'.outcome # "budget")
  <2> SUFFICES ASSUME IInv, [Next]_vars, Returns, hidden # {}, reply'.outcome = "budget"
               PROVE  FALSE
    OBVIOUS
  <2>1. reply' = Evaluate /\ pc = "judge"
    BY ReturnsIsJudge DEF Judge
  <2>2. unreadable = None /\ Silent = {}
    BY <2>1, BudgetSource DEF IInv
  <2> QED
    BY <2>1, <2>2 DEF IInv, HiddenInv, Ahead
<1> QED
  BY <1>1, Inductive, PTL DEF FailClosed, Spec

\* The two halves of a budget add up to its limit, and _reconcile corrected nothing
\* of what read_memory derived.
THEOREM Coherent == Spec => BudgetCoherent
<1>1. IInv /\ [Next]_vars => (Returns /\ reply'.outcome = "budget" =>
        /\ reply'.budget.limit < host.machine
        /\ reply'.budget.used + reply'.budget.available = reply'.budget.limit
        /\ reply'.budget.available = Available(Closest))
  <2> SUFFICES ASSUME IInv, [Next]_vars, Returns, reply'.outcome = "budget"
               PROVE  /\ reply'.budget.limit < host.machine
                      /\ reply'.budget.used + reply'.budget.available = reply'.budget.limit
                      /\ reply'.budget.available = Available(Closest)
    OBVIOUS
  <2>1. reply' = Evaluate
    BY ReturnsIsJudge DEF Judge
  <2>2. held[Tightest] \in Nat /\ held[Tightest] < host.machine
    BY <2>1, BudgetSource DEF IInv
  <2> QED
    BY <2>1, <2>2, BudgetNumbers DEF IInv
<1> QED
  BY <1>1, Inductive, PTL DEF BudgetCoherent, Spec

----------------------------------------------------------------------------
(* The answer of a call that nothing disturbed.                            *)

\* The pages waiting for the disk, and the distance, of one level as its files say.
LEMMA NowNumbers ==
  ASSUME TypeOK, NEW l \in Level, ~NowUnknown(l), limit[l] \in Nat
  PROVE  /\ limit[l] - NowUsage(l).charged = NowDistance(l)
         /\ NowDistance(l) \in Int
         /\ host.keys # {} => NowUsage(l).unflushed = NowUnflushed(l)
<1> DEFINE d == FileDirty(l)
           w == FileWriteback(l)
           u == Unflushed(host.keys, d, w)
           i == InactiveFile(l)
           c == Charged(l)
<1>1. d \in Nat /\ w \in Nat /\ i \in Nat /\ c \in Nat
  BY FileTypes
<1>2. i <= c
  <2>1. /\ pages[l]["anon"] \in Nat /\ pages[l]["clean"] \in Nat /\ pages[l]["dirty"] \in Nat
        /\ pages[l]["writeback"] \in Nat /\ pages[l]["active"] \in Nat
    BY DEF TypeOK, Kind
  <2> QED
    BY <2>1 DEF InactiveFile, Charged
<1>3. \A x : Cardinality({k \in host.keys : k = x}) = IF x \in host.keys THEN 1 ELSE 0
  <2> SUFFICES ASSUME NEW x
               PROVE  Cardinality({k \in host.keys : k = x}) = IF x \in host.keys THEN 1 ELSE 0
    OBVIOUS
  <2>1. CASE x \in host.keys
    <3>1. {k \in host.keys : k = x} = {x}
      BY <2>1
    <3> QED
      BY <2>1, <3>1, FS_Singleton
  <2>2. CASE x \notin host.keys
    <3>1. {k \in host.keys : k = x} = {}
      BY <2>2
    <3> QED
      BY <2>2, <3>1, FS_EmptySet
  <2> QED
    BY <2>1, <2>2
<1>4. NowUnflushed(l) = (IF "file_dirty" \in host.keys THEN d ELSE 0) + (IF "file_writeback" \in host.keys THEN w ELSE 0)
  <2>1. /\ Cardinality({k \in host.keys : k = "file_dirty"}) = IF "file_dirty" \in host.keys THEN 1 ELSE 0
        /\ Cardinality({k \in host.keys : k = "file_writeback"}) = IF "file_writeback" \in host.keys THEN 1 ELSE 0
    BY <1>3, Zenon
  <2>2. NowUnflushed(l) = Cardinality({k \in host.keys : k = "file_dirty"}) * d
                            + Cardinality({k \in host.keys : k = "file_writeback"}) * w
    BY DEF NowUnflushed
  <2> DEFINE m == Cardinality({k \in host.keys : k = "file_dirty"})
             n == Cardinality({k \in host.keys : k = "file_writeback"})
  <2> HIDE DEF m, n, d, w
  <2>3. m * d = (IF "file_dirty" \in host.keys THEN d ELSE 0)
    BY <1>1, <2>1 DEF m
  <2>4. n * w = (IF "file_writeback" \in host.keys THEN w ELSE 0)
    BY <1>1, <2>1 DEF n
  <2> QED
    BY <2>2, <2>3, <2>4 DEF m, n
<1>5. NowUnflushed(l) \in Nat
  BY <1>1, <1>4
<1>6. IF host.keys = {} THEN u = None /\ NowUnflushed(l) = 0 ELSE u = NowUnflushed(l)
  <2>1. host.keys = {} => u = None /\ NowUnflushed(l) = 0
    BY <1>1, <1>4 DEF Unflushed
  <2>2. host.keys # {} => u = (IF "file_dirty" \in host.keys THEN d ELSE 0) + (IF "file_writeback" \in host.keys THEN w ELSE 0)
    BY <1>1 DEF Unflushed, Max0
  <2> QED
    BY <1>4, <2>1, <2>2
<1>7. NowUsage(l) = [charged |-> Max0(c - Credit(i, u)), unflushed |-> u]
  BY DEF NowUsage, MemoryUsage
<1>8. Credit(i, u) = Max0(i - NowUnflushed(l))
  <2>1. (IF u = None THEN 0 ELSE u) = NowUnflushed(l)
    BY <1>5, <1>6, ContentAssumption
  <2> QED
    BY <2>1 DEF Credit
<1> HIDE DEF u, i, c, d, w
<1>9. limit[l] - NowUsage(l).charged = limit[l] - c + Max0(i - NowUnflushed(l))
  BY <1>1, <1>2, <1>5, <1>7, <1>8 DEF Max0
<1>10. NowDistance(l) = limit[l] - c + Max0(i - NowUnflushed(l))
  BY DEF NowDistance, c, i
<1>11. NowDistance(l) \in Int
  BY <1>1, <1>5, <1>10 DEF Max0
<1> QED
  BY <1>6, <1>7, <1>9, <1>10, <1>11

\* A call during which the kernel did not move answers with exactly what the files
\* say together, on a chain of any height: the tightest limit, the innermost level
\* that holds it, the smallest distance of any level, or the first reason there is
\* no such answer.
THEOREM QuietExact == Spec => QuietAnswerExact
<1>1. IInv /\ [Next]_vars => (Returns /\ quiet => ExactReply(reply'))
  <2> SUFFICES ASSUME IInv, [Next]_vars, Returns, quiet
               PROVE  ExactReply(reply')
    OBVIOUS
  <2> DEFINE r == reply'
  <2>1. r = Evaluate /\ pc = "judge" /\ TypeOK /\ QuietInv
    BY ReturnsIsJudge DEF Judge, IInv
  <2>2. host.mechanism \in {"cgroup", "none"}
    BY <2>1 DEF TypeOK, Host
  <2>3. CASE host.mechanism = "none"
    <3>1. Held = {} /\ unreadable = None
      BY <2>1, <2>3 DEF QuietInv, Held, Nothing
    <3>2. r.outcome = "MEMORY_METRICS_UNAVAILABLE"
      BY <2>1, <2>3, <3>1 DEF Evaluate, Says
    <3> QED
      BY <2>3, <3>2 DEF ExactReply
  <2>4. CASE host.mechanism = "cgroup" /\ unreadable # None
    <3>1. \E l \in Level : Unusable(l)
      BY <2>1, <2>4 DEF QuietInv, TypeOK
    <3>2. r.outcome = "MEMORY_LIMIT_UNREADABLE"
      BY <2>1, <2>4 DEF Evaluate, Says
    <3> QED
      BY <2>4, <3>1, <3>2 DEF ExactReply
  <2>5. CASE host.mechanism = "cgroup" /\ unreadable = None
    <3>1. \A l \in Level : /\ ~Unusable(l) /\ held[l] = NowHeld(l)
                           /\ ~Unlimited(l) => usage[l] = NowUsage(l)
      BY <2>1, <2>5 DEF QuietInv, Ahead, Reading
    <3>2. \A l \in NowLimited : l \in Level /\ limit[l] \in Nat /\ held[l] = limit[l] /\ limit[l] # None
      <4> SUFFICES ASSUME NEW l \in Level, ~Unlimited(l)
                   PROVE  limit[l] \in Nat /\ held[l] = limit[l] /\ limit[l] # None
        BY DEF NowLimited
      <4>1. limit[l] \in Int
        BY <2>1 DEF TypeOK, Unlimited
      <4>2. limit[l] \in Nat
        <5>1. ~Unusable(l)
          BY <3>1
        <5>2. ~(limit[l] < 0)
          BY <5>1 DEF Unusable, Unlimited
        <5> QED
          BY <4>1, <5>2
      <4>3. limit[l] # None
        BY <4>1, ContentAssumption
      <4> QED
        BY <3>1, <4>2, <4>3 DEF NowHeld
    <3>3. Held = NowLimited
      BY <3>1, <3>2 DEF Held, NowLimited, NowHeld
    <3>4. Silent = {l \in NowLimited : NowUnknown(l)}
      <4>1. \A l \in NowLimited : usage[l] = None <=> NowUnknown(l)
        <5> SUFFICES ASSUME NEW l \in Level, ~Unlimited(l)
                     PROVE  usage[l] = None <=> NowUnknown(l)
          BY DEF NowLimited
        <5>1. usage[l] = NowUsage(l)
          BY <3>1
        <5>2. host.keys \in SUBSET StatKeys
          BY <2>1 DEF TypeOK, Host
        <5>3. ~NowUnknown(l) => NowUsage(l) \in [charged : Nat, unflushed : Nat \cup {None}]
          BY <2>1, <5>2, FileTypes, UsageType DEF NowUsage
        <5>4. NowUnknown(l) => NowUsage(l) = None
          BY DEF NowUsage
        <5> QED
          BY <5>1, <5>3, <5>4, ContentAssumption
      <4> QED
        BY <3>3, <4>1 DEF Silent
    <3>5. CASE NowLimited = {}
      <4>1. r.outcome = "unlimited"
        BY <2>1, <2>5, <3>3, <3>5 DEF Evaluate, Says
      <4> QED
        BY <2>5, <3>1, <3>5, <4>1 DEF ExactReply
    <3>6. CASE NowLimited # {}
      <4>1. /\ Tightest \in Held
            /\ \A m \in Held : held[Tightest] <= held[m]
            /\ \A m \in Held : held[m] = held[Tightest] => Tightest <= m
        BY <2>1, <3>3, <3>6, TightestIsLeast
      <4>2. /\ Closest \in Held
            /\ Silent # {} => usage[Closest] = None
            /\ Silent = {} => \A m \in Held : usage[m] # None /\ Distance(Closest) <= Distance(m)
        BY <2>1, <3>3, <3>6, ClosestIsLeast
      <4>3. host.machine \in Nat \cup {None}
        BY <2>1 DEF TypeOK, Host
      <4> DEFINE Unknown == host.machine = None /\ r.outcome = "MACHINE_MEMORY_UNKNOWN"
                 Covers == /\ host.machine # None
                           /\ \A l \in NowLimited : limit[l] >= host.machine
                           /\ r.outcome = "MEMORY_LIMIT_COVERS_MACHINE"
                 Unread == /\ host.machine # None
                           /\ \E l \in NowLimited : limit[l] < host.machine
                           /\ \E l \in NowLimited : NowUnknown(l)
                           /\ r.outcome = "MEMORY_USAGE_UNREADABLE"
                 Budget == /\ host.machine # None
                           /\ r.outcome = "budget"
                           /\ \A l \in NowLimited : ~NowUnknown(l)
                           /\ r.level \in NowLimited
                           /\ r.budget.limit = limit[r.level]
                           /\ \A l \in NowLimited : limit[l] > r.budget.limit
                                                      \/ (limit[l] = r.budget.limit /\ l >= r.level)
                           /\ \A l \in NowLimited : r.budget.available <= Max0(NowDistance(l))
                           /\ \E l \in NowLimited :
                                /\ r.budget.available = Max0(NowDistance(l))
                                /\ host.keys # {} => r.unflushed = NowUnflushed(l)
      <4>4. SUFFICES Unknown \/ Covers \/ Unread \/ Budget
        BY <2>5, <3>1, <3>6 DEF ExactReply
      <4>5. CASE host.machine = None
        <5>1. r.outcome = "MACHINE_MEMORY_UNKNOWN"
          BY <2>1, <2>5, <3>3, <3>6, <4>5 DEF Evaluate, Says
        <5> QED
          BY <4>5, <5>1
      <4>6. CASE host.machine # None /\ CoversMachine
        <5>1. r.outcome = "MEMORY_LIMIT_COVERS_MACHINE"
          BY <2>1, <2>5, <3>3, <3>6, <4>6 DEF Evaluate, Says
        <5>2. \A l \in NowLimited : limit[l] >= host.machine
          BY <3>2, <3>3, <4>1, <4>3, <4>6 DEF CoversMachine
        <5> QED
          BY <4>6, <5>1, <5>2
      <4>7. CASE host.machine # None /\ ~CoversMachine
        <5>1. limit[Tightest] < host.machine /\ Tightest \in NowLimited
          BY <3>2, <3>3, <4>1, <4>3, <4>7 DEF CoversMachine
        <5>2. CASE Silent # {}
          <6>1. r.outcome = "MEMORY_USAGE_UNREADABLE"
            BY <2>1, <2>5, <3>3, <3>6, <4>2, <4>7, <5>2 DEF Evaluate, Says
          <6> QED
            BY <3>4, <4>7, <5>1, <5>2, <6>1
        <5>3. CASE Silent = {}
          <6>1. /\ r.outcome = "budget" /\ r.level = Tightest /\ r.unflushed = usage[Closest].unflushed
            BY <2>1, <2>5, <3>3, <3>6, <4>2, <4>7, <5>3 DEF Evaluate
          <6>2. r.budget.available = Available(Closest) /\ r.budget.limit = held[Tightest]
            BY <2>1, <6>1, BudgetNumbers
          <6>3. \A l \in NowLimited : /\ Distance(l) = NowDistance(l) /\ NowDistance(l) \in Int
                                      /\ host.keys # {} => usage[l].unflushed = NowUnflushed(l)
            <7> SUFFICES ASSUME NEW l \in NowLimited
                         PROVE  /\ Distance(l) = NowDistance(l) /\ NowDistance(l) \in Int
                                /\ host.keys # {} => usage[l].unflushed = NowUnflushed(l)
              OBVIOUS
            <7>1. l \in Level /\ ~NowUnknown(l) /\ limit[l] \in Nat /\ ~Unlimited(l)
              BY <3>2, <3>4, <5>3 DEF NowLimited
            <7>2. usage[l] = NowUsage(l) /\ held[l] = limit[l]
              BY <3>1, <3>2, <7>1
            <7> QED
              BY <2>1, <7>1, <7>2, NowNumbers DEF Distance
          <6>4. \A l \in NowLimited : ~NowUnknown(l)
            BY <3>4, <5>3
          <6>5. \A l \in NowLimited : r.budget.available <= Max0(NowDistance(l))
            BY <3>3, <4>2, <5>3, <6>2, <6>3 DEF Available, Max0
          <6>6. \E l \in NowLimited : /\ r.budget.available = Max0(NowDistance(l))
                                      /\ host.keys # {} => r.unflushed = NowUnflushed(l)
            BY <3>3, <4>2, <6>1, <6>2, <6>3 DEF Available
          <6>7. r.level \in NowLimited /\ r.budget.limit = limit[r.level]
            BY <3>2, <5>1, <6>1, <6>2
          <6>8. \A l \in NowLimited : limit[l] > r.budget.limit
                                        \/ (limit[l] = r.budget.limit /\ l >= r.level)
            <7> SUFFICES ASSUME NEW l \in NowLimited
                         PROVE  limit[l] > r.budget.limit \/ (limit[l] = r.budget.limit /\ l >= r.level)
              OBVIOUS
            <7>1. /\ limit[l] \in Nat /\ limit[Tightest] \in Nat /\ l \in Nat /\ Tightest \in Nat
                  /\ limit[Tightest] <= limit[l]
                  /\ limit[l] = limit[Tightest] => Tightest <= l
              BY <3>2, <3>3, <4>1, HeightAssumption DEF Level
            <7>2. r.budget.limit = limit[Tightest] /\ r.level = Tightest
              BY <6>1, <6>7
            <7> QED
              BY <7>1, <7>2
          <6> QED
            BY <4>7, <6>1, <6>4, <6>5, <6>6, <6>7, <6>8
        <5> QED
          BY <5>2, <5>3
      <4> QED
        BY <4>5, <4>6, <4>7
    <3> QED
      BY <3>5, <3>6
  <2> QED
    BY <2>2, <2>3, <2>4, <2>5
<1> QED
  BY <1>1, Inductive, PTL DEF QuietAnswerExact, Spec

=============================================================================
