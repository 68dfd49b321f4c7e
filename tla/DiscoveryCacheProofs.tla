------------------------ MODULE DiscoveryCacheProofs ------------------------
(***************************************************************************)
(* Theorems about DiscoveryCache, for any processes, threads and groups,   *)
(* and any number of moves, forks and clears.                              *)
(***************************************************************************)
EXTENDS DiscoveryCache, TLAPS

\* The first process starts with an empty cache in a group that exists.
LEMMA InitInv == Init => IInv
<1> SUFFICES ASSUME Init
             PROVE  IInv
  OBVIOUS
<1>1. TypeOK
  BY ProcessAssumption DEF Init, TypeOK
<1>2. BornInv /\ CacheInv
  BY DEF Init, BornInv, CacheInv
<1>3. CallInv
  <2>1. \A t \in Threads : pc[t] = "idle" /\ began[t] <= clears[Of[t]]
    BY ProcessAssumption DEF Init
  <2> QED
    BY <2>1 DEF CallInv, Discovering
<1> QED
  BY <1>1, <1>2, <1>3 DEF IInv

\* A process that is moved is no longer calm, and the others stay where they are.
LEMMA MoveInv ==
  ASSUME IInv, NEW p \in Processes, NEW g \in Groups, Move(p, g)
  PROVE  IInv'
<1> USE DEF IInv, Move, lookup
<1>1. TypeOK'
  BY DEF TypeOK
<1>2. BornInv'
  BY DEF BornInv
<1>3. /\ calm'[p] = FALSE
      /\ \A q \in Processes \ {p} : calm'[q] = calm[q] /\ home'[q] = home[q]
  BY DEF TypeOK
<1>4. CacheInv'
  BY <1>3 DEF CacheInv
<1>5. CallInv'
  BY <1>3, ProcessAssumption DEF CallInv, Discovering
<1> QED
  BY <1>1, <1>2, <1>4, <1>5

\* Only a group nobody is in goes.
LEMMA RemoveInv ==
  ASSUME IInv, NEW g \in Groups, Remove(g)
  PROVE  IInv'
<1> USE DEF IInv, Remove, lookup
<1>1. TypeOK'
  BY DEF TypeOK
<1>2. BornInv' /\ CacheInv' /\ CallInv'
  BY DEF BornInv, CacheInv, CallInv, Discovering
<1> QED
  BY <1>1, <1>2

\* A child starts with an empty cache and no call under way.
LEMMA ForkInv ==
  ASSUME IInv, NEW p \in Processes, NEW c \in Processes, Fork(p, c)
  PROVE  IInv'
<1> USE DEF IInv, Fork, AfterFork, lookup
<1>1. TypeOK'
  BY DEF TypeOK
<1>2. BornInv'
  BY DEF BornInv
<1>3. /\ cache'[c] = None
      /\ \A q \in Processes \ {c} : cache'[q] = cache[q] /\ home'[q] = home[q]
  BY DEF TypeOK
<1>4. CacheInv'
  BY <1>3 DEF CacheInv
<1>5. \A t \in Threads : Of[t] = c => pc[t] = "idle"
  BY DEF BornInv
<1>6. CallInv'
  BY <1>3, <1>5, ProcessAssumption DEF CallInv, Discovering
<1> QED
  BY <1>1, <1>2, <1>4, <1>6

\* Only a thread of a running process has a step to take.
LEMMA StepBorn ==
  ASSUME IInv, NEW t \in Threads,
         pc[t] # "idle" \/ Of[t] \in born
  PROVE  Of[t] \in born /\ Of[t] \in Processes /\ home[Of[t]] \in alive
BY ProcessAssumption DEF IInv, BornInv, TypeOK

\* A hit answers with what the process discovered itself; a miss begins a
\* discovery under the clears of now.
LEMMA AskInv ==
  ASSUME IInv, NEW t \in Threads, Ask(t)
  PROVE  IInv'
<1> USE DEF IInv, Ask, Go, system
<1>1. Of[t] \in born /\ Of[t] \in Processes
  BY StepBorn
<1>2. TypeOK'
  BY <1>1 DEF TypeOK
<1>3. BornInv' /\ CacheInv'
  BY <1>1 DEF BornInv, CacheInv, TypeOK
<1>4. \A u \in Threads \ {t} : pc'[u] = pc[u] /\ entry'[u] = entry[u] /\ began'[u] = began[u]
  BY DEF TypeOK
<1>5. /\ began'[t] = clears[Of[t]] /\ entry'[t] = cache[Of[t]]
      /\ pc'[t] = IF cache[Of[t]] # None THEN "answer" ELSE "path"
  BY DEF TypeOK
<1>6. clears[Of[t]] \in Nat
  BY <1>1 DEF TypeOK
<1>7. CallInv'
  BY <1>1, <1>4, <1>5, <1>6 DEF CallInv, CacheInv, Discovering
<1> QED
  BY <1>2, <1>3, <1>7

\* While the process is calm the path read stays the one it is in, so the group
\* is there when the mount and the file are looked for.
LEMMA DiscoverInv ==
  ASSUME IInv, NEW t \in Threads, ReadOwnPath(t) \/ PickMount(t) \/ Probe(t)
  PROVE  IInv'
<1> USE DEF IInv, Go, system
<1>1. Of[t] \in born /\ Of[t] \in Processes /\ home[Of[t]] \in alive
  BY StepBorn DEF ReadOwnPath, PickMount, Probe
<1>2. CASE ReadOwnPath(t)
  <2> USE <1>2 DEF ReadOwnPath
  <2>1. TypeOK'
    BY <1>1 DEF TypeOK
  <2>2. BornInv' /\ CacheInv'
    BY <1>1 DEF BornInv, CacheInv, TypeOK
  <2>3. pc'[t] = "mount" /\ path'[t] = home[Of[t]]
    BY DEF TypeOK
  <2>4. \A u \in Threads \ {t} : pc'[u] = pc[u] /\ path'[u] = path[u]
    BY DEF TypeOK
  <2>5. CallInv'
    BY <2>3, <2>4 DEF CallInv, Discovering
  <2> QED
    BY <2>1, <2>2, <2>5
<1>3. ASSUME NEW group \in Groups \cup {None}, Found(t, group), pc' = [pc EXCEPT ![t] = "store"],
             UNCHANGED <<system, cache, clears, path, began, calm>>,
             pc[t] \in {"mount", "probe"}, calm[Of[t]] => group = home[Of[t]]
      PROVE  IInv'
  <2> USE <1>3 DEF Found
  <2>1. [group |-> group, by |-> Of[t], stamp |-> began[t]] \in Entries
    BY <1>1 DEF TypeOK, Entries
  <2>2. TypeOK'
    BY <2>1 DEF TypeOK
  <2>3. BornInv' /\ CacheInv'
    BY <1>1 DEF BornInv, CacheInv, TypeOK
  <2>4. /\ pc'[t] = "store" /\ entry'[t].group = group /\ entry'[t].by = Of[t]
        /\ entry'[t] # None
    BY <2>1, EntryAssumption DEF TypeOK
  <2>5. \A u \in Threads \ {t} : pc'[u] = pc[u] /\ entry'[u] = entry[u]
    BY DEF TypeOK
  <2>6. CallInv'
    BY <2>4, <2>5 DEF CallInv, Discovering
  <2> QED
    BY <2>2, <2>3, <2>6
<1>4. pc[t] \in {"mount", "probe"} /\ calm[Of[t]] => path[t] = home[Of[t]]
  BY DEF CallInv
<1>5. CASE PickMount(t)
  <2>1. CASE path[t] \in alive
    <3> USE <1>5, <2>1 DEF PickMount
    <3>1. TypeOK'
      BY DEF TypeOK
    <3>2. BornInv' /\ CacheInv'
      BY <1>1 DEF BornInv, CacheInv, TypeOK
    <3>3. pc'[t] = "probe" /\ \A u \in Threads \ {t} : pc'[u] = pc[u]
      BY DEF TypeOK
    <3>4. CallInv'
      BY <3>3 DEF CallInv, Discovering
    <3> QED
      BY <3>1, <3>2, <3>4
  <2>2. CASE path[t] \notin alive
    BY <1>1, <1>3, <1>4, <1>5, <2>2 DEF PickMount
  <2> QED
    BY <2>1, <2>2
<1>6. CASE Probe(t)
  <2> DEFINE group == IF path[t] \in alive \/ AncestorCarries THEN path[t] ELSE None
  <2>1. group \in Groups \cup {None}
    BY DEF TypeOK
  <2>2. calm[Of[t]] => group = home[Of[t]]
    BY <1>1, <1>4, <1>6 DEF Probe
  <2> QED
    BY <1>3, <1>6, <2>1, <2>2 DEF Probe
<1> QED
  BY <1>2, <1>5, <1>6

\* What a thread stores, and answers with, is what it discovered.
LEMMA StoreInv ==
  ASSUME IInv, NEW t \in Threads, Store(t) \/ Answer(t)
  PROVE  IInv'
<1> USE DEF IInv, Go, system
<1>1. Of[t] \in born /\ Of[t] \in Processes
  BY StepBorn DEF Store, Answer
<1>2. CASE Store(t)
  <2> USE <1>2 DEF Store
  <2>1. TypeOK'
    BY <1>1 DEF TypeOK
  <2>2. BornInv'
    BY <1>1 DEF BornInv, TypeOK
  <2>3. /\ \A q \in Processes \ {Of[t]} : cache'[q] = cache[q]
        /\ cache'[Of[t]] = IF cache[Of[t]] = None THEN entry[t] ELSE cache[Of[t]]
    BY <1>1 DEF TypeOK
  <2>4. entry[t].by = Of[t] /\ (calm[Of[t]] => entry[t].group = home[Of[t]])
    BY DEF CallInv
  <2>5. CacheInv'
    BY <2>3, <2>4 DEF CacheInv
  <2>6. pc'[t] = "answer" /\ \A u \in Threads \ {t} : pc'[u] = pc[u]
    BY DEF TypeOK
  <2>7. CallInv'
    BY <2>6 DEF CallInv, Discovering
  <2> QED
    BY <2>1, <2>2, <2>5, <2>7
<1>3. CASE Answer(t)
  <2> USE <1>3 DEF Answer
  <2>1. TypeOK'
    BY DEF TypeOK
  <2>2. BornInv' /\ CacheInv'
    BY DEF BornInv, CacheInv, TypeOK
  <2>3. pc'[t] = "idle" /\ began'[t] = 0 /\ 0 <= clears[Of[t]]
    BY <1>1 DEF TypeOK
  <2>4. \A u \in Threads \ {t} : /\ pc'[u] = pc[u] /\ entry'[u] = entry[u]
                                 /\ path'[u] = path[u] /\ began'[u] = began[u]
    BY DEF TypeOK
  <2>5. CallInv'
    BY <2>3, <2>4 DEF CallInv, Discovering
  <2> QED
    BY <2>1, <2>2, <2>5
<1> QED
  BY <1>2, <1>3

\* A clear makes its process calm only where none of its threads discovers, and
\* leaves every reading already answered behind.
LEMMA ClearInv ==
  ASSUME IInv, NEW t \in Threads, ClearCache(t)
  PROVE  IInv'
<1> USE DEF IInv, ClearCache, Cleared, system, lookup
<1> DEFINE p == Of[t]
<1>1. p \in Processes
  BY ProcessAssumption
<1>2. TypeOK'
  BY <1>1 DEF TypeOK, InFlight
<1>3. /\ cache'[p] = None /\ clears'[p] = clears[p] + 1 /\ clears[p] \in Nat
      /\ calm'[p] = ~InFlight(p)
      /\ \A q \in Processes \ {p} : /\ cache'[q] = cache[q] /\ clears'[q] = clears[q]
                                    /\ calm'[q] = calm[q]
  BY <1>1 DEF TypeOK
<1>4. BornInv' /\ CacheInv'
  BY <1>3 DEF BornInv, CacheInv
<1>5. \A u \in Threads : began[u] \in Nat /\ Of[u] \in Processes
  BY ProcessAssumption DEF TypeOK
<1>6. ASSUME NEW u \in Threads, Of[u] = p
      PROVE  /\ began[u] <= clears'[p]
             /\ calm'[p] => ~Discovering(u)
             /\ began[u] # clears'[p]
             /\ pc[u] \in {"store", "answer"} => entry[u] # None /\ entry[u].by = p
  <2>1. began[u] <= clears[p]
    BY <1>6 DEF CallInv
  <2>2. calm'[p] => ~Discovering(u)
    BY <1>3, <1>6 DEF InFlight
  <2>3. pc[u] \in {"store", "answer"} => entry[u] # None /\ entry[u].by = p
    BY <1>6 DEF CallInv
  <2> HIDE DEF p
  <2>4. began[u] <= clears'[p] /\ began[u] # clears'[p]
    BY <1>3, <1>5, <2>1
  <2> QED
    BY <2>2, <2>3, <2>4
<1>7. CallInv'
  <2> SUFFICES ASSUME NEW u \in Threads
               PROVE  CallInv!(u)'
    BY DEF CallInv
  <2>1. CASE Of[u] = p
    BY <1>6, <2>1 DEF Discovering
  <2>2. CASE Of[u] # p
    BY <1>3, <1>5, <2>2 DEF CallInv, Discovering
  <2> QED
    BY <2>1, <2>2
<1> QED
  BY <1>2, <1>4, <1>7

\* Every step preserves the invariant.
LEMMA NextInv == IInv /\ [Next]_vars => IInv'
<1> SUFFICES ASSUME IInv, [Next]_vars
             PROVE  IInv'
  OBVIOUS
<1>1. ASSUME NEW p \in Processes, NEW g \in Groups, Move(p, g)
      PROVE  IInv'
  BY <1>1, MoveInv
<1>2. ASSUME NEW g \in Groups, Remove(g)
      PROVE  IInv'
  BY <1>2, RemoveInv
<1>3. ASSUME NEW p \in Processes, NEW c \in Processes, Fork(p, c)
      PROVE  IInv'
  BY <1>3, ForkInv
<1>4. ASSUME NEW t \in Threads,
             Ask(t) \/ ReadOwnPath(t) \/ PickMount(t) \/ Probe(t) \/ Store(t) \/ Answer(t)
               \/ ClearCache(t)
      PROVE  IInv'
  BY <1>4, AskInv, DiscoverInv, StoreInv, ClearInv
<1>5. CASE UNCHANGED vars
  BY <1>5 DEF vars, system, lookup, IInv, TypeOK, BornInv, CacheInv, CallInv, Discovering
<1> QED
  BY <1>1, <1>2, <1>3, <1>4, <1>5 DEF Next, Discover

\* The types, and what calm processes have cached and under way.
THEOREM Inductive == Spec => []IInv
<1> QED
  BY InitInv, NextInv, PTL DEF Spec

\* After a clear_cache() that met no discovery, and until the process is moved
\* again, no reading begun since answers for another group, whatever the other
\* threads and processes do.
THEOREM FreshAfterClear == Spec => []FreshAfterQuietClear
<1>1. IInv => FreshAfterQuietClear
  BY DEF IInv, CallInv, FreshAfterQuietClear
<1> QED
  BY <1>1, Inductive, PTL

\* No reading of a child answers with what its parent discovered.
THEOREM ChildrenForget == Spec => []ChildForgets
<1>1. IInv => ChildForgets
  BY DEF IInv, CallInv, ChildForgets
<1> QED
  BY <1>1, Inductive, PTL
=============================================================================
