--------------------------- MODULE CpuListProofs ----------------------------
(***************************************************************************)
(* Proofs about CpuList: whatever is between the commas, and however many  *)
(* of them there are, the number counted is that of the cores named.       *)
(***************************************************************************)
EXTENDS CpuList, FiniteSetTheorems, SequenceTheorems, TLAPS

LEMMA PartFacts ==
    ASSUME NEW s \in Lists
    PROVE  /\ Len(s) \in Nat \ {0} /\ DOMAIN s = 1..Len(s) /\ s # None
           /\ \A i \in 1..Len(s) : /\ s[i] \in Part
                                   /\ WellFormed(s[i]) => First(s[i]) \in Nat /\ Last(s[i]) \in Int
<1>1. s \in Seq(Part) /\ s # <<>> /\ s # None
  BY ListAssumption, NameAssumption
<1>2. Len(s) \in Nat \ {0} /\ DOMAIN s = 1..Len(s) /\ \A i \in 1..Len(s) : s[i] \in Part
  BY <1>1, EmptySeq, LenProperties
<1> QED
  BY <1>1, <1>2, NameAssumption DEF Part, WellFormed, First, Last

\* The cores of one part more.
LEMMA CoresGrow ==
    ASSUME NEW s, NEW n \in Nat
    PROVE  Cores(s, n + 1) = Cores(s, n) \cup Span(s[n + 1])
<1>1. 1..(n + 1) = (1..n) \cup {n + 1}
  OBVIOUS
<1> QED
  BY <1>1 DEF Cores

LEMMA CanonicalGrows ==
    ASSUME NEW s, NEW n \in Nat
    PROVE  Canonical(s, n + 1) <=>
             /\ Canonical(s, n)
             /\ WellFormed(s[n + 1]) /\ First(s[n + 1]) <= Last(s[n + 1])
             /\ \A j \in 1..n : Last(s[j]) < First(s[n + 1])
<1>1. /\ 1..(n + 1) = (1..n) \cup {n + 1}
      /\ (n + 1) - 1 = n
      /\ \A i \in 1..n : 1..(i - 1) \subseteq 1..n
  OBVIOUS
<1> QED
  BY <1>1 DEF Canonical

\* A part not taken belongs to no list a kernel wrote, whatever follows.
LEMMA CanonicalShrinks ==
    ASSUME NEW s, NEW n \in Nat, NEW m \in 0..n, Canonical(s, n)
    PROVE  Canonical(s, m)
<1>1. 1..m \subseteq 1..n
  OBVIOUS
<1> QED
  BY <1>1 DEF Canonical

LEMMA InitInv == Init => IInv
<1> SUFFICES ASSUME Init
             PROVE  IInv
  OBVIOUS
<1>1. TypeOK
  BY CountAssumption DEF Init, TypeOK
<1>2. at - 1 = 0 /\ Cores(online, 0) = {} /\ Canonical(online, 0)
  BY DEF Init, Cores, Canonical
<1>3. PrefixInv
  <2> SUFFICES ASSUME online # None
               PROVE  /\ at <= Len(online) + 1
                      /\ IsFiniteSet({}) /\ count = Cardinality({})
                      /\ counted_to = -1 /\ at = 1
    BY <1>2 DEF PrefixInv
  <2>1. online \in Lists
    BY DEF Init
  <2> QED
    BY <2>1, PartFacts, FS_EmptySet DEF Init
<1> QED
  BY <1>1, <1>3 DEF Init, IInv, CountsCores, SystemAskedFirst

LEMMA ReadOnlineInv == IInv /\ ReadOnline => IInv'
<1> SUFFICES ASSUME IInv, ReadOnline
             PROVE  IInv'
  OBVIOUS
<1>1. /\ pc = "open" /\ at = 1 /\ count = 0
      /\ UNCHANGED <<online, sysconf, cpu_count, at, count, counted_to, counted, answer>>
      /\ \/ pc' = "parts" /\ online # None
         \/ pc' = "fallback" /\ online = None
  BY DEF IInv, ReadOnline, KernelAnswers, machine
<1>2. TypeOK' /\ PrefixInv'
  BY <1>1 DEF IInv, TypeOK, PrefixInv
<1> QED
  BY <1>1, <1>2 DEF IInv, CountsCores, SystemAskedFirst

LEMMA CountPartInv == IInv /\ CountPart => IInv'
<1> SUFFICES ASSUME IInv, CountPart
             PROVE  IInv'
  OBVIOUS
<1> DEFINE part == online[at]
           n == at - 1
<1>1. /\ pc = "parts" /\ pc' = pc /\ online # None /\ at \in DOMAIN online
      /\ UNCHANGED <<online, sysconf, cpu_count, counted, answer>>
      /\ at' = at + 1
      /\ count' = count + Last(part) - First(part) + 1
      /\ counted_to' = Last(part)
      /\ WellFormed(part) /\ First(part) <= Last(part) /\ First(part) > counted_to
  BY DEF IInv, CountPart, Taken, Follows, machine
<1>2. online \in Lists /\ at \in Nat \ {0} /\ count \in Nat /\ counted_to \in Int
  BY <1>1 DEF IInv, TypeOK
<1>3. /\ Len(online) \in Nat /\ at \in 1..Len(online)
      /\ \A i \in 1..Len(online) : WellFormed(online[i]) => First(online[i]) \in Nat /\ Last(online[i]) \in Int
  BY <1>1, <1>2, PartFacts
<1>4. First(part) \in Nat /\ Last(part) \in Int
  BY <1>1, <1>3
<1>5. n \in Nat /\ n + 1 = at /\ at' - 1 = at
  BY <1>1, <1>2
<1>6. /\ Canonical(online, n)
      /\ IsFiniteSet(Cores(online, n)) /\ count = Cardinality(Cores(online, n))
      /\ \A i \in 1..n : Last(online[i]) <= counted_to
  BY <1>1 DEF IInv, PrefixInv
<1>7. \A i \in 1..n : First(online[i]) \in Nat /\ Last(online[i]) \in Int
  BY <1>3, <1>5, <1>6 DEF Canonical
<1> HIDE DEF part, n
<1>8. Canonical(online, at)
  <2>1. \A j \in 1..n : Last(online[j]) < First(online[n + 1])
    BY <1>1, <1>2, <1>4, <1>5, <1>6, <1>7 DEF part
  <2> QED
    BY <1>1, <1>5, <1>6, <2>1, CanonicalGrows DEF part
<1>9. IsFiniteSet(Cores(online, at)) /\ count' = Cardinality(Cores(online, at))
  <2>1. Cores(online, at) = Cores(online, n) \cup Span(part)
    BY <1>5, CoresGrow DEF part
  <2>2. IsFiniteSet(Span(part)) /\ Cardinality(Span(part)) = Last(part) - First(part) + 1
    BY <1>1, <1>4, FS_Interval DEF Span
  <2>3. Cores(online, n) \cap Span(part) = {}
    <3> SUFFICES ASSUME NEW i \in 1..n, NEW c \in Span(online[i])
                 PROVE  c \notin Span(part)
      BY DEF Cores
    <3>1. c \in Int /\ c <= Last(online[i])
      BY <1>7 DEF Span
    <3>2. Last(online[i]) < First(part)
      BY <1>1, <1>2, <1>4, <1>6, <1>7
    <3> QED
      BY <1>4, <1>7, <3>1, <3>2 DEF Span
  <2>4. Cardinality(Cores(online, n) \cap Span(part)) = 0
    BY <2>3, FS_EmptySet
  <2>5. IsFiniteSet(Cores(online, n) \cup Span(part))
        /\ Cardinality(Cores(online, n) \cup Span(part))
             = Cardinality(Cores(online, n)) + Cardinality(Span(part)) - 0
    BY <1>6, <2>2, <2>4, FS_Union
  <2> QED
    BY <1>1, <1>2, <1>4, <1>6, <2>1, <2>2, <2>5
<1>10. \A i \in 1..at : Last(online[i]) <= Last(part)
  <2>1. \A i \in 1..n : Last(online[i]) <= Last(part)
    BY <1>1, <1>2, <1>4, <1>6, <1>7
  <2>2. \A i \in 1..at : i \in 1..n \/ i = at
    BY <1>2, <1>5
  <2> QED
    BY <1>4, <2>1, <2>2 DEF part
<1>11. PrefixInv'
  BY <1>1, <1>2, <1>3, <1>5, <1>8, <1>9, <1>10 DEF PrefixInv, part
<1>12. TypeOK'
  BY <1>1, <1>2, <1>4 DEF IInv, TypeOK
<1> QED
  BY <1>1, <1>11, <1>12 DEF IInv, CountsCores, SystemAskedFirst

LEMMA RefusePartInv == IInv /\ RefusePart => IInv'
<1> SUFFICES ASSUME IInv, RefusePart
             PROVE  IInv'
  OBVIOUS
<1> DEFINE part == online[at]
           n == at - 1
<1>1. /\ pc = "parts" /\ pc' = "fallback" /\ online # None /\ at \in DOMAIN online
      /\ UNCHANGED <<online, sysconf, cpu_count, at, count, counted_to, counted, answer>>
      /\ ~(WellFormed(part) /\ First(part) <= Last(part) /\ First(part) > counted_to)
      /\ counted = None
  BY DEF IInv, RefusePart, Taken, Follows, machine
<1>2. online \in Lists /\ at \in Nat \ {0}
  BY <1>1 DEF IInv, TypeOK
<1>3. /\ Len(online) \in Nat /\ at \in 1..Len(online)
      /\ \A i \in 1..Len(online) : WellFormed(online[i]) => First(online[i]) \in Nat /\ Last(online[i]) \in Int
  BY <1>1, <1>2, PartFacts
<1>4. /\ Canonical(online, n)
      /\ counted_to = IF at = 1 THEN -1 ELSE Last(online[n])
  BY <1>1 DEF IInv, PrefixInv
<1>5. n \in Nat /\ n + 1 = at
  BY <1>2
<1> HIDE DEF part, n
<1>6. ~Canonical(online, at)
  <2> SUFFICES ASSUME WellFormed(part), First(part) <= Last(part),
                      \A j \in 1..n : Last(online[j]) < First(part)
               PROVE  First(part) > counted_to
    BY <1>1, <1>5, CanonicalGrows DEF part
  <2>1. First(part) \in Nat
    BY <1>3 DEF part
  <2>2. CASE at = 1
    BY <1>4, <2>1, <2>2
  <2>3. CASE at # 1
    <3>1. n \in 1..n /\ n \in 1..Len(online)
      BY <1>3, <1>5, <2>3
    <3>2. WellFormed(online[n])
      BY <1>4, <3>1 DEF Canonical
    <3> QED
      BY <1>3, <1>4, <2>1, <2>3, <3>1, <3>2
  <2> QED
    BY <2>2, <2>3
<1>7. ~Canonical(online, Len(online))
  BY <1>2, <1>3, <1>6, CanonicalShrinks
<1>8. TypeOK' /\ PrefixInv'
  BY <1>1 DEF IInv, TypeOK, PrefixInv
<1> QED
  BY <1>1, <1>7, <1>8 DEF IInv, CountsCores, SystemAskedFirst

LEMMA ReturnCountInv == IInv /\ ReturnCount => IInv'
<1> SUFFICES ASSUME IInv, ReturnCount
             PROVE  IInv'
  OBVIOUS
<1>1. /\ pc = "parts" /\ pc' = "done" /\ online # None /\ at \notin DOMAIN online
      /\ UNCHANGED <<online, sysconf, cpu_count, at, count, counted_to>>
      /\ counted' = count /\ answer' = count
  BY DEF IInv, ReturnCount, machine
<1>2. online \in Lists /\ at \in Nat \ {0} /\ count \in Nat
  BY <1>1 DEF IInv, TypeOK
<1>3. Len(online) \in Nat /\ DOMAIN online = 1..Len(online)
  BY <1>2, PartFacts
<1>4. /\ at <= Len(online) + 1 /\ Canonical(online, at - 1)
      /\ count = Cardinality(Cores(online, at - 1))
  BY <1>1 DEF IInv, PrefixInv
<1>5. at - 1 = Len(online)
  BY <1>1, <1>2, <1>3, <1>4
<1>6. TypeOK' /\ PrefixInv'
  BY <1>1, <1>2 DEF IInv, TypeOK, PrefixInv
<1> QED
  BY <1>1, <1>2, <1>4, <1>5, <1>6, NameAssumption DEF IInv, CountsCores, SystemAskedFirst

LEMMA FallbackInv == IInv /\ Fallback => IInv'
<1> SUFFICES ASSUME IInv, Fallback
             PROVE  IInv'
  OBVIOUS
<1>1. /\ pc = "fallback" /\ pc' = "done"
      /\ UNCHANGED <<online, sysconf, cpu_count, at, count, counted_to, counted>>
      /\ answer' = IF sysconf # None /\ sysconf > 0 THEN sysconf ELSE cpu_count
      /\ counted = None
      /\ online # None => ~Canonical(online, Len(online))
  BY DEF IInv, Fallback, machine
<1>2. sysconf \in Int \cup {None} /\ cpu_count \in Int \cup {None}
  BY DEF IInv, TypeOK
<1>3. TypeOK' /\ PrefixInv'
  BY <1>1, <1>2 DEF IInv, TypeOK, PrefixInv
<1>4. CountsCores'
  BY <1>1 DEF CountsCores
<1>5. SystemAskedFirst'
  BY <1>1, <1>2, NameAssumption DEF SystemAskedFirst
<1> QED
  BY <1>1, <1>3, <1>4, <1>5 DEF IInv

THEOREM Inductive == Spec => []IInv
<1>1. IInv /\ [Next]_vars => IInv'
  <2> SUFFICES ASSUME IInv, [Next]_vars
               PROVE  IInv'
    OBVIOUS
  <2>1. CASE UNCHANGED vars
    BY <2>1 DEF vars, machine, IInv, TypeOK, PrefixInv, CountsCores, SystemAskedFirst
  <2> QED
    BY <2>1, ReadOnlineInv, CountPartInv, RefusePartInv, ReturnCountInv, FallbackInv DEF Next
<1> QED
  BY InitInv, <1>1, PTL DEF Spec

\* For lists of any length: as many cores are counted as a list names that a
\* kernel may have written, and none for any other text.
THEOREM CountsWhatIsNamed == Spec => []CountsCores
<1>1. IInv => CountsCores
  BY DEF IInv
<1> QED
  BY <1>1, Inductive, PTL

\* The number of cores the system lists is the answer, whatever the affinity of
\* the process makes of the other sources.
THEOREM AsksTheSystemFirst == Spec => []SystemAskedFirst
<1>1. IInv => SystemAskedFirst
  BY DEF IInv
<1> QED
  BY <1>1, Inductive, PTL
=============================================================================
