-------------------------- MODULE CpuLimitsProofs --------------------------
(***************************************************************************)
(* Proofs about CpuLimits, for every layout, any files and any changes.    *)
(***************************************************************************)
EXTENDS CpuLimits, SequenceTheorems, TLAPS

\* Cutting a prefix of a sequence again.
LEMMA PrefixOfPrefix ==
  ASSUME NEW S, NEW own \in Seq(S), NEW n \in 0..Len(own)
  PROVE  /\ SubSeq(own, 1, n) \in Seq(S)
         /\ Len(SubSeq(own, 1, n)) = n
         /\ IsPrefix(SubSeq(own, 1, n), own)
         /\ n > 0 => Front(SubSeq(own, 1, n)) = SubSeq(own, 1, n - 1)
<1> DEFINE Q == SubSeq(own, 1, n)
<1>0. /\ Len(own) \in Nat /\ n \in Nat
      /\ \A i \in 1..Len(own) : own[i] \in S
  BY LenProperties, ElementOfSeq
<1>1. \A k \in 0..Len(own) :
        /\ SubSeq(own, 1, k) \in Seq(S) /\ Len(SubSeq(own, 1, k)) = k
        /\ \A i \in 1..k : SubSeq(own, 1, k)[i] = own[i]
  <2> TAKE k \in 0..Len(own)
  <2>1. k \in Nat /\ \A i \in 1..k : own[i] \in S
    BY <1>0
  <2>2. /\ SubSeq(own, 1, k) \in Seq(S)
        /\ Len(SubSeq(own, 1, k)) = (IF 1 <= k THEN k - 1 + 1 ELSE 0)
        /\ \A i \in 1..(k - 1 + 1) : SubSeq(own, 1, k)[i] = own[1 + i - 1]
    BY <2>1, SubSeqProperties
  <2> QED
    BY <2>1, <2>2
<1>2. \A k \in 0..n : SubSeq(Q, 1, k) = SubSeq(own, 1, k)
  <2> TAKE k \in 0..n
  <2>1. k \in Nat /\ \A i \in 1..k : Q[i] \in S /\ Q[i] = own[i]
    BY <1>0, <1>1
  <2>2. /\ SubSeq(Q, 1, k) \in Seq(S)
        /\ Len(SubSeq(Q, 1, k)) = (IF 1 <= k THEN k - 1 + 1 ELSE 0)
        /\ \A i \in 1..(k - 1 + 1) : SubSeq(Q, 1, k)[i] = Q[1 + i - 1]
    BY <2>1, SubSeqProperties
  <2>3. /\ SubSeq(own, 1, k) \in Seq(S) /\ Len(SubSeq(own, 1, k)) = k
        /\ \A i \in 1..k : SubSeq(own, 1, k)[i] = own[i]
    BY <1>0, <1>1
  <2>4. /\ Len(SubSeq(Q, 1, k)) = Len(SubSeq(own, 1, k))
        /\ \A i \in 1..Len(SubSeq(Q, 1, k)) : SubSeq(Q, 1, k)[i] = SubSeq(own, 1, k)[i]
    BY <2>1, <2>2, <2>3
  <2> QED
    BY <2>2, <2>3, <2>4, SeqEqual
<1>3. Q \in Seq(S) /\ Len(Q) = n
  BY <1>1
<1>4. IsPrefix(Q, own)
  BY <1>0, <1>2, <1>3 DEF IsPrefix
<1>5. n > 0 => Front(Q) = SubSeq(own, 1, n - 1)
  BY <1>0, <1>2, <1>3 DEF Front
<1> QED
  BY <1>3, <1>4, <1>5

\* The levels of a chain: each is a group of this process, no two are of one
\* length, and the parent of each but the mount point is one.
LEMMA DirsFacts ==
    ASSUME NEW c, Controller(c)
    PROVE  /\ Len(c.root) \in Nat /\ Len(c.own) \in Nat /\ Len(c.root) <= Len(c.own)
           /\ c.own \in Dirs(c)
           /\ \A g \in Dirs(c) : /\ g \in Seq(STRING) /\ IsPrefix(g, c.own)
                                 /\ Len(g) \in Len(c.root)..Len(c.own)
                                 /\ g = SubSeq(c.own, 1, Len(g))
           /\ \A g, h \in Dirs(c) : Len(g) = Len(h) => g = h
           /\ \A g \in Dirs(c) : ~Top(c, g) => Front(g) \in Dirs(c) /\ Len(Front(g)) = Len(g) - 1
<1>1. Len(c.root) \in Nat /\ Len(c.own) \in Nat /\ Len(c.root) <= Len(c.own) /\ c.own \in Seq(STRING)
  BY LenProperties DEF Controller, IsPrefix
<1>2. ASSUME NEW n \in Len(c.root)..Len(c.own)
      PROVE  /\ SubSeq(c.own, 1, n) \in Seq(STRING) /\ Len(SubSeq(c.own, 1, n)) = n
             /\ IsPrefix(SubSeq(c.own, 1, n), c.own)
             /\ n > 0 => Front(SubSeq(c.own, 1, n)) = SubSeq(c.own, 1, n - 1)
  BY <1>1, PrefixOfPrefix
<1>3. \A g \in Dirs(c) : /\ g \in Seq(STRING) /\ IsPrefix(g, c.own)
                         /\ Len(g) \in Len(c.root)..Len(c.own)
                         /\ g = SubSeq(c.own, 1, Len(g))
  BY <1>2 DEF Dirs
<1>4. c.own \in Dirs(c)
  BY <1>1, SubSeqFull DEF Dirs
<1>5. ASSUME NEW g \in Dirs(c), ~Top(c, g)
      PROVE  Front(g) \in Dirs(c) /\ Len(Front(g)) = Len(g) - 1
  <2>1. Len(g) - 1 \in Len(c.root)..Len(c.own) /\ Len(g) > 0
    BY <1>1, <1>3, <1>5 DEF Top
  <2>2. Front(g) = SubSeq(c.own, 1, Len(g) - 1)
    BY <1>2, <1>3, <2>1
  <2> QED
    BY <1>2, <2>1, <2>2 DEF Dirs
<1> QED
  BY <1>1, <1>3, <1>4, <1>5

----------------------------------------------------------------------------
(* The order of fractions.                                                 *)

LEMMA Multiples ==
    ASSUME NEW a \in Nat, NEW b \in Nat \ {0}, NEW c \in Nat, NEW d \in Nat \ {0}, NEW e \in Nat,
           NEW f \in Nat \ {0}, a * d <= c * b, c * f <= e * d
    PROVE  a * f <= e * b
<1>1. (a * d) * f <= (c * b) * f
  OBVIOUS
<1>2. (c * f) * b <= (e * d) * b
  OBVIOUS
<1>3. (a * f) * d <= (e * b) * d
  BY <1>1, <1>2
<1> QED
  BY <1>3

LEMMA LessOrder ==
    ASSUME NEW x \in Cores, NEW y \in Cores, NEW z \in Cores
    PROVE  /\ ~Less(y, x) /\ ~Less(z, y) => ~Less(z, x)
           /\ ~Less(x, x)
           /\ Less(x, y) => ~Less(y, x)
<1>1. PICK a \in Nat, b \in Nat \ {0} : x = <<a, b>>
  BY DEF Cores
<1>2. PICK c \in Nat, d \in Nat \ {0} : y = <<c, d>>
  BY DEF Cores
<1>3. PICK e \in Nat, f \in Nat \ {0} : z = <<e, f>>
  BY DEF Cores
<1>4. a * d <= c * b /\ c * f <= e * d => a * f <= e * b
  BY Multiples
<1>5. /\ a * d \in Nat /\ c * b \in Nat /\ c * f \in Nat /\ e * d \in Nat /\ a * f \in Nat
      /\ e * b \in Nat /\ a * b \in Nat
  OBVIOUS
<1>6. /\ Less(y, x) <=> c * b < a * d
      /\ Less(z, y) <=> e * d < c * f
      /\ Less(z, x) <=> e * b < a * f
      /\ Less(x, y) <=> a * d < c * b
      /\ Less(x, x) <=> a * b < a * b
  BY <1>1, <1>2, <1>3 DEF Less
<1> QED
  BY <1>4, <1>5, <1>6

\* What covers the machine is covered by more cores still.
LEMMA CoversMore ==
    ASSUME NEW x \in Cores, NEW y \in Cores, machine \in (Nat \ {0}) \cup {None},
           Covers(x), ~Less(y, x)
    PROVE  Covers(y)
<1>1. PICK a \in Nat, b \in Nat \ {0} : x = <<a, b>>
  BY DEF Cores
<1>2. PICK c \in Nat, d \in Nat \ {0} : y = <<c, d>>
  BY DEF Cores
<1>3. machine # None /\ machine \in Nat \ {0} /\ machine * b <= a
  BY <1>1 DEF Covers
<1>4. a * d <= c * b
  <2>1. a * d \in Nat /\ c * b \in Nat
    OBVIOUS
  <2> QED
    BY <1>1, <1>2, <2>1 DEF Less
<1>5. (machine * b) * d <= a * d /\ (machine * d) * b <= c * b
  BY <1>3, <1>4
<1>6. machine * d <= c
  BY <1>3, <1>5
<1> QED
  BY <1>2, <1>3, <1>6 DEF Covers

----------------------------------------------------------------------------
(* Facts of a state.                                                       *)

WalkOK == TypeOK /\ WalkInv

LEMMA ChainFacts ==
    ASSUME NEW lay \in Layouts, NEW m \in {"cpu_quota", "cpu_set", "cpu_usage"}, lay[m] # None
    PROVE  Controller(lay[m]) /\ Dirs(lay[m]) \subseteq Groups /\ lay.interface # None
<1>1. Controller(lay[m]) /\ lay.interface # None
  BY LayoutAssumption
<1>2. lay[m] \in Chains(lay)
  BY DEF Chains
<1>3. Dirs(lay[m]) \subseteq {SubSeq(lay[m].own, 1, n) : n \in 0..Len(lay[m].own)}
  BY <1>1, DirsFacts DEF Dirs
<1> QED
  BY <1>1, <1>2, <1>3 DEF Groups

LEMMA LocatedFacts ==
    ASSUME layout \in Layouts
    PROVE  /\ layout.cpu_quota # None =>
                Controller(layout.cpu_quota) /\ Dirs(layout.cpu_quota) \subseteq Groups
           /\ layout.cpu_set # None =>
                Controller(layout.cpu_set) /\ Dirs(layout.cpu_set) \subseteq Groups
           /\ layout.cpu_usage # None =>
                Controller(layout.cpu_usage) /\ Dirs(layout.cpu_usage) \subseteq Groups
           /\ layout.interface = None =>
                layout.cpu_quota = None /\ layout.cpu_set = None /\ layout.cpu_usage = None
BY ChainFacts

\* What a look finds of each file: what it may hold, and the same again while
\* the files and the directories stay as they are.
LEMMA ShownType == TypeOK => shown \in FilesType
<1> SUFFICES ASSUME TypeOK
             PROVE  shown \in FilesType
  OBVIOUS
<1>1. file \in [Kinds \X Groups -> Int \cup {Unlimited, Inherited, None}]
  BY DEF TypeOK, FilesType
<1>2. \A x \in Kinds \X Groups : shown[x] \in {file[x], None}
  BY DEF shown
<1>3. shown \in [Kinds \X Groups -> Int \cup {Unlimited, Inherited, None}]
  BY <1>1 DEF shown
<1>4. ASSUME NEW k \in Kinds, NEW g \in Groups
      PROVE  shown[<<k, g>>] \in Holds(k)
  <2>1. file[<<k, g>>] \in Holds(k) /\ None \in Holds(k)
    BY DEF TypeOK, FilesType, Holds
  <2> QED
    BY <1>2, <2>1
<1> QED
  BY <1>3, <1>4 DEF FilesType

LEMMA ShownStays ==
    ASSUME layout' = layout, file' = file, barred' = barred
    PROVE  shown' = shown
BY DEF shown, Denied, Path, Dirs

\* A read that is answered gives what the file holds then.
LEMMA ContentFacts ==
    ASSUME TypeOK, pc \in Reading, at \in Groups, Known
    PROVE  /\ Content = shown[<<pc, at>>]
           /\ Content \in Holds(pc)
           /\ ~Fails(pc, at)
<1>1. <<pc, at>> \in Kinds \X Groups /\ pc \in Kinds
  BY DEF Reading, Kinds
<1>2. Content = shown[<<pc, at>>] /\ ~Fails(pc, at)
  BY DEF Known, Content, SeenAgain, There, Fails
<1>3. shown[<<pc, at>>] \in Holds(pc)
  BY <1>1, ShownType DEF FilesType
<1> QED
  BY <1>2, <1>3

LEMMA UsageFacts ==
    ASSUME layout \in Layouts, NEW c, NEW g
    PROVE  /\ UsageLevel(c, g) \in Groups \cup {None}
           /\ UsageLevel(c, g) # None =>
                layout.cpu_usage # None /\ UsageLevel(c, g) = Counterpart(c, g, layout.cpu_usage)
BY LocatedFacts DEF UsageLevel, Counterpart

LEMMA TightestFacts ==
    ASSUME WalkInv, quotas # {}
    PROVE  Tightest \in quotas /\ \A y \in quotas : Prefer(Tightest, y)
<1>1. \E x \in quotas : \A y \in quotas : Prefer(x, y)
  BY DEF WalkInv
<1> QED
  BY <1>1 DEF Tightest

\* The order of min() is total on the quotas of levels, so one that comes to a
\* set with a least element leaves it one.
LEMMA TightestStays ==
    ASSUME NEW S, NEW z, \A x \in S \cup {z} : x.cores \in Cores /\ Len(x.group) \in Nat,
           S = {} \/ \E x \in S : \A y \in S : Prefer(x, y)
    PROVE  \E x \in S \cup {z} : \A y \in S \cup {z} : Prefer(x, y)
<1>1. Prefer(z, z)
  BY LessOrder DEF Prefer
<1>2. CASE S = {}
  BY <1>1, <1>2
<1>3. CASE \E x \in S : \A y \in S : Prefer(x, y)
  <2>1. PICK x \in S : \A y \in S : Prefer(x, y)
    BY <1>3
  <2>2. Prefer(x, z) \/ Prefer(z, x)
    BY LessOrder DEF Prefer
  <2>3. CASE Prefer(x, z)
    BY <2>1, <2>3
  <2>4. CASE Prefer(z, x)
    <3>1. ASSUME NEW y \in S
          PROVE  Prefer(z, y)
      <4>1. /\ ~Less(x.cores, z.cores) /\ ~Less(y.cores, x.cores)
            /\ Less(z.cores, x.cores) \/ Len(z.group) >= Len(x.group)
            /\ Less(x.cores, y.cores) \/ Len(x.group) >= Len(y.group)
        BY <2>1, <2>4, LessOrder DEF Prefer
      <4>2. ~Less(y.cores, z.cores)
        BY <4>1, LessOrder
      <4>3. CASE Less(z.cores, y.cores)
        BY <4>3 DEF Prefer
      <4>4. CASE ~Less(z.cores, y.cores)
        <5>1. ~Less(z.cores, x.cores) /\ ~Less(x.cores, y.cores)
          BY <4>1, <4>4, LessOrder
        <5>2. Len(z.group) >= Len(y.group)
          BY <4>1, <5>1
        <5> QED
          BY <4>2, <5>2 DEF Prefer
      <4> QED
        BY <4>3, <4>4
    <3> QED
      BY <1>1, <3>1
  <2> QED
    BY <2>2, <2>3, <2>4
<1> QED
  BY <1>2, <1>3

----------------------------------------------------------------------------
(* The walk: where it is and what it holds, step by step.                  *)

LEMMA InitWalk == Init => WalkOK
<1> SUFFICES ASSUME Init
             PROVE  WalkOK
  OBVIOUS
<1>1. /\ layout \in Layouts /\ changes \in Nat /\ file \in FilesType
      /\ barred \subseteq Directories
  BY FileAssumption DEF Init
<1>2. machine \in Machines
  BY DEF Init
<1>3. TypeOK
  BY <1>1, <1>2 DEF Init, TypeOK, Needed
<1>4. WalkInv
  BY DEF Init, WalkInv, QuotaWalk, SetWalk, Reading
<1> QED
  BY <1>3, <1>4 DEF WalkOK

LEMMA KernelWalk == WalkOK /\ Kernel => WalkOK'
<1> SUFFICES ASSUME WalkOK, Kernel
             PROVE  WalkOK'
  OBVIOUS
<1>1. PICK changed \in SUBSET (Kinds \X Groups) : Change(changed)
  <2>1. DOMAIN file = Kinds \X Groups
    BY DEF WalkOK, TypeOK, FilesType
  <2> QED
    BY <2>1, FileAssumption DEF Kernel, Rewrite, Flip, Bar, Behind
<1>2. file' \in FilesType /\ mute' \subseteq Kinds \X Groups /\ barred' \subseteq Directories
  <2>1. CASE \E g \in Mutable : \E content \in Contents[g[1]] : Rewrite(g, content)
    <3>0. PICK g \in Mutable : \E content \in Contents[g[1]] : Rewrite(g, content)
      BY <2>1
    <3>1. PICK content \in Contents[g[1]] : Rewrite(g, content)
      BY <3>0
    <3>2. g \in Kinds \X Groups /\ content \in Holds(g[1])
      BY FileAssumption
    <3>3. file' = [file EXCEPT ![g] = content] /\ mute' = mute /\ barred' = barred
      BY <3>1 DEF Rewrite
    <3>4. content \in Int \cup {Unlimited, Inherited, None}
      BY <3>2 DEF Holds
    <3>5. file \in [Kinds \X Groups -> Int \cup {Unlimited, Inherited, None}]
      BY DEF WalkOK, TypeOK, FilesType
    <3>6. file' \in [Kinds \X Groups -> Int \cup {Unlimited, Inherited, None}]
      BY <3>3, <3>4, <3>5
    <3>7. ASSUME NEW k \in Kinds, NEW h \in Groups
          PROVE  file'[<<k, h>>] \in Holds(k)
      <4>1. file[<<k, h>>] \in Holds(k)
        BY DEF WalkOK, TypeOK, FilesType
      <4>2. CASE g = <<k, h>>
        BY <3>2, <3>3, <3>5, <4>2
      <4>3. CASE g # <<k, h>>
        BY <3>2, <3>3, <3>5, <4>1, <4>3
      <4> QED
        BY <4>2, <4>3
    <3> QED
      BY <3>3, <3>6, <3>7 DEF FilesType, WalkOK, TypeOK
  <2>2. CASE \E g \in Flaky : Flip(g)
    BY <2>2, FileAssumption DEF Flip, WalkOK, TypeOK, FilesType
  <2>3. CASE \E d \in Barrable : Bar(d)
    BY <2>3, FileAssumption DEF Bar, WalkOK, TypeOK, FilesType
  <2> QED
    BY <2>1, <2>2, <2>3 DEF Kernel
<1>3. TypeOK'
  BY <1>1, <1>2 DEF WalkOK, TypeOK, Change, located, raw, FilesType
<1>4. WalkInv'
  BY <1>1 DEF WalkOK, WalkInv, Found, Counterpart, Prefer, Less, Change, located, raw
<1> QED
  BY <1>3, <1>4 DEF WalkOK

\* Entering a walk keeps it on the levels of its chain.
LEMMA EnterFacts ==
    ASSUME WalkOK, UNCHANGED layout
    PROVE  /\ EnterSet => \/ /\ pc' = "judge" /\ at' = <<>>
                          \/ /\ pc' = "find" /\ layout.cpu_set # None /\ at' = layout.cpu_set.own
                             /\ at' \in Dirs(layout.cpu_set) /\ at' \in Groups
           /\ EnterQuota =>
                \/ EnterSet
                \/ /\ pc' = "quota" /\ layout.cpu_quota # None /\ at' = layout.cpu_quota.own
                   /\ at' \in Dirs(layout.cpu_quota) /\ at' \in Groups
BY LocatedFacts, DirsFacts DEF EnterSet, EnterQuota, WalkOK, TypeOK

LEMMA BeginWalk == WalkOK /\ Begin => WalkOK'
<1> SUFFICES ASSUME WalkOK, Begin
             PROVE  WalkOK'
  OBVIOUS
<1>1. /\ UNCHANGED <<located, files, raw>> /\ pc = "idle" /\ touched' = {} /\ hidden' = Needed
      /\ EnterQuota
  BY DEF Begin
<1>2. UNCHANGED <<layout, machine, file, mute, barred, shown, changes, doubt, partial, quotas, quota, cpu_set, unreadable>>
  BY <1>1, ShownStays DEF located, files, raw
<1>3. /\ doubt = FALSE /\ partial = None /\ quotas = {} /\ quota = None /\ cpu_set = None
      /\ unreadable = FALSE
  BY <1>1 DEF WalkOK, WalkInv, TypeOK, QuotaWalk, SetWalk, Reading
<1>4. Needed' = Needed
  BY <1>2 DEF Needed, Closest, Closer, Dirs, There, Fails
<1>5. \/ /\ pc' = "judge" /\ at' = <<>>
      \/ /\ pc' = "find" /\ layout.cpu_set # None /\ at' \in Dirs(layout.cpu_set) /\ at' \in Groups
      \/ /\ pc' = "quota" /\ layout.cpu_quota # None /\ at' \in Dirs(layout.cpu_quota) /\ at' \in Groups
  BY <1>1, <1>2, EnterFacts
<1>6. TypeOK'
  BY <1>1, <1>2, <1>4, <1>5 DEF WalkOK, TypeOK
<1>7. WalkInv'
  BY <1>2, <1>3, <1>5 DEF WalkInv, QuotaWalk, SetWalk, Reading
<1> QED
  BY <1>6, <1>7 DEF WalkOK

LEMMA RaiseWalk ==
    ASSUME WalkOK, Raise, UNCHANGED <<located, files, reply, history>>
    PROVE  WalkOK'
<1>1. Needed' = Needed
  BY ShownStays DEF located, files, Needed, Closest, Closer, Dirs, There, Fails
<1>2. TypeOK'
  BY <1>1 DEF WalkOK, TypeOK, Raise, located, files, history
<1>3. WalkInv'
  BY DEF WalkInv, Raise, QuotaWalk, SetWalk, Reading
<1> QED
  BY <1>2, <1>3 DEF WalkOK

\* Passing from one level to the next, or on, with the quotas found.
LEMMA NextQuotaWalk ==
    ASSUME WalkOK, pc \in {"quota", "period"}, NextQuota, Continues,
           UNCHANGED <<located, files, reply, history>>,
           quotas' \subseteq [cores : Cores, group : Groups],
           \A x \in quotas' : x.group \in Dirs(layout.cpu_quota),
           quotas' # {} => \E x \in quotas' : \A y \in quotas' : Prefer(x, y)
    PROVE  WalkOK'
<1>1. UNCHANGED <<layout, machine, file, mute, barred, shown, changes, quota, cpu_set, unreadable, touched, hidden>>
  BY ShownStays DEF located, files, history, Continues
<1>2. /\ layout.cpu_quota # None /\ at \in Dirs(layout.cpu_quota) /\ Controller(layout.cpu_quota)
      /\ Dirs(layout.cpu_quota) \subseteq Groups
      /\ quota = None /\ cpu_set = None /\ unreadable = FALSE
  BY LocatedFacts DEF WalkOK, WalkInv, TypeOK, QuotaWalk, SetWalk
<1>3. Needed' = Needed
  BY <1>1 DEF Needed, Closest, Closer, Dirs, There, Fails
<1>4. partial' = None /\ doubt' = FALSE
  BY DEF NextQuota
<1>5. \/ /\ pc' = "quota" /\ at' \in Dirs(layout.cpu_quota) /\ at' \in Groups
      \/ /\ pc' = "quota_usage" /\ at' = <<>> /\ quotas' # {}
      \/ /\ quotas' = {} /\ pc' = "judge" /\ at' = <<>>
      \/ /\ quotas' = {} /\ pc' = "find" /\ layout.cpu_set # None
         /\ at' \in Dirs(layout.cpu_set) /\ at' \in Groups
  <2>1. CASE ~Top(layout.cpu_quota, at)
    BY <1>2, <2>1, DirsFacts DEF NextQuota
  <2>2. CASE Top(layout.cpu_quota, at)
    BY <1>1, <2>2, EnterFacts DEF NextQuota
  <2> QED
    BY <2>1, <2>2
<1>6. TypeOK'
  BY <1>1, <1>3, <1>4, <1>5 DEF WalkOK, TypeOK
<1>7. WalkInv'
  <2>1. (\A x \in quotas : \A y \in quotas : Prefer(x, y))' <=>
          \A x \in quotas' : \A y \in quotas' : Prefer(x, y)
    BY DEF Prefer, Less
  <2> QED
    BY <1>1, <1>2, <1>4, <1>5 DEF WalkInv, QuotaWalk, SetWalk, Reading, Prefer, Less
<1> QED
  BY <1>6, <1>7 DEF WalkOK

LEMMA TakeWalk ==
    ASSUME WalkOK, pc \in {"quota", "period"}, NEW q, NEW p, NEW v2, Take(q, p, v2),
           UNCHANGED <<located, files, reply, history>>
    PROVE  WalkOK'
<1>1. /\ layout.cpu_quota # None /\ at \in Dirs(layout.cpu_quota) /\ Controller(layout.cpu_quota)
      /\ Dirs(layout.cpu_quota) \subseteq Groups
  BY LocatedFacts DEF WalkOK, WalkInv, TypeOK, QuotaWalk, SetWalk
<1>2. /\ quotas \subseteq [cores : Cores, group : Groups]
      /\ \A x \in quotas : x.group \in Dirs(layout.cpu_quota)
      /\ quotas # {} => \E x \in quotas : \A y \in quotas : Prefer(x, y)
  BY DEF WalkOK, TypeOK, WalkInv
<1>3. CASE SetsNone(q, p, v2) /\ UNCHANGED quotas /\ NextQuota /\ Continues
  BY <1>2, <1>3, NextQuotaWalk
<1>4. CASE /\ Usable(q, p) /\ NextQuota /\ Continues
           /\ quotas' = quotas \cup {[cores |-> <<q, p>>, group |-> at]}
  <2> DEFINE z == [cores |-> <<q, p>>, group |-> at]
  <2>1. z \in [cores : Cores, group : Groups] /\ z.group \in Dirs(layout.cpu_quota)
    BY <1>1, <1>4 DEF Usable, Cores
  <2>2. \A x \in quotas \cup {z} : x.cores \in Cores /\ x.group \in Dirs(layout.cpu_quota)
    BY <1>2, <2>1
  <2>3. \A x \in quotas \cup {z} : x.cores \in Cores /\ Len(x.group) \in Nat
    BY <1>1, <2>2, DirsFacts
  <2>4. quotas' = quotas \cup {z}
    BY <1>4
  <2> HIDE DEF z
  <2>5. \E x \in quotas \cup {z} : \A y \in quotas \cup {z} : Prefer(x, y)
    <3>1. quotas = {} \/ \E x \in quotas : \A y \in quotas : Prefer(x, y)
      BY <1>2
    <3> QED
      BY <2>3, <3>1, TightestStays, Zenon
  <2> QED
    BY <1>2, <1>4, <2>1, <2>2, <2>4, <2>5, NextQuotaWalk
<1>5. CASE Raise
  BY <1>5, RaiseWalk
<1> QED
  BY <1>3, <1>4, <1>5 DEF Take

LEMMA ReadQuotasWalk == WalkOK /\ (ReadCpuMax \/ ReadPeriod \/ Reject) => WalkOK'
BY TakeWalk, RaiseWalk DEF ReadCpuMax, ReadPeriod, Reject

LEMMA ReadQuotaWalk == WalkOK /\ (ReadQuota \/ GiveNothing) => WalkOK'
<1> SUFFICES ASSUME WalkOK, ReadQuota \/ GiveNothing
             PROVE  WalkOK'
  OBVIOUS
<1>1. Needed' = Needed
  BY ShownStays DEF ReadQuota, GiveNothing, located, files, Needed, Closest, Closer, Dirs, There, Fails
<1>2. CASE ReadQuota
  <2>1. /\ pc = "quota" /\ layout.cpu_quota # None /\ at \in Dirs(layout.cpu_quota)
        /\ Dirs(layout.cpu_quota) \subseteq Groups
    BY <1>2, LocatedFacts DEF ReadQuota, WalkOK, TypeOK, WalkInv, QuotaWalk
  <2>2. Content \in Int \cup {Unlimited, None}
    BY <1>2, <2>1, ContentFacts DEF ReadQuota, WalkOK, Holds, Reading
  <2>3. TypeOK'
    BY <1>1, <1>2, <2>2 DEF ReadQuota, WalkOK, TypeOK, located, files, history
  <2>4. WalkInv'
    BY <1>2, <2>1 DEF ReadQuota, WalkOK, WalkInv, TypeOK, located, files, history, QuotaWalk, SetWalk,
                      Reading, Prefer, Less, Found, Counterpart
  <2> QED
    BY <2>3, <2>4 DEF WalkOK
<1>3. CASE GiveNothing
  <2>1. TypeOK'
    BY <1>1, <1>3 DEF GiveNothing, WalkOK, TypeOK, located, files, history
  <2>2. WalkInv'
    BY <1>3 DEF GiveNothing, WalkOK, WalkInv, TypeOK, located, files, history, QuotaWalk, SetWalk,
                Reading, Prefer, Less, Found, Counterpart
  <2> QED
    BY <2>1, <2>2 DEF WalkOK
<1> QED
  BY <1>2, <1>3

LEMMA FindQuotaUsageWalk == WalkOK /\ FindQuotaUsage => WalkOK'
<1> SUFFICES ASSUME WalkOK, FindQuotaUsage
             PROVE  WalkOK'
  OBVIOUS
<1>1. /\ pc = "quota_usage" /\ quotas' = {} /\ EnterSet
      /\ UNCHANGED <<located, files, doubt, partial, cpu_set, unreadable, reply, history>>
      /\ quota' = [cores |-> Tightest.cores, limit_level |-> Tightest.group,
                   usage_level |-> UsageLevel(layout.cpu_quota, Tightest.group)]
  BY DEF FindQuotaUsage
<1>2. UNCHANGED <<layout, machine, file, mute, barred, shown, changes, doubt, partial, cpu_set, unreadable, touched, hidden>>
  BY <1>1, ShownStays DEF located, files, history
<1>3. /\ layout.cpu_quota # None /\ quotas # {} /\ cpu_set = None /\ unreadable = FALSE /\ layout \in Layouts
      /\ doubt = FALSE /\ partial = None
  BY <1>1 DEF WalkOK, WalkInv, TypeOK, QuotaWalk, Reading
<1>4. Tightest \in quotas
  BY <1>3, TightestFacts DEF WalkOK
<1>5. /\ Tightest.cores \in Cores /\ Tightest.group \in Groups
      /\ Tightest.group \in Dirs(layout.cpu_quota)
  BY <1>4 DEF WalkOK, TypeOK, WalkInv
<1> DEFINE u == UsageLevel(layout.cpu_quota, Tightest.group)
<1>6. /\ u \in Groups \cup {None}
      /\ u # None => /\ layout.cpu_usage # None
                     /\ u = Counterpart(layout.cpu_quota, Tightest.group, layout.cpu_usage)
  BY <1>3, UsageFacts
<1>7. quota' \in Raws /\ quota' # None
  BY <1>1, <1>5, <1>6, NoneAssumption DEF Raws
<1>8. Needed' = Needed
  BY <1>2 DEF Needed, Closest, Closer, Dirs, There, Fails
<1>9. \/ /\ pc' = "judge" /\ at' = <<>>
      \/ /\ pc' = "find" /\ layout.cpu_set # None /\ at' \in Dirs(layout.cpu_set) /\ at' \in Groups
  BY <1>1, <1>2, EnterFacts
<1>10. TypeOK'
  BY <1>1, <1>2, <1>7, <1>8, <1>9 DEF WalkOK, TypeOK
<1>11. Found(quota', layout'.cpu_quota)
  BY <1>1, <1>2, <1>3, <1>5, <1>6 DEF Found
<1>12. Found(quota', layout'.cpu_quota) => Found(quota, layout.cpu_quota)'
  BY <1>2 DEF Found, Counterpart
<1>13. WalkInv'
  BY <1>1, <1>2, <1>3, <1>9, <1>11, <1>12 DEF WalkInv, QuotaWalk, SetWalk, Reading
<1> QED
  BY <1>10, <1>13 DEF WalkOK

LEMMA FindSetWalk == WalkOK /\ FindSet => WalkOK'
<1> SUFFICES ASSUME WalkOK, FindSet
             PROVE  WalkOK'
  OBVIOUS
<1>1. /\ pc = "find" /\ layout.cpu_set # None /\ at \in Dirs(layout.cpu_set) /\ Controller(layout.cpu_set)
      /\ Dirs(layout.cpu_set) \subseteq Groups
      /\ doubt = FALSE /\ partial = None /\ quotas = {} /\ cpu_set = None /\ unreadable = FALSE
  BY LocatedFacts DEF FindSet, WalkOK, WalkInv, TypeOK, QuotaWalk, SetWalk, Reading
<1>2. UNCHANGED <<layout, machine, file, mute, barred, shown, changes, doubt, partial, quotas, quota, cpu_set, unreadable,
                  touched, hidden>>
  BY ShownStays DEF FindSet, located, files, raw, history
<1>3. Needed' = Needed
  BY <1>2 DEF Needed, Closest, Closer, Dirs, There, Fails
<1>4. \/ /\ pc' \in {"set", "effective"} /\ at' = at
         /\ pc' = "effective" => ~layout.cpu_set.v2
      \/ pc' = "judge" /\ at' = <<>>
      \/ pc' = "find" /\ at' \in Dirs(layout.cpu_set)
  BY <1>1, DirsFacts DEF FindSet
<1>5. TypeOK'
  BY <1>1, <1>2, <1>3, <1>4 DEF WalkOK, TypeOK
<1>6. Found(quota, layout.cpu_quota) => Found(quota, layout.cpu_quota)'
  BY <1>2 DEF Found, Counterpart
<1>7. WalkInv'
  BY <1>1, <1>2, <1>4, <1>6 DEF WalkOK, WalkInv, QuotaWalk, SetWalk, Reading
<1> QED
  BY <1>5, <1>7 DEF WalkOK

LEMMA ReadSetWalk == WalkOK /\ ReadSet => WalkOK'
<1> SUFFICES ASSUME WalkOK, ReadSet
             PROVE  WalkOK'
  OBVIOUS
<1>1. /\ pc \in {"effective", "set"} /\ layout.cpu_set # None /\ at \in Dirs(layout.cpu_set)
      /\ Dirs(layout.cpu_set) \subseteq Groups /\ Known /\ layout \in Layouts
      /\ partial = None /\ quotas = {} /\ cpu_set = None /\ unreadable = FALSE
  BY LocatedFacts DEF ReadSet, WalkOK, WalkInv, TypeOK, QuotaWalk, SetWalk, Reading
<1>2. /\ UNCHANGED <<layout, machine, file, mute, barred, shown, changes, at, partial, quotas, quota, unreadable,
                     touched, hidden>>
      /\ doubt' = FALSE
  BY ShownStays DEF ReadSet, located, files, history
<1>3. Content \in (Nat \ {0}) \cup {Inherited, None} /\ at \in Groups
  BY <1>1, ContentFacts DEF WalkOK, Holds, Reading
<1>4. Needed' = Needed
  BY <1>2 DEF Needed, Closest, Closer, Dirs, There, Fails
<1>5. Found(quota, layout.cpu_quota) => Found(quota, layout.cpu_quota)'
  BY <1>2 DEF Found, Counterpart
<1>6. CASE pc' = After(pc) /\ UNCHANGED cpu_set
  <2>1. pc' \in {"set", "judge"}
    BY <1>1, <1>6 DEF After
  <2>2. TypeOK'
    BY <1>2, <1>4, <1>6, <2>1 DEF WalkOK, TypeOK
  <2>3. WalkInv'
    BY <1>1, <1>2, <1>5, <1>6, <2>1 DEF WalkOK, WalkInv, QuotaWalk, SetWalk, Reading
  <2> QED
    BY <2>2, <2>3 DEF WalkOK
<1>7. CASE /\ Content \notin {None, Inherited} /\ pc' = "set_usage"
           /\ cpu_set' = [cores |-> <<Content, 1>>, limit_level |-> at, usage_level |-> None]
  <2>1. cpu_set' \in Raws /\ cpu_set' # None
    BY <1>3, <1>7, NoneAssumption DEF Raws, Cores
  <2>2. TypeOK'
    BY <1>2, <1>4, <1>7, <2>1 DEF WalkOK, TypeOK
  <2>3. Found(cpu_set, layout.cpu_set)'
    BY <1>1, <1>2, <1>7 DEF Found, Dirs
  <2>4. WalkInv'
    BY <1>1, <1>2, <1>5, <1>7, <2>1, <2>3 DEF WalkOK, WalkInv, QuotaWalk, SetWalk, Reading
  <2> QED
    BY <2>2, <2>4 DEF WalkOK
<1> QED
  BY <1>6, <1>7 DEF ReadSet

LEMMA FindSetUsageWalk == WalkOK /\ FindSetUsage => WalkOK'
<1> SUFFICES ASSUME WalkOK, FindSetUsage
             PROVE  WalkOK'
  OBVIOUS
<1>1. /\ pc = "set_usage" /\ pc' = "judge" /\ at' = <<>> /\ layout \in Layouts
      /\ cpu_set # None /\ cpu_set \in Raws /\ cpu_set.limit_level = at /\ Found(cpu_set, layout.cpu_set)
      /\ doubt = FALSE /\ partial = None /\ quotas = {} /\ unreadable = FALSE
      /\ cpu_set' = [cpu_set EXCEPT !.usage_level = UsageLevel(layout.cpu_set, at)]
  BY DEF FindSetUsage, WalkOK, WalkInv, TypeOK, QuotaWalk, SetWalk, Reading
<1>2. UNCHANGED <<layout, machine, file, mute, barred, shown, changes, doubt, partial, quotas, quota, unreadable, touched,
                  hidden>>
  BY ShownStays DEF FindSetUsage, located, files, history
<1> DEFINE u == UsageLevel(layout.cpu_set, at)
<1>3. /\ u \in Groups \cup {None}
      /\ u # None => layout.cpu_usage # None /\ u = Counterpart(layout.cpu_set, at, layout.cpu_usage)
  BY <1>1, UsageFacts
<1>4. /\ cpu_set' \in Raws /\ cpu_set' # None
      /\ cpu_set'.limit_level = at /\ cpu_set'.usage_level = u
  BY <1>1, <1>3, NoneAssumption DEF Raws
<1>5. Needed' = Needed
  BY <1>2 DEF Needed, Closest, Closer, Dirs, There, Fails
<1>6. Found(quota, layout.cpu_quota) => Found(quota, layout.cpu_quota)'
  BY <1>2 DEF Found, Counterpart
<1>7. Found(cpu_set, layout.cpu_set)'
  BY <1>1, <1>2, <1>3, <1>4 DEF Found, Counterpart
<1>8. TypeOK'
  BY <1>1, <1>2, <1>4, <1>5 DEF WalkOK, TypeOK
<1>9. WalkInv'
  BY <1>1, <1>2, <1>4, <1>6, <1>7 DEF WalkOK, WalkInv, QuotaWalk, SetWalk, Reading
<1> QED
  BY <1>8, <1>9 DEF WalkOK

LEMMA JudgeWalk == WalkOK /\ Judge => WalkOK'
<1> SUFFICES ASSUME WalkOK, Judge
             PROVE  WalkOK'
  OBVIOUS
<1>1. doubt = FALSE
  BY DEF Judge, WalkOK, WalkInv, TypeOK, Reading
<1>2. TypeOK'
  BY DEF Judge, WalkOK, TypeOK, located, files
<1>3. WalkInv'
  BY <1>1 DEF Judge, WalkInv, QuotaWalk, SetWalk, Reading
<1> QED
  BY <1>2, <1>3 DEF WalkOK

LEMMA NextWalk == WalkOK /\ [Next]_vars => WalkOK'
<1> SUFFICES ASSUME WalkOK, [Next]_vars
             PROVE  WalkOK'
  OBVIOUS
<1>1. CASE Next
  BY <1>1, KernelWalk, BeginWalk, ReadQuotasWalk, ReadQuotaWalk, FindQuotaUsageWalk, FindSetWalk,
     ReadSetWalk, FindSetUsageWalk, JudgeWalk DEF Next, Reader
<1>2. CASE UNCHANGED vars
  <2>1. UNCHANGED <<layout, machine, file, mute, barred, shown, changes, pc, at, doubt, partial, quotas, quota, cpu_set,
                    unreadable, reply, touched, hidden>>
    BY <1>2, ShownStays DEF vars, located, files, raw, history
  <2>2. TypeOK'
    BY <2>1 DEF WalkOK, TypeOK, Needed, Closest, Closer, Dirs, There, Fails
  <2>3. WalkInv'
    BY <2>1 DEF WalkOK, WalkInv, Found, Counterpart, Prefer, Less
  <2> QED
    BY <2>2, <2>3 DEF WalkOK
<1> QED
  BY <1>1, <1>2

----------------------------------------------------------------------------
(* Files unusable all call long.                                           *)

\* What makes a file one that the answer rests on.
LEMMA NeededFacts ==
    ASSUME TypeOK, NEW f \in Needed
    PROVE  /\ f = <<f[1], f[2]>> /\ Fails(f[1], f[2])
           /\ \/ /\ f[1] \in {"quota", "period"}
                 /\ layout.cpu_quota # None /\ f[2] \in Dirs(layout.cpu_quota)
                 /\ f[1] = "period" => ~layout.cpu_quota.v2
              \/ /\ f[1] \in {"effective", "set"}
                 /\ layout.cpu_set # None /\ f[2] \in Dirs(layout.cpu_set) /\ Closest(layout.cpu_set, f[2])
                 /\ f[1] = "effective" => ~layout.cpu_set.v2
                 /\ f[1] = "set" =>
                      \/ layout.cpu_set.v2
                      \/ shown[<<"effective", f[2]>>] \in {None, Inherited} /\ ~Fails("effective", f[2])
<1>1. f \in Kinds \X Groups
  BY DEF Needed, TypeOK, FilesType
<1>2. f = <<f[1], f[2]>>
  BY <1>1
<1>3. Fails(f[1], f[2])
  BY <1>2 DEF Needed, Fails
<1> QED
  BY <1>2, <1>3 DEF Needed

\* Passing from one level to the next leaves what is closer to the root ahead.
LEMMA NextQuotaAhead ==
    ASSUME WalkOK, pc \in {"quota", "period"}, NextQuota, UNCHANGED layout,
           NEW g \in Dirs(layout.cpu_quota), Len(g) < Len(at)
    PROVE  pc' = "quota" /\ Len(g) <= Len(at')
<1>1. layout.cpu_quota # None /\ at \in Dirs(layout.cpu_quota) /\ Controller(layout.cpu_quota)
  BY LocatedFacts DEF WalkOK, WalkInv, TypeOK, QuotaWalk
<1>2. ~Top(layout.cpu_quota, at) /\ Len(at) \in Nat /\ Len(g) \in Nat
  BY <1>1, DirsFacts DEF Top
<1>3. Len(Front(at)) = Len(at) - 1
  BY <1>1, <1>2, DirsFacts
<1> QED
  BY <1>2, <1>3 DEF NextQuota

\* Leaving the quotas comes to the whole chain of the sets.
LEMMA NextQuotaBefore ==
    ASSUME WalkOK, NextQuota \/ EnterSet, UNCHANGED layout,
           NEW g, layout.cpu_set # None, g \in Dirs(layout.cpu_set)
    PROVE  pc' \in QuotaWalk \/ (pc' = "find" /\ Len(g) <= Len(at'))
<1>1. Controller(layout.cpu_set)
  BY LocatedFacts DEF WalkOK, TypeOK
<1>2. EnterSet => pc' = "find" /\ Len(g) <= Len(at')
  BY <1>1, DirsFacts DEF EnterSet
<1> QED
  BY <1>2 DEF NextQuota, QuotaWalk

LEMMA TakeAhead ==
    ASSUME WalkOK, pc \in {"quota", "period"}, NEW q, NEW p, NEW v2, Take(q, p, v2), UNCHANGED layout,
           NEW f \in Needed, Ahead(f), ~Fails(pc, at), pc = "quota" => layout.cpu_quota.v2
    PROVE  Ahead(f)'
<1>1. Raise => Ahead(f)'
  BY DEF Raise, Ahead
<1>2. unreadable = FALSE /\ layout.cpu_quota # None /\ at \in Dirs(layout.cpu_quota)
      /\ Controller(layout.cpu_quota)
  BY LocatedFacts DEF WalkOK, TypeOK, WalkInv, QuotaWalk
<1>3. CASE NextQuota /\ f[1] \in {"quota", "period"}
  <2>1. /\ f[2] \in Dirs(layout.cpu_quota) /\ f = <<f[1], f[2]>> /\ Fails(f[1], f[2])
        /\ f[1] = "period" => ~layout.cpu_quota.v2
    BY <1>3, NeededFacts DEF WalkOK
  <2>2. f[2] # at
    BY <1>2, <1>3, <2>1, DirsFacts DEF Ahead, WalkOK, WalkInv
  <2>3. Len(f[2]) < Len(at)
    BY <1>2, <1>3, <2>1, <2>2, DirsFacts DEF Ahead
  <2> QED
    BY <1>3, <2>1, <2>3, NextQuotaAhead DEF Ahead
<1>4. CASE NextQuota /\ f[1] \in {"effective", "set"}
  <2>1. layout.cpu_set # None /\ f[2] \in Dirs(layout.cpu_set)
    BY <1>4, NeededFacts DEF WalkOK
  <2> QED
    BY <1>4, <2>1, NextQuotaBefore DEF Ahead
<1>5. f[1] \in {"quota", "period"} \/ f[1] \in {"effective", "set"}
  BY NeededFacts DEF WalkOK
<1> QED
  BY <1>1, <1>3, <1>4, <1>5 DEF Take

LEMMA BeginHidden == WalkOK /\ Begin => HiddenInv'
<1> SUFFICES ASSUME WalkOK, Begin, NEW f \in hidden'
             PROVE  Ahead(f)'
  BY DEF HiddenInv
<1>1. f \in Needed /\ EnterQuota /\ UNCHANGED layout /\ layout \in Layouts
  BY DEF Begin, located, WalkOK, TypeOK
<1>2. CASE f[1] \in {"quota", "period"}
  <2>1. layout.cpu_quota # None /\ f[2] \in Dirs(layout.cpu_quota) /\ Controller(layout.cpu_quota)
    BY <1>1, <1>2, NeededFacts, LocatedFacts DEF WalkOK
  <2>2. pc' = "quota" /\ Len(f[2]) <= Len(at')
    BY <1>1, <2>1, DirsFacts DEF EnterQuota
  <2> QED
    BY <1>2, <2>2 DEF Ahead
<1>3. CASE f[1] \in {"effective", "set"}
  <2>1. layout.cpu_set # None /\ f[2] \in Dirs(layout.cpu_set)
    BY <1>1, <1>3, NeededFacts DEF WalkOK
  <2>2. pc' = "quota" \/ EnterSet
    BY <1>1 DEF EnterQuota
  <2>3. pc' \in QuotaWalk \/ (pc' = "find" /\ Len(f[2]) <= Len(at'))
    BY <1>1, <2>1, <2>2, NextQuotaBefore DEF QuotaWalk
  <2> QED
    BY <1>3, <2>3 DEF Ahead
<1> QED
  BY <1>1, <1>2, <1>3, NeededFacts DEF WalkOK

LEMMA FindSetAhead ==
    ASSUME WalkOK, FindSet, NEW f \in Needed, Ahead(f)
    PROVE  Ahead(f)'
<1>1. /\ pc = "find" /\ layout.cpu_set # None /\ at \in Dirs(layout.cpu_set) /\ Controller(layout.cpu_set)
      /\ unreadable = FALSE
  BY LocatedFacts DEF FindSet, WalkOK, WalkInv, TypeOK, SetWalk
<1>2. f[1] \in {"effective", "set"} /\ Len(f[2]) <= Len(at)
  BY <1>1 DEF Ahead, QuotaWalk
<1>3. /\ f[2] \in Dirs(layout.cpu_set) /\ Closest(layout.cpu_set, f[2])
      /\ f[1] = "effective" => ~layout.cpu_set.v2
  BY <1>2, NeededFacts DEF WalkOK
<1>4. CASE There("set", at)
  <2>1. f[2] = at
    BY <1>1, <1>2, <1>3, <1>4, DirsFacts DEF Closest, Closer
  <2> QED
    BY <1>1, <1>2, <1>3, <1>4, <2>1 DEF FindSet, Ahead
<1>5. CASE ~There("set", at)
  <2>1. f[2] # at
    BY <1>3, <1>5 DEF Closest
  <2>2. Len(f[2]) < Len(at) /\ Len(f[2]) \in Nat /\ Len(at) \in Nat
    BY <1>1, <1>2, <1>3, <2>1, DirsFacts
  <2>3. ~Top(layout.cpu_set, at) /\ Len(Front(at)) = Len(at) - 1
    BY <1>1, <1>3, <2>2, DirsFacts DEF Top
  <2> QED
    BY <1>1, <1>2, <1>5, <2>2, <2>3 DEF FindSet, Ahead
<1> QED
  BY <1>4, <1>5

LEMMA ReadSetAhead ==
    ASSUME WalkOK, ReadSet, NEW f \in Needed, Ahead(f)
    PROVE  Ahead(f)'
<1>1. /\ pc \in {"effective", "set"} /\ layout.cpu_set # None /\ at \in Dirs(layout.cpu_set)
      /\ at \in Groups /\ Known /\ unreadable = FALSE
  BY LocatedFacts DEF ReadSet, WalkOK, WalkInv, TypeOK, SetWalk
<1>2. ~Fails(pc, at) /\ Content = shown[<<pc, at>>]
  BY <1>1, ContentFacts DEF WalkOK, Reading
<1>3. f[1] \in {"effective", "set"} /\ f[2] = at /\ (pc = "set" => f[1] = "set")
  BY <1>1 DEF Ahead, QuotaWalk
<1>4. pc = "effective" /\ f[1] = "set"
  BY <1>1, <1>2, <1>3, NeededFacts DEF WalkOK
<1>5. shown[<<"effective", at>>] \in {None, Inherited}
  BY <1>3, <1>4, NeededFacts DEF WalkOK, WalkInv
<1>6. pc' = "set" /\ at' = at
  BY <1>2, <1>4, <1>5 DEF ReadSet, After
<1> QED
  BY <1>3, <1>4, <1>6 DEF Ahead

LEMMA NextHidden == WalkOK /\ HiddenInv /\ [Next]_vars => HiddenInv'
<1> SUFFICES ASSUME WalkOK, HiddenInv, [Next]_vars
             PROVE  HiddenInv'
  OBVIOUS
<1>1. CASE Begin
  BY <1>1, BeginHidden
<1>2. CASE Judge
  BY <1>2 DEF Judge, HiddenInv
<1>3. CASE Kernel \/ GiveNothing \/ UNCHANGED vars
  <2>1. hidden' \subseteq hidden /\ UNCHANGED <<pc, at, unreadable>>
    BY <1>3 DEF Kernel, Rewrite, Flip, Bar, Change, raw, GiveNothing, history, vars
  <2> QED
    BY <2>1 DEF HiddenInv, Ahead
<1>4. ASSUME pc # "idle", UNCHANGED <<layout, hidden>>, \A f \in hidden : Ahead(f) => Ahead(f)'
      PROVE  HiddenInv'
  BY <1>4 DEF HiddenInv
<1>5. hidden \subseteq Needed
  BY DEF WalkOK, TypeOK
<1>6. CASE ReadCpuMax \/ ReadPeriod
  <2>1. /\ pc \in {"quota", "period"} /\ Known /\ at \in Groups /\ UNCHANGED <<layout, hidden>>
        /\ pc = "quota" => layout.cpu_quota.v2
    BY <1>6, LocatedFacts DEF ReadCpuMax, ReadPeriod, located, history, WalkOK, WalkInv, TypeOK, QuotaWalk
  <2>2. ~Fails(pc, at)
    BY <2>1, ContentFacts DEF WalkOK, Reading
  <2>3. \E q, p, v2 : Take(q, p, v2)
    BY <1>6 DEF ReadCpuMax, ReadPeriod
  <2> QED
    BY <1>4, <1>5, <2>1, <2>2, <2>3, TakeAhead
<1>7. CASE Reject
  BY <1>7 DEF Reject, Raise, HiddenInv, Ahead
<1>8. CASE ReadQuota
  <2>1. /\ pc = "quota" /\ Known /\ at \in Groups /\ UNCHANGED <<layout, hidden, at>> /\ pc' = "period"
        /\ layout.cpu_quota # None /\ at \in Dirs(layout.cpu_quota) /\ Controller(layout.cpu_quota)
        /\ unreadable = FALSE
    BY <1>8, LocatedFacts DEF ReadQuota, located, history, WalkOK, WalkInv, TypeOK, QuotaWalk
  <2>2. ~Fails("quota", at)
    BY <2>1, ContentFacts DEF WalkOK, Reading
  <2>3. ASSUME NEW f \in Needed, Ahead(f)
        PROVE  Ahead(f)'
    <3>1. CASE f[1] \in {"quota", "period"}
      <4>1. f[2] \in Dirs(layout.cpu_quota) /\ f = <<f[1], f[2]>> /\ Fails(f[1], f[2])
        BY <3>1, NeededFacts DEF WalkOK
      <4>2. Len(f[2]) <= Len(at)
        BY <2>1, <2>3, <3>1 DEF Ahead
      <4>3. f = <<"period", at>> \/ Len(f[2]) < Len(at)
        BY <2>1, <2>2, <3>1, <4>1, <4>2, DirsFacts
      <4> QED
        BY <2>1, <3>1, <4>3 DEF Ahead
    <3>2. CASE f[1] \in {"effective", "set"}
      BY <2>1, <3>2 DEF Ahead, QuotaWalk
    <3> QED
      BY <3>1, <3>2, NeededFacts DEF WalkOK
  <2> QED
    BY <1>4, <1>5, <2>1, <2>3
<1>9. CASE FindQuotaUsage
  <2>1. pc = "quota_usage" /\ EnterSet /\ UNCHANGED <<layout, hidden>> /\ unreadable = FALSE
    BY <1>9 DEF FindQuotaUsage, located, history, WalkOK, WalkInv, TypeOK
  <2>2. ASSUME NEW f \in Needed, Ahead(f)
        PROVE  Ahead(f)'
    <3>1. f[1] \in {"effective", "set"}
      BY <2>1, <2>2 DEF Ahead
    <3>2. layout.cpu_set # None /\ f[2] \in Dirs(layout.cpu_set)
      BY <3>1, NeededFacts DEF WalkOK
    <3> QED
      BY <2>1, <3>1, <3>2, NextQuotaBefore DEF Ahead
  <2> QED
    BY <1>4, <1>5, <2>1, <2>2
<1>10. CASE FindSet
  BY <1>4, <1>5, <1>10, FindSetAhead DEF FindSet, located, history
<1>11. CASE ReadSet
  BY <1>4, <1>5, <1>11, ReadSetAhead DEF ReadSet, located, history
<1>12. CASE FindSetUsage
  <2>1. ASSUME NEW f \in hidden
        PROVE  FALSE
    BY <1>12 DEF FindSetUsage, WalkOK, WalkInv, HiddenInv, Ahead, QuotaWalk
  <2> QED
    BY <1>12, <2>1 DEF FindSetUsage, history, HiddenInv
<1> QED
  BY <1>1, <1>2, <1>3, <1>6, <1>7, <1>8, <1>9, <1>10, <1>11, <1>12 DEF Next, Reader

----------------------------------------------------------------------------
(* Restrictions that stood.                                                *)

LEMMA LimitingFacts ==
    ASSUME TypeOK, NEW g \in Limiting
    PROVE  /\ layout.cpu_quota # None /\ Controller(layout.cpu_quota)
           /\ g \in Dirs(layout.cpu_quota) /\ g \in Groups
           /\ ~SetsNone(shown[<<"quota", g>>], shown[<<"period", g>>], layout.cpu_quota.v2)
<1>1. g \in QuotaLevels /\ ~SetsNone(NowQuota(g)[1], NowQuota(g)[2], layout.cpu_quota.v2)
  BY DEF Limiting
<1>2. layout.cpu_quota # None /\ g \in Dirs(layout.cpu_quota)
  BY <1>1 DEF QuotaLevels
<1> QED
  BY <1>1, <1>2, LocatedFacts DEF TypeOK, NowQuota

LEMMA RestrictingFacts ==
    ASSUME TypeOK, NEW g \in Restricting
    PROVE  /\ layout.cpu_set # None /\ Controller(layout.cpu_set)
           /\ g \in Dirs(layout.cpu_set) /\ g \in Groups
           /\ Closest(layout.cpu_set, g) /\ NowSet(g) # None
<1>1. g \in SetLevels /\ Closest(layout.cpu_set, g) /\ NowSet(g) # None
  BY DEF Restricting
<1>2. layout.cpu_set # None /\ g \in Dirs(layout.cpu_set)
  BY <1>1 DEF SetLevels
<1> QED
  BY <1>1, <1>2, LocatedFacts DEF TypeOK

\* A change during a call leaves every file it does not touch to be found as before.
LEMMA ChangeFacts ==
    ASSUME WalkOK, Kernel, pc # "idle"
    PROVE  /\ UNCHANGED <<layout, machine, pc, at, doubt, partial, quotas, quota, cpu_set, unreadable>>
           /\ touched \subseteq touched'
           /\ \A x \in (Kinds \X Groups) \ touched' : shown'[x] = shown[x]
<1>1. DOMAIN file = Kinds \X Groups
  BY DEF WalkOK, TypeOK, FilesType
<1>2. ASSUME NEW changed, Change(changed)
      PROVE  /\ UNCHANGED <<layout, machine, pc, at, doubt, partial, quotas, quota, cpu_set, unreadable>>
             /\ touched' = touched \cup changed
             /\ \A x \in Kinds \X Groups : Path(x)' = Path(x)
  BY <1>2 DEF Change, located, raw, Path, Dirs
<1>3. ASSUME NEW x \in Kinds \X Groups, x \notin touched'
      PROVE  file'[x] = file[x] /\ (Denied(x)' <=> Denied(x))
  <2>1. CASE \E f \in Mutable : \E content \in Contents[f[1]] : Rewrite(f, content)
    <3>1. PICK f \in Mutable : \E content \in Contents[f[1]] : Rewrite(f, content)
      BY <2>1
    <3>2. PICK content \in Contents[f[1]] : Rewrite(f, content)
      BY <3>1
    <3>3. file' = [file EXCEPT ![f] = content] /\ barred' = barred /\ Change({f})
      BY <3>2 DEF Rewrite
    <3>4. x # f /\ Path(x)' = Path(x)
      BY <1>2, <1>3, <3>3
    <3> QED
      BY <1>1, <3>3, <3>4 DEF Denied
  <2>2. CASE \E f \in Flaky : Flip(f)
    <3>1. PICK f \in Flaky : Flip(f)
      BY <2>2
    <3>2. file' = file /\ barred' = barred /\ Change({f})
      BY <3>1 DEF Flip
    <3>3. Path(x)' = Path(x)
      BY <1>2, <3>2
    <3> QED
      BY <3>2, <3>3 DEF Denied
  <2>3. CASE \E d \in Barrable : Bar(d)
    <3>1. PICK d \in Barrable : Bar(d)
      BY <2>3
    <3>2. /\ file' = file
          /\ barred' = IF d \in barred THEN barred \ {d} ELSE barred \cup {d}
          /\ Change({f \in DOMAIN file : d \in Path(f)})
      BY <3>1 DEF Bar, Behind
    <3>3. Path(x)' = Path(x) /\ d \notin Path(x)
      BY <1>1, <1>2, <1>3, <3>2
    <3> QED
      BY <3>2, <3>3 DEF Denied
  <2> QED
    BY <2>1, <2>2, <2>3 DEF Kernel
<1>4. \A x \in (Kinds \X Groups) \ touched' : shown'[x] = shown[x]
  BY <1>3 DEF shown
<1>5. PICK changed : Change(changed)
  BY DEF Kernel, Rewrite, Flip, Bar, Behind
<1> QED
  BY <1>2, <1>4, <1>5

LEMMA KernelStood == WalkOK /\ StoodInv /\ Kernel => StoodInv'
<1> SUFFICES ASSUME WalkOK, StoodInv, Kernel, pc' # "idle"
             PROVE  /\ \A g \in Limiting' : QuotaStood(g)' => QuotaKept(g)'
                    /\ \A g \in Restricting' : SetStood(g)' => SetKept(g)'
  BY DEF StoodInv
<1>1. pc # "idle"
  BY DEF Kernel, Rewrite, Flip, Bar, Change
<1>2. /\ UNCHANGED <<layout, machine, pc, at, doubt, partial, quotas, quota, cpu_set, unreadable>>
      /\ touched \subseteq touched'
      /\ \A x \in (Kinds \X Groups) \ touched' : shown'[x] = shown[x]
      /\ layout \in Layouts
  BY <1>1, ChangeFacts DEF WalkOK, TypeOK
<1>3. ASSUME NEW g \in Limiting', QuotaStood(g)'
      PROVE  QuotaKept(g)'
  <2>1. layout.cpu_quota # None /\ g \in Dirs(layout.cpu_quota) /\ g \in Groups
    BY <1>2, <1>3, LocatedFacts DEF Limiting, QuotaLevels, Dirs
  <2>2. /\ <<"quota", g>> \in Kinds \X Groups /\ <<"period", g>> \in Kinds \X Groups
        /\ <<"quota", g>> \notin touched' /\ <<"period", g>> \notin touched'
    BY <1>3, <2>1 DEF Kinds, QuotaStood, Stood
  <2>3. shown'[<<"quota", g>>] = shown[<<"quota", g>>] /\ shown'[<<"period", g>>] = shown[<<"period", g>>]
    BY <1>2, <2>2
  <2>4. NowQuota(g)' = NowQuota(g)
    BY <2>3 DEF NowQuota
  <2>5. g \in Limiting
    BY <1>2, <1>3, <2>1, <2>4 DEF Limiting, QuotaLevels
  <2>6. QuotaKept(g)
    BY <1>1, <1>2, <1>3, <2>5 DEF StoodInv, QuotaStood, Stood
  <2> QED
    BY <1>2, <2>3, <2>4, <2>6 DEF QuotaKept, Less
<1>4. ASSUME NEW g \in Restricting', SetStood(g)'
      PROVE  SetKept(g)'
  <2>1. /\ layout.cpu_set # None /\ g \in Dirs(layout.cpu_set) /\ Dirs(layout.cpu_set) \subseteq Groups
        /\ Closest(layout.cpu_set, g)' /\ NowSet(g)' # None
    BY <1>2, <1>4, LocatedFacts DEF Restricting, SetLevels, Dirs
  <2>2. Closer(layout.cpu_set, g)' = Closer(layout.cpu_set, g) /\ Closer(layout.cpu_set, g) \subseteq Groups
    BY <1>2, <2>1 DEF Closer, Dirs
  <2>3. \A k \in {"set", "effective"} : <<k, g>> \in (Kinds \X Groups) \ touched'
    BY <1>4, <2>1 DEF Kinds, SetStood, Stood
  <2>4. \A h \in Closer(layout.cpu_set, g) : <<"set", h>> \in (Kinds \X Groups) \ touched'
    BY <1>4, <2>2 DEF Kinds, SetStood, Stood
  <2>5. /\ shown'[<<"set", g>>] = shown[<<"set", g>>] /\ shown'[<<"effective", g>>] = shown[<<"effective", g>>]
        /\ \A h \in Closer(layout.cpu_set, g) : shown'[<<"set", h>>] = shown[<<"set", h>>]
    BY <1>2, <2>3, <2>4
  <2>6. NowSet(g)' = NowSet(g)
    BY <1>2, <2>5 DEF NowSet
  <2>7. Closest(layout.cpu_set, g)
    BY <1>2, <2>1, <2>2, <2>5 DEF Closest, There
  <2>8. g \in Restricting
    BY <2>1, <2>6, <2>7 DEF Restricting, SetLevels
  <2>9. SetStood(g)
    BY <1>2, <1>4, <2>2 DEF SetStood, Stood
  <2>10. SetKept(g)
    BY <1>1, <2>8, <2>9 DEF StoodInv
  <2> QED
    BY <1>2, <2>5, <2>6, <2>10 DEF SetKept
<1> QED
  BY <1>3, <1>4

LEMMA FilesStay ==
    ASSUME UNCHANGED <<located, files>>
    PROVE  Limiting' = Limiting /\ Restricting' = Restricting
<1>1. UNCHANGED <<layout, file, barred, shown>>
  BY ShownStays DEF located, files
<1>2. \A g : NowQuota(g)' = NowQuota(g) /\ NowSet(g)' = NowSet(g)
  BY <1>1 DEF NowQuota, NowSet
<1>3. QuotaLevels' = QuotaLevels /\ SetLevels' = SetLevels
  BY <1>1 DEF QuotaLevels, SetLevels, Dirs
<1>4. \A g : Closest(layout.cpu_set, g)' <=> Closest(layout.cpu_set, g)
  BY <1>1 DEF Closest, Closer, Dirs, There
<1>5. Limiting' = Limiting
  BY <1>1, <1>2, <1>3 DEF Limiting
<1>6. Restricting' = Restricting
  BY <1>2, <1>3, <1>4 DEF Restricting
<1> QED
  BY <1>5, <1>6

LEMMA BeginStood == WalkOK /\ Begin => StoodInv'
<1> SUFFICES ASSUME WalkOK, Begin
             PROVE  StoodInv'
  OBVIOUS
<1> SUFFICES /\ \A g \in Limiting : QuotaKept(g)'
             /\ \A g \in Restricting : SetKept(g)'
  <2>1. Limiting' = Limiting /\ Restricting' = Restricting
    <3>1. UNCHANGED <<located, files>>
      BY DEF Begin
    <3> QED
      BY <3>1, FilesStay
  <2> QED
    BY <2>1 DEF StoodInv
<1>1. EnterQuota /\ UNCHANGED layout
  BY DEF Begin, located
<1>2. ASSUME NEW g \in Limiting
      PROVE  QuotaKept(g)'
  <2>1. layout.cpu_quota # None /\ Controller(layout.cpu_quota) /\ g \in Dirs(layout.cpu_quota)
    BY LimitingFacts DEF WalkOK
  <2>2. Len(g) <= Len(layout.cpu_quota.own)
    BY <2>1, DirsFacts
  <2>3. pc' = "quota" /\ Len(g) <= Len(at')
    BY <1>1, <2>1, <2>2 DEF EnterQuota
  <2> QED
    BY <2>3 DEF QuotaKept
<1>3. ASSUME NEW g \in Restricting
      PROVE  SetKept(g)'
  <2>1. layout.cpu_set # None /\ g \in Dirs(layout.cpu_set)
    BY RestrictingFacts DEF WalkOK
  <2>2. pc' = "quota" \/ EnterSet
    BY <1>1 DEF EnterQuota
  <2>3. pc' \in QuotaWalk \/ (pc' = "find" /\ Len(g) <= Len(at'))
    BY <1>1, <2>1, <2>2, NextQuotaBefore DEF QuotaWalk
  <2> QED
    BY <2>3 DEF SetKept
<1> QED
  BY <1>2, <1>3

\* A step of the reader leaves the files, so only what it holds has to be looked at.
LEMMA ReaderStood ==
    ASSUME StoodInv, pc # "idle", UNCHANGED <<located, files, history>>,
           \A g \in Limiting : QuotaKept(g) => QuotaKept(g)',
           \A g \in Restricting : SetKept(g) => SetKept(g)'
    PROVE  StoodInv'
<1>1. Limiting' = Limiting /\ Restricting' = Restricting
  BY FilesStay
<1>2. \A g : (QuotaStood(g)' <=> QuotaStood(g)) /\ (SetStood(g)' <=> SetStood(g))
  BY DEF located, history, QuotaStood, SetStood, Stood, Closer, Dirs
<1> QED
  BY <1>1, <1>2 DEF StoodInv

LEMMA TakeStood ==
    ASSUME WalkOK, StoodInv, pc \in {"quota", "period"}, UNCHANGED <<located, files, reply, history>>,
           NEW q, NEW p, Take(q, p, layout.cpu_quota.v2), p = shown[<<"period", at>>],
           \/ pc = "quota" /\ q = shown[<<"quota", at>>]
           \/ pc = "period" /\ q = partial
    PROVE  StoodInv'
<1>1. /\ layout.cpu_quota # None /\ at \in Dirs(layout.cpu_quota) /\ Controller(layout.cpu_quota)
      /\ unreadable = FALSE /\ UNCHANGED <<layout, file, barred, shown>>
  BY LocatedFacts, ShownStays DEF WalkOK, WalkInv, TypeOK, QuotaWalk, located, files
<1>2. ASSUME NEW g \in Limiting, QuotaKept(g)
      PROVE  QuotaKept(g)'
  <2>1. g \in Dirs(layout.cpu_quota) /\ ~SetsNone(shown[<<"quota", g>>], shown[<<"period", g>>], layout.cpu_quota.v2)
    BY LimitingFacts DEF WalkOK
  <2>2. NowQuota(g)' = NowQuota(g) /\ NowQuota(g) = <<shown[<<"quota", g>>], shown[<<"period", g>>]>>
    BY <1>1 DEF NowQuota
  <2>3. CASE Raise
    BY <2>3 DEF Raise, QuotaKept
  <2>4. CASE /\ NextQuota /\ Usable(NowQuota(g)[1], NowQuota(g)[2])
             /\ [cores |-> NowQuota(g), group |-> g] \in quotas'
    <3>1. quotas' # {} /\ pc' \in QuotaWalk
      BY <2>4 DEF NextQuota, QuotaWalk
    <3> QED
      BY <2>2, <2>4, <3>1 DEF QuotaKept
  <2>5. CASE NextQuota /\ Len(g) < Len(at)
    BY <1>1, <2>1, <2>5, NextQuotaAhead DEF QuotaKept
  <2>6. \/ Raise
        \/ NextQuota /\ quotas \subseteq quotas'
    BY DEF Take
  <2>7. CASE g = at /\ q = shown[<<"quota", g>>]
    <3>1. \/ Raise
          \/ /\ Usable(q, p) /\ NextQuota
             /\ quotas' = quotas \cup {[cores |-> <<q, p>>, group |-> at]}
      BY <2>1, <2>7 DEF Take
    <3> QED
      BY <2>2, <2>3, <2>4, <2>7, <3>1
  <2>8. CASE Usable(NowQuota(g)[1], NowQuota(g)[2]) /\ [cores |-> NowQuota(g), group |-> g] \in quotas
    BY <2>3, <2>4, <2>6, <2>8
  <2>9. \/ Len(g) < Len(at)
        \/ g = at /\ q = shown[<<"quota", g>>]
        \/ Usable(NowQuota(g)[1], NowQuota(g)[2]) /\ [cores |-> NowQuota(g), group |-> g] \in quotas
    <3>1. Len(g) \in Nat /\ Len(at) \in Nat /\ (Len(g) = Len(at) => g = at)
      BY <1>1, <2>1, DirsFacts
    <3>2. CASE pc = "quota"
      BY <1>1, <1>2, <3>1, <3>2 DEF QuotaKept, SetWalk
    <3>3. CASE pc = "period"
      BY <1>1, <1>2, <3>3 DEF QuotaKept, SetWalk
    <3> QED
      BY <3>2, <3>3
  <2> QED
    BY <2>3, <2>5, <2>6, <2>7, <2>8, <2>9
<1>3. ASSUME NEW g \in Restricting
      PROVE  SetKept(g)'
  <2>1. layout.cpu_set # None /\ g \in Dirs(layout.cpu_set)
    BY RestrictingFacts DEF WalkOK
  <2>2. Raise \/ NextQuota
    BY DEF Take
  <2>3. unreadable' \/ pc' \in QuotaWalk \/ (pc' = "find" /\ Len(g) <= Len(at'))
    BY <1>1, <2>1, <2>2, NextQuotaBefore DEF Raise
  <2> QED
    BY <2>3 DEF SetKept
<1> QED
  BY <1>2, <1>3, ReaderStood

LEMMA NextStood == WalkOK /\ StoodInv /\ [Next]_vars => StoodInv'
<1> SUFFICES ASSUME WalkOK, StoodInv, [Next]_vars
             PROVE  StoodInv'
  OBVIOUS
<1>1. CASE Kernel
  BY <1>1, KernelStood
<1>2. CASE Begin
  BY <1>2, BeginStood
<1>3. CASE Judge
  BY <1>3 DEF Judge, StoodInv
<1>4. CASE UNCHANGED vars
  <2>1. UNCHANGED <<located, files, history, pc>>
    BY <1>4 DEF vars
  <2>2. UNCHANGED <<layout, file, barred, shown, pc, at, partial, quotas, quota, cpu_set, unreadable>>
    BY <1>4, ShownStays DEF vars, located, files, raw
  <2>3. \A g : (QuotaKept(g)' <=> QuotaKept(g)) /\ (SetKept(g)' <=> SetKept(g))
    BY <2>2 DEF QuotaKept, SetKept, NowQuota, NowSet, Less
  <2> QED
    BY <2>1, <2>3, ReaderStood DEF StoodInv
<1>5. CASE ReadCpuMax
  <2>1. pc = "quota" /\ Known /\ at \in Groups /\ layout.cpu_quota.v2 = TRUE
    BY <1>5, LocatedFacts DEF ReadCpuMax, WalkOK, WalkInv, TypeOK, QuotaWalk, Controller
  <2>2. Content = shown[<<"quota", at>>]
    BY <2>1, ContentFacts DEF WalkOK, Reading
  <2>3. Take(Content, shown[<<"period", at>>], layout.cpu_quota.v2)
    BY <1>5, <2>1 DEF ReadCpuMax
  <2> QED
    BY <1>5, <2>1, <2>2, <2>3, TakeStood DEF ReadCpuMax
<1>6. CASE ReadPeriod
  <2>1. pc = "period" /\ Known /\ at \in Groups /\ layout.cpu_quota.v2 = FALSE
    BY <1>6, LocatedFacts DEF ReadPeriod, WalkOK, WalkInv, TypeOK, QuotaWalk, Controller
  <2>2. Content = shown[<<"period", at>>]
    BY <2>1, ContentFacts DEF WalkOK, Reading
  <2>3. Take(partial, Content, layout.cpu_quota.v2)
    BY <1>6, <2>1 DEF ReadPeriod
  <2> QED
    BY <1>6, <2>1, <2>2, <2>3, TakeStood DEF ReadPeriod
<1>7. CASE Reject
  BY <1>7, ReaderStood DEF Reject, Raise, QuotaKept, SetKept, Reading
<1>8. CASE ReadQuota
  <2>1. /\ pc = "quota" /\ Known /\ at \in Groups /\ layout.cpu_quota # None
        /\ at \in Dirs(layout.cpu_quota) /\ Controller(layout.cpu_quota) /\ unreadable = FALSE
    BY <1>8, LocatedFacts DEF ReadQuota, WalkOK, WalkInv, TypeOK, QuotaWalk
  <2>2. partial' = shown[<<"quota", at>>]
    BY <1>8, <2>1, ContentFacts DEF ReadQuota, WalkOK, Reading
  <2>3. /\ pc' = "period" /\ UNCHANGED <<located, files, history, at, quotas, quota, cpu_set, unreadable>>
        /\ UNCHANGED <<layout, file, barred, shown>>
    BY <1>8, ShownStays DEF ReadQuota, located, files
  <2>4. ASSUME NEW g \in Limiting, QuotaKept(g)
        PROVE  QuotaKept(g)'
    <3>1. g \in Dirs(layout.cpu_quota)
      BY LimitingFacts DEF WalkOK
    <3>2. Len(g) <= Len(at) => Len(g) < Len(at) \/ g = at
      BY <2>1, <3>1, DirsFacts
    <3> QED
      BY <2>1, <2>2, <2>3, <2>4, <3>2 DEF QuotaKept, NowQuota, QuotaWalk, SetWalk
  <2>5. \A g \in Restricting : SetKept(g)'
    BY <2>3 DEF SetKept, QuotaWalk
  <2> QED
    BY <2>1, <2>3, <2>4, <2>5, ReaderStood
<1>9. CASE GiveNothing
  <2>1. /\ UNCHANGED <<located, files, history, pc, at, partial, quotas, quota, cpu_set, unreadable>>
        /\ UNCHANGED <<layout, file, barred, shown>> /\ pc # "idle"
    BY <1>9, ShownStays DEF GiveNothing, located, files, Reading
  <2>2. \A g : (QuotaKept(g)' <=> QuotaKept(g)) /\ (SetKept(g)' <=> SetKept(g))
    BY <2>1 DEF QuotaKept, SetKept, NowQuota, NowSet, Less
  <2> QED
    BY <2>1, <2>2, ReaderStood
<1>10. CASE FindQuotaUsage
  <2>1. /\ pc = "quota_usage" /\ EnterSet /\ UNCHANGED <<located, files, history, cpu_set, unreadable>>
        /\ UNCHANGED <<layout, file, barred, shown>> /\ quotas # {} /\ unreadable = FALSE
        /\ quota' = [cores |-> Tightest.cores, limit_level |-> Tightest.group,
                     usage_level |-> UsageLevel(layout.cpu_quota, Tightest.group)]
    BY <1>10, ShownStays DEF FindQuotaUsage, located, files, WalkOK, WalkInv, TypeOK
  <2>2. Tightest \in quotas /\ \A y \in quotas : Prefer(Tightest, y)
    BY <2>1, TightestFacts DEF WalkOK
  <2>3. quota' # None /\ quota'.cores = Tightest.cores
    <3>1. quota' \in Raws \cup {None} /\ quota' # None
      <4>1. quota' \in Raws
        BY <2>1, <2>2, UsageFacts DEF Raws, WalkOK, TypeOK
      <4> QED
        BY <4>1, NoneAssumption
    <3> QED
      BY <2>1, <3>1
  <2>4. pc' \in SetWalk \cup {"judge"}
    BY <2>1 DEF EnterSet, SetWalk
  <2>5. ASSUME NEW g \in Limiting, QuotaKept(g)
        PROVE  QuotaKept(g)'
    <3> DEFINE x == [cores |-> NowQuota(g), group |-> g]
    <3>1. Usable(NowQuota(g)[1], NowQuota(g)[2]) /\ x \in quotas
      BY <2>1, <2>5 DEF QuotaKept, SetWalk, QuotaWalk
    <3>2. x.cores \in Cores /\ Tightest.cores \in Cores /\ Prefer(Tightest, x)
      BY <2>2, <3>1 DEF WalkOK, TypeOK
    <3>3. ~Less(NowQuota(g), Tightest.cores)
      BY <3>2, LessOrder DEF Prefer
    <3>4. NowQuota(g)' = NowQuota(g)
      BY <2>1 DEF NowQuota
    <3> QED
      BY <2>3, <2>4, <3>1, <3>3, <3>4 DEF QuotaKept, Less
  <2>6. ASSUME NEW g \in Restricting
        PROVE  SetKept(g)'
    <3>1. layout.cpu_set # None /\ g \in Dirs(layout.cpu_set)
      BY RestrictingFacts DEF WalkOK
    <3> QED
      BY <2>1, <3>1, NextQuotaBefore DEF SetKept
  <2> QED
    BY <2>1, <2>5, <2>6, ReaderStood
<1>11. ASSUME pc \in SetWalk, pc' \in SetWalk \cup {"judge"}, UNCHANGED <<shown, quota>>
       PROVE  \A g : QuotaKept(g) => unreadable \/ QuotaKept(g)'
  BY <1>11 DEF QuotaKept, QuotaWalk, SetWalk, NowQuota, Less
<1>12. pc \in SetWalk => unreadable = FALSE /\ layout.cpu_set # None /\ at \in Dirs(layout.cpu_set)
                         /\ Controller(layout.cpu_set) /\ at \in Groups
  BY LocatedFacts DEF WalkOK, WalkInv, TypeOK, SetWalk
<1>13. CASE FindSet
  <2>1. /\ pc = "find" /\ UNCHANGED <<located, files, history, quota>> /\ UNCHANGED <<layout, file, barred, shown>>
        /\ pc \in SetWalk /\ pc' \in SetWalk \cup {"judge"}
    BY <1>13, ShownStays DEF FindSet, located, files, raw, SetWalk
  <2>2. ASSUME NEW g \in Restricting, SetKept(g)
        PROVE  SetKept(g)'
    <3>1. g \in Dirs(layout.cpu_set) /\ Closest(layout.cpu_set, g) /\ Len(g) <= Len(at)
      BY <1>12, <2>1, <2>2, RestrictingFacts DEF WalkOK, SetKept, QuotaWalk
    <3>2. CASE There("set", at)
      <4>1. g = at
        BY <1>12, <2>1, <3>1, <3>2, DirsFacts DEF Closest, Closer
      <4> QED
        BY <1>13, <2>1, <3>2, <4>1 DEF FindSet, SetKept
    <3>3. CASE ~There("set", at)
      <4>1. g # at
        BY <3>1, <3>3 DEF Closest
      <4>2. Len(g) < Len(at) /\ Len(g) \in Nat /\ Len(at) \in Nat
        BY <1>12, <2>1, <3>1, <4>1, DirsFacts
      <4>3. ~Top(layout.cpu_set, at) /\ Len(Front(at)) = Len(at) - 1
        BY <1>12, <2>1, <3>1, <4>2, DirsFacts DEF Top
      <4> QED
        BY <1>13, <3>3, <4>2, <4>3 DEF FindSet, SetKept
    <3> QED
      BY <3>2, <3>3
  <2> QED
    BY <1>11, <1>12, <2>1, <2>2, ReaderStood
<1>14. CASE ReadSet
  <2>1. /\ pc \in {"effective", "set"} /\ UNCHANGED <<located, files, history, quota, at>>
        /\ UNCHANGED <<layout, file, barred, shown>> /\ Known
        /\ pc \in SetWalk /\ pc' \in SetWalk \cup {"judge"}
    BY <1>14, ShownStays DEF ReadSet, located, files, SetWalk, After
  <2>2. Content = shown[<<pc, at>>]
    BY <1>12, <2>1, ContentFacts DEF WalkOK, Reading
  <2>3. ASSUME NEW g \in Restricting, SetKept(g)
        PROVE  SetKept(g)'
    <3>1. g = at /\ NowSet(g) # None /\ NowSet(g)' = NowSet(g)
      BY <1>12, <2>1, <2>3, RestrictingFacts DEF WalkOK, SetKept, QuotaWalk, NowSet
    <3>2. CASE Content \in {None, Inherited}
      <4>1. pc = "effective"
        BY <1>12, <2>1, <2>2, <2>3, <3>1, <3>2 DEF SetKept, QuotaWalk, NowSet
      <4>2. pc' = "set"
        BY <1>14, <3>2, <4>1 DEF ReadSet, After
      <4> QED
        BY <2>1, <2>2, <3>1, <3>2, <4>1, <4>2 DEF SetKept
    <3>3. CASE Content \notin {None, Inherited}
      <4>1. NowSet(g) = Content
        BY <1>12, <2>1, <2>2, <2>3, <3>1, <3>3 DEF SetKept, QuotaWalk, NowSet, WalkOK, WalkInv
      <4>2. /\ cpu_set' = [cores |-> <<Content, 1>>, limit_level |-> at, usage_level |-> None]
            /\ pc' = "set_usage"
        BY <1>14, <3>3 DEF ReadSet
      <4>3. cpu_set' # None
        BY <1>14, <4>2, ReadSetWalk DEF WalkOK, WalkInv
      <4> QED
        BY <3>1, <4>1, <4>2, <4>3 DEF SetKept
    <3> QED
      BY <3>2, <3>3
  <2> QED
    BY <1>11, <1>12, <2>1, <2>3, ReaderStood
<1>15. CASE FindSetUsage
  <2>1. /\ pc = "set_usage" /\ pc' = "judge" /\ UNCHANGED <<located, files, history, quota>>
        /\ UNCHANGED <<layout, file, barred, shown>>
        /\ pc \in SetWalk /\ pc' \in SetWalk \cup {"judge"}
        /\ cpu_set' = [cpu_set EXCEPT !.usage_level = UsageLevel(layout.cpu_set, at)]
        /\ cpu_set \in Raws
    BY <1>15, ShownStays DEF FindSetUsage, located, files, SetWalk, WalkOK, WalkInv, TypeOK
  <2>2. cpu_set' # None /\ cpu_set'.cores = cpu_set.cores
    <3>1. cpu_set' \in Raws
      BY <1>12, <2>1, UsageFacts DEF Raws, WalkOK, TypeOK
    <3> QED
      BY <2>1, <3>1, NoneAssumption DEF Raws
  <2>3. ASSUME NEW g \in Restricting, SetKept(g)
        PROVE  SetKept(g)'
    <3>1. cpu_set.cores = <<NowSet(g), 1>> /\ NowSet(g)' = NowSet(g)
      BY <1>12, <2>1, <2>3 DEF SetKept, QuotaWalk, NowSet
    <3> QED
      BY <2>1, <2>2, <3>1 DEF SetKept
  <2> QED
    BY <1>11, <1>12, <2>1, <2>3, ReaderStood
<1> QED
  BY <1>1, <1>2, <1>3, <1>4, <1>5, <1>6, <1>7, <1>8, <1>9, <1>10, <1>13, <1>14, <1>15 DEF Next, Reader

----------------------------------------------------------------------------
(* Calls during which nothing changed.                                     *)

\* QuietInv with the files of one state and the reader's variables of another:
\* what it comes to after a step that leaves the files alone.
LEMMA QuietStep ==
    ASSUME UNCHANGED <<located, files, history>>,
           hidden = Needed,
           doubt' => ~There(pc', at') \/ Fails(pc', at'),
           pc' = "period" => partial' = shown[<<"quota", at'>>],
           \A x \in quotas' : x.group \in Limiting /\ x.cores = NowQuota(x.group),
           quota' # None =>
             /\ quota'.limit_level \in Limiting /\ quota'.cores = NowQuota(quota'.limit_level)
             /\ quota'.usage_level = UsageLevel(layout.cpu_quota, quota'.limit_level),
           pc' = "find" => \A g \in Closer(layout.cpu_set, at') : ~There("set", g),
           pc' \in {"effective", "set"} => Closest(layout.cpu_set, at'),
           pc' = "set" /\ ~layout.cpu_set.v2 =>
             shown[<<"effective", at'>>] \in {None, Inherited} /\ ~Fails("effective", at'),
           cpu_set' # None =>
             /\ cpu_set'.limit_level \in Restricting
             /\ cpu_set'.cores = <<NowSet(cpu_set'.limit_level), 1>>
             /\ pc' = "judge" => cpu_set'.usage_level = UsageLevel(layout.cpu_set, cpu_set'.limit_level),
           unreadable' => Blocked
    PROVE  QuietInv'
<1>1. UNCHANGED <<layout, machine, file, mute, barred, shown, hidden, touched>>
  BY ShownStays DEF located, files, history
<1>2. Needed' = Needed
  BY <1>1 DEF Needed, Closest, Closer, Dirs, There, Fails
<1>3. Limiting' = Limiting /\ Restricting' = Restricting
  BY FilesStay
<1>4. Blocked' <=> Blocked
  BY <1>1, <1>2, <1>3 DEF Blocked, NowQuota
<1>5. quota' # None => (quota.usage_level = UsageLevel(layout.cpu_quota, quota.limit_level))'
  BY <1>1 DEF UsageLevel, Counterpart, There, Dirs
<1>6. cpu_set' # None /\ pc' = "judge" =>
        (cpu_set.usage_level = UsageLevel(layout.cpu_set, cpu_set.limit_level))'
  BY <1>1 DEF UsageLevel, Counterpart, There, Dirs
<1>7. cpu_set' # None => (cpu_set.cores = <<NowSet(cpu_set.limit_level), 1>>)'
  BY <1>1 DEF NowSet
<1>8. /\ (\A x \in quotas : x.cores = NowQuota(x.group))'
      /\ quota' # None => (quota.cores = NowQuota(quota.limit_level))'
  BY <1>1 DEF NowQuota
<1>9. /\ pc' = "find" => (\A g \in Closer(layout.cpu_set, at) : ~There("set", g))'
      /\ pc' \in {"effective", "set"} => Closest(layout.cpu_set, at)'
  BY <1>1 DEF Closest, Closer, Dirs, There
<1>10. /\ doubt' => (~There(pc, at) \/ Fails(pc, at))'
       /\ pc' = "set" /\ ~layout.cpu_set.v2 => (~Fails("effective", at))'
  BY <1>1 DEF There, Fails
<1> QED
  BY <1>1, <1>2, <1>3, <1>4, <1>5, <1>6, <1>7, <1>8, <1>9, <1>10 DEF QuietInv

LEMMA EnterQuiet ==
    ASSUME WalkOK, EnterSet
    PROVE  \/ pc' = "judge"
           \/ pc' = "find" /\ layout.cpu_set # None /\ Closer(layout.cpu_set, at') = {}
<1>1. CASE layout.cpu_set = None
  BY <1>1 DEF EnterSet
<1>2. CASE layout.cpu_set # None
  <2>1. Controller(layout.cpu_set)
    BY <1>2, LocatedFacts DEF WalkOK, TypeOK
  <2>2. Closer(layout.cpu_set, layout.cpu_set.own) = {}
    BY <2>1, DirsFacts DEF Closer
  <2> QED
    BY <1>2, <2>2 DEF EnterSet
<1> QED
  BY <1>1, <1>2

LEMMA BeginQuiet == WalkOK /\ Begin => QuietInv'
<1> SUFFICES ASSUME WalkOK, Begin
             PROVE  QuietInv'
  OBVIOUS
<1>1. /\ UNCHANGED <<located, files, raw>> /\ pc = "idle" /\ touched' = {} /\ hidden' = Needed
      /\ EnterQuota
  BY DEF Begin
<1>2. UNCHANGED <<layout, machine, file, mute, barred, shown, doubt, partial, quotas, quota, cpu_set, unreadable>>
  BY <1>1, ShownStays DEF located, files, raw
<1>3. /\ doubt = FALSE /\ quotas = {} /\ quota = None /\ cpu_set = None /\ unreadable = FALSE
  BY <1>1 DEF WalkOK, WalkInv, TypeOK, QuotaWalk, SetWalk, Reading
<1>4. Needed' = Needed
  BY <1>2 DEF Needed, Closest, Closer, Dirs, There, Fails
<1>5. \/ pc' \in {"quota", "judge"}
      \/ pc' = "find" /\ Closer(layout.cpu_set, at') = {}
  BY <1>1, EnterQuiet DEF EnterQuota
<1>6. pc' = "find" => Closer(layout.cpu_set, at)' = {}
  BY <1>2, <1>5 DEF Closer, Dirs
<1> QED
  BY <1>1, <1>2, <1>3, <1>4, <1>5, <1>6 DEF QuietInv

\* The quotas of a walk that goes on, or that raises.
LEMMA TakeQuiet ==
    ASSUME WalkOK, QuietInv, touched = {}, pc \in {"quota", "period"},
           UNCHANGED <<located, files, reply, history>>,
           NEW q, NEW p, Take(q, p, layout.cpu_quota.v2),
           q = shown[<<"quota", at>>], p = shown[<<"period", at>>]
    PROVE  QuietInv'
<1>1. /\ layout.cpu_quota # None /\ at \in Dirs(layout.cpu_quota) /\ NowQuota(at) = <<q, p>>
      /\ unreadable = FALSE /\ quota = None /\ cpu_set = None
      /\ hidden = Needed /\ \A x \in quotas : x.group \in Limiting /\ x.cores = NowQuota(x.group)
  BY DEF WalkOK, WalkInv, TypeOK, QuotaWalk, SetWalk, NowQuota, QuietInv
<1>2. ~SetsNone(q, p, layout.cpu_quota.v2) => at \in Limiting
  BY <1>1 DEF Limiting, QuotaLevels
<1>3. ASSUME NextQuota, Continues, \A x \in quotas' : x.group \in Limiting /\ x.cores = NowQuota(x.group)
      PROVE  QuietInv'
  <2>1. /\ doubt' = FALSE /\ quota' = None /\ cpu_set' = None /\ unreadable' = FALSE
        /\ \/ pc' \in {"quota", "quota_usage", "judge"}
           \/ pc' = "find" /\ Closer(layout.cpu_set, at') = {}
    BY <1>1, <1>3, EnterQuiet DEF NextQuota, Continues
  <2> QED
    BY <1>1, <1>3, <2>1, QuietStep
<1>4. CASE SetsNone(q, p, layout.cpu_quota.v2) /\ UNCHANGED quotas /\ NextQuota /\ Continues
  BY <1>1, <1>3, <1>4
<1>5. CASE /\ ~SetsNone(q, p, layout.cpu_quota.v2) /\ NextQuota /\ Continues
           /\ quotas' = quotas \cup {[cores |-> <<q, p>>, group |-> at]}
  <2>1. \A x \in quotas' : x.group \in Limiting /\ x.cores = NowQuota(x.group)
    BY <1>1, <1>2, <1>5
  <2> QED
    BY <1>3, <1>5, <2>1
<1>6. CASE ~SetsNone(q, p, layout.cpu_quota.v2) /\ ~Usable(q, p) /\ Raise
  <2>1. Blocked
    BY <1>1, <1>2, <1>6 DEF Blocked
  <2> QED
    BY <1>1, <1>6, <2>1, QuietStep DEF Raise
<1> QED
  BY <1>4, <1>5, <1>6 DEF Take

LEMMA RejectQuiet == WalkOK /\ QuietInv /\ touched = {} /\ Reject => QuietInv'
<1> SUFFICES ASSUME WalkOK, QuietInv, touched = {}, Reject
             PROVE  QuietInv'
  OBVIOUS
<1>1. pc \in Reading /\ Raise /\ UNCHANGED <<located, files, history>> /\ hidden = Needed /\ Fails(pc, at)
  BY DEF Reject, SeenAgain, QuietInv, Reading
<1>2. <<pc, at>> \in Needed
  <2>1. There(pc, at) /\ <<pc, at>> \in mute
    BY <1>1 DEF Fails
  <2>2. CASE pc \in {"quota", "period"}
    BY <2>1, <2>2 DEF Needed, WalkOK, WalkInv, QuotaWalk
  <2>3. CASE pc \in {"effective", "set"}
    <3>1. layout.cpu_set # None /\ at \in Dirs(layout.cpu_set) /\ Closest(layout.cpu_set, at)
      BY <2>3 DEF WalkOK, WalkInv, SetWalk, QuietInv
    <3>2. pc = "effective" => ~layout.cpu_set.v2
      BY DEF WalkOK, WalkInv
    <3>3. pc = "set" => \/ layout.cpu_set.v2
                        \/ shown[<<"effective", at>>] \in {None, Inherited} /\ ~Fails("effective", at)
      BY DEF QuietInv
    <3> QED
      BY <2>1, <2>3, <3>1, <3>2, <3>3 DEF Needed
  <2> QED
    BY <1>1, <2>2, <2>3 DEF Reading
<1>3. Blocked
  BY <1>2 DEF Blocked
<1> QED
  BY <1>1, <1>3, QuietStep DEF Raise

LEMMA FindQuotaUsageQuiet == WalkOK /\ QuietInv /\ touched = {} /\ FindQuotaUsage => QuietInv'
<1> SUFFICES ASSUME WalkOK, QuietInv, touched = {}, FindQuotaUsage
             PROVE  QuietInv'
  OBVIOUS
<1>1. /\ pc = "quota_usage" /\ EnterSet /\ quotas' = {}
      /\ UNCHANGED <<located, files, history>> /\ UNCHANGED <<doubt, cpu_set, unreadable>>
      /\ quota' = [cores |-> Tightest.cores, limit_level |-> Tightest.group,
                   usage_level |-> UsageLevel(layout.cpu_quota, Tightest.group)]
  BY DEF FindQuotaUsage
<1>2. quotas # {} /\ doubt = FALSE /\ cpu_set = None /\ unreadable = FALSE /\ hidden = Needed
  BY <1>1 DEF WalkOK, WalkInv, TypeOK, Reading, QuietInv
<1>3. Tightest.group \in Limiting /\ Tightest.cores = NowQuota(Tightest.group)
  BY <1>1, <1>2, TightestFacts DEF WalkOK, QuietInv
<1>4. \/ pc' = "judge"
      \/ pc' = "find" /\ Closer(layout.cpu_set, at') = {}
  BY <1>1, EnterQuiet
<1> QED
  BY <1>1, <1>2, <1>3, <1>4, QuietStep

LEMMA FindSetQuiet == WalkOK /\ QuietInv /\ touched = {} /\ FindSet => QuietInv'
<1> SUFFICES ASSUME WalkOK, QuietInv, touched = {}, FindSet
             PROVE  QuietInv'
  OBVIOUS
<1>1. /\ pc = "find" /\ layout.cpu_set # None /\ at \in Dirs(layout.cpu_set) /\ Controller(layout.cpu_set)
      /\ UNCHANGED <<located, files, history>> /\ UNCHANGED raw
      /\ doubt = FALSE /\ quotas = {} /\ cpu_set = None /\ unreadable = FALSE /\ hidden = Needed
  BY LocatedFacts DEF FindSet, WalkOK, WalkInv, TypeOK, QuotaWalk, SetWalk, Reading, QuietInv
<1>2. UNCHANGED <<doubt, quotas, quota, cpu_set, unreadable, partial>>
  BY <1>1 DEF raw
<1>3. \A g \in Closer(layout.cpu_set, at) : ~There("set", g)
  BY <1>1 DEF QuietInv
<1>4. quota # None =>
        /\ quota.limit_level \in Limiting /\ quota.cores = NowQuota(quota.limit_level)
        /\ quota.usage_level = UsageLevel(layout.cpu_quota, quota.limit_level)
  BY <1>1 DEF QuietInv
<1>5. CASE There("set", at)
  <2>1. pc' = (IF layout.cpu_set.v2 THEN "set" ELSE "effective") /\ at' = at
    BY <1>5 DEF FindSet
  <2>2. Closest(layout.cpu_set, at')
    BY <1>3, <1>5, <2>1 DEF Closest
  <2> QED
    BY <1>1, <1>2, <1>4, <2>1, <2>2, QuietStep
<1>6. CASE ~There("set", at) /\ Top(layout.cpu_set, at)
  BY <1>1, <1>2, <1>4, <1>6, QuietStep DEF FindSet
<1>7. CASE ~There("set", at) /\ ~Top(layout.cpu_set, at)
  <2>1. pc' = "find" /\ at' = Front(at)
    BY <1>7 DEF FindSet
  <2>2. ASSUME NEW g \in Closer(layout.cpu_set, at')
        PROVE  ~There("set", g)
    <3>1. /\ g \in Dirs(layout.cpu_set) /\ Len(g) > Len(at) - 1 /\ Len(g) \in Nat /\ Len(at) \in Nat
          /\ Len(g) = Len(at) => g = at
      BY <1>1, <1>7, <2>1, <2>2, DirsFacts DEF Closer
    <3>2. g = at \/ g \in Closer(layout.cpu_set, at)
      BY <3>1 DEF Closer
    <3> QED
      BY <1>3, <1>7, <3>2
  <2> QED
    BY <1>1, <1>2, <1>4, <2>1, <2>2, QuietStep
<1> QED
  BY <1>5, <1>6, <1>7

LEMMA ReadSetQuiet == WalkOK /\ QuietInv /\ touched = {} /\ ReadSet => QuietInv'
<1> SUFFICES ASSUME WalkOK, QuietInv, touched = {}, ReadSet
             PROVE  QuietInv'
  OBVIOUS
<1>1. /\ pc \in {"effective", "set"} /\ layout.cpu_set # None /\ at \in Dirs(layout.cpu_set)
      /\ at \in Groups /\ Known
      /\ UNCHANGED <<located, files, history>>
      /\ UNCHANGED <<at, quotas, quota, unreadable>> /\ doubt' = FALSE
      /\ quotas = {} /\ cpu_set = None /\ unreadable = FALSE /\ hidden = Needed
      /\ pc = "effective" => ~layout.cpu_set.v2
  BY LocatedFacts DEF ReadSet, WalkOK, WalkInv, TypeOK, QuotaWalk, SetWalk, QuietInv
<1>2. Content = shown[<<pc, at>>] /\ ~Fails(pc, at)
  BY <1>1, ContentFacts DEF WalkOK, Reading
<1>3. /\ Closest(layout.cpu_set, at)
      /\ pc = "set" /\ ~layout.cpu_set.v2 => shown[<<"effective", at>>] \in {None, Inherited}
      /\ quota # None =>
           /\ quota.limit_level \in Limiting /\ quota.cores = NowQuota(quota.limit_level)
           /\ quota.usage_level = UsageLevel(layout.cpu_quota, quota.limit_level)
  BY <1>1 DEF QuietInv
<1>4. CASE Content \in {None, Inherited} /\ pc' = After(pc) /\ UNCHANGED cpu_set
  <2>1. CASE pc = "effective"
    BY <1>1, <1>2, <1>3, <1>4, <2>1, QuietStep DEF After
  <2>2. CASE pc = "set"
    BY <1>1, <1>3, <1>4, <2>2, QuietStep DEF After
  <2> QED
    BY <1>1, <2>1, <2>2
<1>5. CASE /\ Content \notin {None, Inherited} /\ pc' = "set_usage"
           /\ cpu_set' = [cores |-> <<Content, 1>>, limit_level |-> at, usage_level |-> None]
  <2>1. NowSet(at) = Content
    BY <1>1, <1>2, <1>3, <1>5 DEF NowSet
  <2>2. at \in Restricting
    BY <1>1, <1>3, <1>5, <2>1 DEF Restricting, SetLevels
  <2> QED
    BY <1>1, <1>3, <1>5, <2>1, <2>2, QuietStep
<1> QED
  BY <1>4, <1>5 DEF ReadSet

LEMMA NextQuiet == WalkOK /\ QuietInv /\ [Next]_vars => QuietInv'
<1> SUFFICES ASSUME WalkOK, QuietInv, [Next]_vars
             PROVE  QuietInv'
  OBVIOUS
<1>1. CASE Kernel
  BY <1>1 DEF Kernel, Rewrite, Flip, Bar, Change, QuietInv
<1>2. CASE Begin
  BY <1>2, BeginQuiet
<1>3. CASE Judge
  BY <1>3 DEF Judge, QuietInv
<1>4. CASE UNCHANGED vars \/ GiveNothing
  <2>1. /\ UNCHANGED <<located, files, history, pc, at, partial, quotas, quota, cpu_set, unreadable>>
        /\ doubt' => doubt \/ ~There(pc, at) \/ Fails(pc, at)
    BY <1>4 DEF vars, raw, GiveNothing
  <2>2. CASE pc # "idle" /\ touched = {}
    BY <2>1, <2>2, QuietStep DEF QuietInv
  <2>3. CASE pc = "idle" \/ touched # {}
    BY <2>1, <2>3 DEF QuietInv, history
  <2> QED
    BY <2>2, <2>3
<1>5. CASE Reader /\ ~Begin /\ ~Judge /\ ~GiveNothing /\ touched # {}
  <2>1. touched' # {}
    BY <1>5 DEF Reader, ReadCpuMax, ReadQuota, ReadPeriod, Reject, FindQuotaUsage, FindSet, ReadSet,
                FindSetUsage, history
  <2> QED
    BY <2>1 DEF QuietInv
<1>6. CASE touched = {} /\ (ReadCpuMax \/ ReadPeriod)
  <2>1. /\ pc \in {"quota", "period"} /\ Known /\ at \in Groups /\ layout.cpu_quota.v2 \in BOOLEAN
        /\ pc = "period" => partial = shown[<<"quota", at>>] /\ ~layout.cpu_quota.v2
    BY <1>6, LocatedFacts DEF ReadCpuMax, ReadPeriod, WalkOK, WalkInv, TypeOK, QuotaWalk, Controller,
                              QuietInv
  <2>2. Content = shown[<<pc, at>>]
    BY <2>1, ContentFacts DEF WalkOK, Reading
  <2>3. CASE ReadCpuMax
    <3>1. pc = "quota" /\ Take(Content, shown[<<"period", at>>], layout.cpu_quota.v2)
      BY <2>1, <2>3 DEF ReadCpuMax
    <3> QED
      BY <1>6, <2>2, <2>3, <3>1, TakeQuiet DEF ReadCpuMax
  <2>4. CASE ReadPeriod
    <3>1. pc = "period" /\ Take(partial, Content, layout.cpu_quota.v2)
      BY <2>1, <2>4 DEF ReadPeriod
    <3> QED
      BY <1>6, <2>1, <2>2, <2>4, <3>1, TakeQuiet DEF ReadPeriod
  <2> QED
    BY <1>6, <2>3, <2>4
<1>7. CASE touched = {} /\ ReadQuota
  <2>1. /\ pc = "quota" /\ Known /\ at \in Groups
        /\ quota = None /\ cpu_set = None /\ unreadable = FALSE
    BY <1>7, LocatedFacts DEF ReadQuota, WalkOK, WalkInv, TypeOK, QuotaWalk, SetWalk
  <2>2. Content = shown[<<"quota", at>>]
    BY <2>1, ContentFacts DEF WalkOK, Reading
  <2> QED
    BY <1>7, <2>1, <2>2, QuietStep DEF ReadQuota, QuietInv
<1>8. CASE touched = {} /\ FindSetUsage
  <2>1. /\ pc = "set_usage" /\ cpu_set \in Raws /\ cpu_set # None /\ cpu_set.limit_level = at
        /\ unreadable = FALSE /\ quotas = {} /\ doubt = FALSE
        /\ cpu_set' = [cpu_set EXCEPT !.usage_level = UsageLevel(layout.cpu_set, at)]
    BY <1>8 DEF FindSetUsage, WalkOK, WalkInv, TypeOK, QuotaWalk, Reading
  <2>2. /\ cpu_set'.cores = cpu_set.cores /\ cpu_set'.limit_level = at
        /\ cpu_set'.usage_level = UsageLevel(layout.cpu_set, at)
    BY <2>1 DEF Raws
  <2> QED
    BY <1>8, <2>1, <2>2, QuietStep DEF FindSetUsage, QuietInv
<1> QED
  BY <1>1, <1>2, <1>3, <1>4, <1>5, <1>6, <1>7, <1>8, RejectQuiet, FindQuotaUsageQuiet, FindSetQuiet,
     ReadSetQuiet DEF Next, Reader

----------------------------------------------------------------------------
(* The theorems.                                                           *)

LEMMA InitInv == Init => IInv
<1> SUFFICES ASSUME Init
             PROVE  IInv
  OBVIOUS
<1>1. WalkOK
  BY InitWalk
<1> QED
  BY <1>1 DEF Init, IInv, WalkOK, HiddenInv, StoodInv, QuietInv

LEMMA NextInv == IInv /\ [Next]_vars => IInv'
BY NextWalk, NextHidden, NextStood, NextQuiet DEF IInv, WalkOK

\* IInv holds in every state of get_cpu_limit(), whatever the mounts, the files
\* and their changes: the types, what a walk holds at each of its steps, that it
\* keeps every restriction that stood and every file it could not use all call
\* long, and that a walk among files that stay holds just what they say.
THEOREM Invariance == Spec => []IInv
BY InitInv, NextInv, PTL DEF Spec

LEMMA ReturnFacts ==
    ASSUME [Next]_vars, Returns
    PROVE  /\ pc = "judge" /\ reply' = Evaluation
           /\ UNCHANGED <<layout, machine, file, mute, barred, shown>>
<1>1. Judge
  BY DEF Returns, vars, Next, Kernel, Rewrite, Flip, Bar, Change, Reader, Begin, GiveNothing, ReadCpuMax,
         ReadQuota, ReadPeriod, Reject, FindQuotaUsage, FindSet, ReadSet, FindSetUsage, Reading
<1> QED
  BY <1>1, ShownStays DEF Judge, located, files

\* UnreadableReportsNothing, for all values of the constants: a file the answer
\* rests on that was unusable all call long has ended the walk by the time of
\* the judgement, since it stays ahead of it otherwise.
THEOREM UnreadableNothing == Spec => UnreadableReportsNothing
<1>1. IInv /\ [Next]_vars => (Returns /\ hidden # {} =>
                               reply'.limit = None /\ reply'.notices = {"CPU_LIMIT_UNREADABLE"})
  <2> SUFFICES ASSUME IInv, [Next]_vars, Returns, hidden # {}
               PROVE  reply'.limit = None /\ reply'.notices = {"CPU_LIMIT_UNREADABLE"}
    OBVIOUS
  <2>1. pc = "judge" /\ reply' = Evaluation
    BY ReturnFacts
  <2>2. unreadable
    BY <2>1 DEF IInv, HiddenInv, Ahead, QuotaWalk
  <2> QED
    BY <2>1, <2>2 DEF Evaluation, Pending
<1> QED
  BY <1>1, Invariance, PTL DEF Spec, UnreadableReportsNothing

\* The tighter of the restrictions below the machine.
LEMMA TighterFacts ==
    ASSUME TypeOK, Candidates # {}
    PROVE  /\ Tighter \in Candidates /\ Tighter \in {quota, cpu_set} /\ Tighter # None
           /\ Tighter.cores \in Cores /\ Tighter.cores # None
           /\ \A r \in Candidates : r.cores \in Cores /\ ~Less(r.cores, Tighter.cores)
<1>1. \A r \in Candidates : r \in {quota, cpu_set} /\ r # None /\ r \in Raws /\ r.cores \in Cores
  BY DEF Candidates, Restrictions, TypeOK, Raws
<1>2. Candidates \subseteq {quota, cpu_set}
  BY <1>1
<1>3. Tighter \in Candidates
  BY <1>2 DEF Tighter
<1>4. ASSUME NEW r \in Candidates
      PROVE  ~Less(r.cores, Tighter.cores)
  BY <1>1, <1>2, <1>3, LessOrder DEF Tighter
<1> QED
  BY <1>1, <1>3, <1>4, NoneAssumption

\* What is no less than a restriction found is within the answer.
LEMMA FoundWithin ==
    ASSUME TypeOK, ~unreadable, NEW r \in Restrictions, NEW x \in Cores, ~Less(x, r.cores)
    PROVE  Within(Evaluation, x)
<1>1. r \in Raws /\ r.cores \in Cores /\ machine \in (Nat \ {0}) \cup {None}
  BY NumberAssumption DEF Restrictions, TypeOK, Raws
<1>2. CASE Covers(r.cores)
  BY <1>1, <1>2, CoversMore DEF Within
<1>3. CASE ~Covers(r.cores)
  <2>1. r \in Candidates
    BY <1>3 DEF Candidates
  <2>2. Tighter.cores \in Cores /\ Tighter.cores # None /\ ~Less(r.cores, Tighter.cores)
    BY <2>1, TighterFacts
  <2>3. ~Less(x, Tighter.cores)
    BY <1>1, <2>2, LessOrder
  <2>4. Evaluation.limit = Tighter.cores
    BY <2>1 DEF Evaluation
  <2> QED
    BY <2>2, <2>3, <2>4 DEF Within
<1> QED
  BY <1>2, <1>3

\* A restriction that stood and what the judgement is left with.
LEMMA StoodFacts ==
    ASSUME IInv, pc = "judge", ~unreadable
    PROVE  /\ \A g \in Limiting : QuotaStood(g) =>
                /\ Usable(NowQuota(g)[1], NowQuota(g)[2]) /\ NowQuota(g) \in Cores
                /\ quota \in Restrictions /\ ~Less(NowQuota(g), quota.cores)
           /\ \A g \in Restricting : SetStood(g) =>
                /\ <<NowSet(g), 1>> \in Cores
                /\ cpu_set \in Restrictions /\ cpu_set.cores = <<NowSet(g), 1>>
<1>1. \A g \in Limiting : QuotaStood(g) => QuotaKept(g)
  BY DEF IInv, StoodInv
<1>2. \A g \in Restricting : SetStood(g) => SetKept(g)
  BY DEF IInv, StoodInv
<1>3. \A g : Usable(NowQuota(g)[1], NowQuota(g)[2]) => NowQuota(g) \in Cores
  BY DEF Usable, NowQuota, Cores
<1>4. cpu_set # None => cpu_set.cores \in Cores
  BY DEF IInv, TypeOK, Raws
<1> QED
  BY <1>1, <1>2, <1>3, <1>4 DEF QuotaKept, SetKept, QuotaWalk, Restrictions

\* NeverLooser, for all values of the constants: a restriction that stood for a
\* call is no less than one the walk is left with, and the judgement takes the
\* least of those below the machine.
THEOREM Looser == Spec => NeverLooser
<1>1. IInv /\ [Next]_vars =>
        (Returns /\ ~unreadable =>
           /\ \A g \in Limiting : QuotaStood(g) => Within(reply', NowQuota(g))
           /\ \A g \in Restricting : SetStood(g) => Within(reply', <<NowSet(g), 1>>))
  <2> SUFFICES ASSUME IInv, [Next]_vars, Returns, ~unreadable
               PROVE  /\ \A g \in Limiting : QuotaStood(g) => Within(reply', NowQuota(g))
                      /\ \A g \in Restricting : SetStood(g) => Within(reply', <<NowSet(g), 1>>)
    OBVIOUS
  <2>1. pc = "judge" /\ reply' = Evaluation /\ TypeOK
    BY ReturnFacts DEF IInv
  <2>2. ASSUME NEW g \in Limiting, QuotaStood(g)
        PROVE  Within(Evaluation, NowQuota(g))
    BY <2>1, <2>2, StoodFacts, FoundWithin
  <2>3. ASSUME NEW g \in Restricting, SetStood(g)
        PROVE  Within(Evaluation, <<NowSet(g), 1>>)
    <3>1. /\ <<NowSet(g), 1>> \in Cores /\ cpu_set \in Restrictions
          /\ cpu_set.cores = <<NowSet(g), 1>>
      BY <2>1, <2>3, StoodFacts
    <3>2. ~Less(<<NowSet(g), 1>>, cpu_set.cores)
      BY <3>1, LessOrder
    <3> QED
      BY <2>1, <3>1, <3>2, FoundWithin
  <2> QED
    BY <2>1, <2>2, <2>3
<1> QED
  BY <1>1, Invariance, PTL DEF Spec, NeverLooser

\* A prefix of a sequence is one of its prefixes and what comes after that.
LEMMA Rejoin ==
  ASSUME NEW S, NEW own \in Seq(S), NEW root \in Seq(S), IsPrefix(root, own),
         NEW n \in Len(root)..Len(own)
  PROVE  root \o SubSeq(SubSeq(own, 1, n), Len(root) + 1, n) = SubSeq(own, 1, n)
<1> DEFINE g == SubSeq(own, 1, n)
           W == SubSeq(g, Len(root) + 1, n)
<1>1. /\ Len(own) \in Nat /\ Len(root) \in Nat /\ Len(root) <= n /\ n <= Len(own) /\ n \in Nat
      /\ \A i \in 1..Len(own) : own[i] \in S
  BY LenProperties, ElementOfSeq DEF IsPrefix
<1>2. g \in Seq(S) /\ Len(g) = n /\ \A i \in 1..n : g[i] = own[i]
  <2>1. \A i \in 1..n : own[i] \in S
    BY <1>1
  <2>2. /\ g \in Seq(S) /\ Len(g) = (IF 1 <= n THEN n - 1 + 1 ELSE 0)
        /\ \A i \in 1..(n - 1 + 1) : g[i] = own[1 + i - 1]
    BY <1>1, <2>1, SubSeqProperties
  <2> QED
    BY <1>1, <2>2
<1>3. /\ W \in Seq(S) /\ Len(W) = n - Len(root)
      /\ \A i \in 1..(n - Len(root)) : W[i] = g[Len(root) + i]
  <2>1. \A i \in (Len(root) + 1)..n : g[i] \in S
    BY <1>1, <1>2
  <2>2. /\ W \in Seq(S)
        /\ Len(W) = (IF Len(root) + 1 <= n THEN n - (Len(root) + 1) + 1 ELSE 0)
        /\ \A i \in 1..(n - (Len(root) + 1) + 1) : W[i] = g[(Len(root) + 1) + i - 1]
    BY <1>1, <2>1, SubSeqProperties
  <2>3. n - (Len(root) + 1) + 1 = n - Len(root)
    BY <1>1
  <2> QED
    BY <1>1, <2>2, <2>3
<1>4. \A i \in 1..Len(root) : root[i] = own[i]
  <2>1. SubSeq(root, 1, Len(root)) = SubSeq(own, 1, Len(root))
    BY DEF IsPrefix
  <2>2. \A i \in 1..Len(root) : root[i] \in S /\ own[i] \in S
    BY <1>1, ElementOfSeq
  <2>3. \A i \in 1..(Len(root) - 1 + 1) : SubSeq(root, 1, Len(root))[i] = root[1 + i - 1]
    BY <1>1, <2>2, SubSeqProperties
  <2>4. \A i \in 1..(Len(root) - 1 + 1) : SubSeq(own, 1, Len(root))[i] = own[1 + i - 1]
    BY <1>1, <2>2, SubSeqProperties
  <2> QED
    BY <1>1, <2>1, <2>3, <2>4
<1>5. /\ root \o W \in Seq(S) /\ Len(root \o W) = n
      /\ \A i \in 1..n : (root \o W)[i] = IF i <= Len(root) THEN root[i] ELSE W[i - Len(root)]
  BY <1>1, <1>3, ConcatProperties
<1>6. \A i \in 1..n : (root \o W)[i] = g[i]
  BY <1>1, <1>2, <1>3, <1>4, <1>5
<1> QED
  BY <1>2, <1>5, <1>6, SeqEqual

\* A mount shows the group its counterpart under an equal mount shows.
LEMMA CounterpartFacts ==
    ASSUME NEW c, Controller(c), NEW usage, Controller(usage), c.root = usage.root,
           NEW g \in Dirs(c), Counterpart(c, g, usage) # None
    PROVE  Counterpart(c, g, usage) = g /\ IsPrefix(g, usage.own)
<1>1. /\ c.own \in Seq(STRING) /\ c.root \in Seq(STRING) /\ IsPrefix(c.root, c.own)
      /\ Len(g) \in Len(c.root)..Len(c.own) /\ g = SubSeq(c.own, 1, Len(g))
  BY DirsFacts DEF Controller
<1>2. usage.root \o SubSeq(g, Len(c.root) + 1, Len(g)) = g
  <2>1. PICK n \in Len(c.root)..Len(c.own) : n = Len(g) /\ g = SubSeq(c.own, 1, n)
    BY <1>1
  <2>2. c.root \o SubSeq(SubSeq(c.own, 1, n), Len(c.root) + 1, n) = SubSeq(c.own, 1, n)
    BY <1>1, Rejoin
  <2> QED
    BY <2>1, <2>2
<1>3. Counterpart(c, g, usage) = g /\ g \in Dirs(usage)
  BY <1>2 DEF Counterpart
<1> QED
  BY <1>3, DirsFacts

\* The accounting and the limits are mounted alike: where both are located, the
\* mount points show one group.
SameMount ==
    \A lay \in Layouts : \A m \in {"cpu_quota", "cpu_set"} :
      lay[m] # None /\ lay.cpu_usage # None => lay[m].root = lay.cpu_usage.root

\* RatePairsScope, for all layouts whose mounts show one group: the path below
\* the mount point names the same group on both sides.  Where the mounts show
\* different groups it does not hold.
THEOREM RateScope ==
    ASSUME SameMount
    PROVE  Spec => RatePairsScope
<1>1. IInv /\ [Next]_vars =>
        (Returns /\ reply'.usage_level # None =>
           /\ reply'.usage_level = reply'.limit_level
           /\ IsPrefix(reply'.usage_level, layout.cpu_usage.own))
  <2> SUFFICES ASSUME IInv, [Next]_vars, Returns, reply'.usage_level # None
               PROVE  /\ reply'.usage_level = reply'.limit_level
                      /\ IsPrefix(reply'.usage_level, layout.cpu_usage.own)
    OBVIOUS
  <2>1. /\ reply' = Evaluation /\ TypeOK /\ layout \in Layouts
        /\ quota # None => Found(quota, layout.cpu_quota)
        /\ cpu_set # None => Found(cpu_set, layout.cpu_set)
    BY ReturnFacts DEF IInv, TypeOK, WalkInv
  <2>2. /\ Candidates # {} /\ reply'.limit_level = Tighter.limit_level
        /\ reply'.usage_level = Tighter.usage_level
    BY <2>1 DEF Evaluation, Pending
  <2>3. PICK m \in {"cpu_quota", "cpu_set"} : Found(Tighter, layout[m])
    BY <2>1, <2>2, TighterFacts
  <2>4. /\ layout[m] # None /\ layout.cpu_usage # None /\ Tighter.limit_level \in Dirs(layout[m])
        /\ Tighter.usage_level = Counterpart(layout[m], Tighter.limit_level, layout.cpu_usage)
    BY <2>2, <2>3 DEF Found
  <2>5. /\ Controller(layout[m]) /\ Controller(layout.cpu_usage)
        /\ layout[m].root = layout.cpu_usage.root
    BY <2>1, <2>4, LocatedFacts DEF SameMount
  <2> QED
    BY <2>2, <2>4, <2>5, CounterpartFacts
<1> QED
  BY <1>1, Invariance, PTL DEF Spec, RatePairsScope

\* What the judgement is left with by a call during which nothing changed.
LEMMA QuietFacts ==
    ASSUME IInv, pc = "judge", touched = {}
    PROVE  /\ unreadable <=> Blocked
           /\ quota # None =>
                /\ quota.limit_level \in Limiting /\ quota.cores = NowQuota(quota.limit_level)
                /\ quota.usage_level = UsageLevel(layout.cpu_quota, quota.limit_level)
           /\ cpu_set # None =>
                /\ cpu_set.limit_level \in Restricting
                /\ cpu_set.cores = <<NowSet(cpu_set.limit_level), 1>>
                /\ cpu_set.usage_level = UsageLevel(layout.cpu_set, cpu_set.limit_level)
           /\ ~unreadable => \A g \in Limiting :
                NowQuota(g) \in Cores /\ quota \in Restrictions /\ ~Less(NowQuota(g), quota.cores)
           /\ ~unreadable => \A g \in Restricting :
                /\ <<NowSet(g), 1>> \in Cores
                /\ cpu_set \in Restrictions /\ cpu_set.cores = <<NowSet(g), 1>>
<1>1. \A g : QuotaStood(g) /\ SetStood(g)
  BY DEF QuotaStood, SetStood, Stood
<1>2. Blocked => unreadable
  <2>1. Needed # {} => unreadable
    BY DEF IInv, QuietInv, HiddenInv, Ahead, QuotaWalk
  <2>2. \A g \in Limiting : ~Usable(NowQuota(g)[1], NowQuota(g)[2]) => unreadable
    BY <1>1, StoodFacts
  <2> QED
    BY <2>1, <2>2 DEF Blocked
<1>3. unreadable => Blocked
  BY DEF IInv, QuietInv
<1> QED
  BY <1>1, <1>2, <1>3, StoodFacts DEF IInv, QuietInv

LEMMA QuietReply ==
    ASSUME IInv, pc = "judge", touched = {}
    PROVE  ExactReply(Evaluation)
<1> DEFINE all == {[cores |-> NowQuota(g), group |-> g, chain |-> layout.cpu_quota] : g \in Limiting}
                    \cup {[cores |-> <<NowSet(g), 1>>, group |-> g, chain |-> layout.cpu_set] :
                             g \in Restricting}
           binding == {x \in all : ~Covers(x.cores)}
<1>1. TypeOK /\ layout \in Layouts /\ machine \in (Nat \ {0}) \cup {None}
  BY NumberAssumption DEF IInv, TypeOK
<1>2. CASE unreadable
  <2>1. Blocked /\ Evaluation.notices = {"CPU_LIMIT_UNREADABLE"}
    BY <1>2, QuietFacts DEF Evaluation, Pending
  <2> QED
    BY <2>1 DEF ExactReply
<1>3. CASE ~unreadable
  <2>1. ~Blocked
    BY <1>3, QuietFacts
  <2>2. /\ Evaluation.notices = Notices
        /\ Candidates = {} => Evaluation.limit = None
        /\ Candidates # {} => /\ Evaluation.limit = Tighter.cores
                              /\ Evaluation.limit_level = Tighter.limit_level
                              /\ Evaluation.usage_level = Tighter.usage_level
    BY <1>3 DEF Evaluation, Pending
  <2>3. ASSUME NEW r \in Candidates
        PROVE  \E x \in binding : /\ x.cores = r.cores /\ x.group = r.limit_level
                                  /\ r.usage_level = UsageLevel(x.chain, x.group)
    <3>1. ~Covers(r.cores) /\ r # None /\ r \in {quota, cpu_set}
      BY DEF Candidates, Restrictions
    <3>2. CASE r = quota
      <4> DEFINE x == [cores |-> NowQuota(quota.limit_level), group |-> quota.limit_level,
                       chain |-> layout.cpu_quota]
      <4>1. /\ x \in all /\ x.cores = quota.cores /\ x.group = quota.limit_level
            /\ quota.usage_level = UsageLevel(x.chain, x.group)
        BY <3>1, <3>2, QuietFacts
      <4> QED
        BY <3>1, <3>2, <4>1
    <3>3. CASE r = cpu_set
      <4> DEFINE x == [cores |-> <<NowSet(cpu_set.limit_level), 1>>, group |-> cpu_set.limit_level,
                       chain |-> layout.cpu_set]
      <4>1. /\ x \in all /\ x.cores = cpu_set.cores /\ x.group = cpu_set.limit_level
            /\ cpu_set.usage_level = UsageLevel(x.chain, x.group)
        BY <3>1, <3>3, QuietFacts
      <4> QED
        BY <3>1, <3>3, <4>1
    <3> QED
      BY <3>1, <3>2, <3>3
  <2>4. ASSUME NEW x \in binding
        PROVE  Candidates # {} /\ ~Less(x.cores, Tighter.cores)
    <3>1. PICK r \in Restrictions : x.cores \in Cores /\ ~Less(x.cores, r.cores)
      <4>1. CASE \E g \in Limiting : x.cores = NowQuota(g)
        BY <1>3, <4>1, QuietFacts
      <4>2. CASE \E g \in Restricting : x.cores = <<NowSet(g), 1>>
        BY <1>3, <4>2, QuietFacts, LessOrder
      <4> QED
        BY <4>1, <4>2
    <3>2. r.cores \in Cores
      BY <1>1 DEF Restrictions, TypeOK, Raws
    <3>3. ~Covers(r.cores)
      BY <1>1, <3>1, <3>2, CoversMore
    <3>4. r \in Candidates
      BY <3>3 DEF Candidates
    <3>5. Tighter.cores \in Cores /\ ~Less(r.cores, Tighter.cores)
      BY <1>1, <3>4, TighterFacts
    <3>6. ~Less(x.cores, Tighter.cores)
      BY <3>1, <3>2, <3>5, LessOrder
    <3> QED
      BY <3>4, <3>6
  <2>5. binding = {} <=> Candidates = {}
    BY <2>3, <2>4
  <2>6. Candidates # {} => Tighter \in Candidates /\ Tighter.cores # None
    BY <1>1, TighterFacts
  <2>7. "CPU_LIMIT_UNREADABLE" \notin Notices
    BY DEF Notices
  <2>8. "CPU_USAGE_SCOPE_MISMATCH" \in Notices <=> Candidates # {} /\ Tighter.usage_level = None
    BY DEF Notices
  <2>9. "CPU_METRICS_UNAVAILABLE" \in Notices <=> layout.interface = None
    <3>1. layout.interface = None => quota = None /\ cpu_set = None
      BY <1>1, LocatedFacts DEF IInv, WalkInv, Found
    <3>2. "CPU_METRICS_UNAVAILABLE" \in Notices <=> Restrictions = {} /\ layout.interface = None
      BY DEF Notices
    <3> QED
      BY <3>1, <3>2 DEF Restrictions
  <2> HIDE DEF binding
  <2>10. /\ binding = {} <=> Evaluation.limit = None
         /\ \A x \in binding : ~Less(x.cores, Evaluation.limit)
         /\ binding # {} =>
              /\ \E x \in binding : /\ x.cores = Evaluation.limit /\ x.group = Evaluation.limit_level
                                    /\ Evaluation.usage_level = UsageLevel(x.chain, x.group)
              /\ "CPU_USAGE_SCOPE_MISMATCH" \in Evaluation.notices <=> Evaluation.usage_level = None
    BY <2>2, <2>3, <2>4, <2>5, <2>6, <2>8
  <2>11. Evaluation.notices # {"CPU_LIMIT_UNREADABLE"}
    BY <2>2, <2>7
  <2>12. "CPU_METRICS_UNAVAILABLE" \in Evaluation.notices <=> layout.interface = None
    BY <2>2, <2>9
  <2> QED
    BY <2>1, <2>10, <2>11, <2>12, Zenon DEF ExactReply, binding
<1> QED
  BY <1>2, <1>3

\* QuietExact, for all values of the constants: a call during which no file
\* changed answers with just what the files say, or that it cannot tell.
THEOREM Exact == Spec => QuietExact
<1>1. IInv /\ [Next]_vars => (Returns /\ touched = {} => ExactReply(reply'))
  BY ReturnFacts, QuietReply
<1> QED
  BY <1>1, Invariance, PTL DEF Spec, QuietExact

=============================================================================
