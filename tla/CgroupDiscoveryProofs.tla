----------------------- MODULE CgroupDiscoveryProofs -----------------------
(***************************************************************************)
(* Theorems about CgroupDiscovery, for any machines, mounts and trees of   *)
(* groups and any number of changes.                                       *)
(***************************************************************************)
EXTENDS CgroupDiscovery, TLAPS, SequenceTheorems, FiniteSetTheorems, WellFoundedInduction

\* A prefix and a part of what comes after it make a longer prefix.
LEMMA Rejoin ==
  ASSUME NEW S, NEW own \in Seq(S), NEW root \in Seq(S), IsPrefix(root, own),
         NEW n \in 0..(Len(own) - Len(root))
  PROVE  root \o SubSeq(SubSeq(own, Len(root) + 1, Len(own)), 1, n) = SubSeq(own, 1, Len(root) + n)
<1> DEFINE W == SubSeq(own, Len(root) + 1, Len(own))
           P == SubSeq(W, 1, n)
           Q == SubSeq(own, 1, Len(root) + n)
<1>0. /\ Len(own) \in Nat /\ Len(root) \in Nat /\ Len(root) <= Len(own)
      /\ \A i \in 1..Len(own) : own[i] \in S
      /\ \A i \in 1..Len(root) : root[i] \in S
  BY LenProperties, ElementOfSeq DEF IsPrefix
<1>1. /\ W \in Seq(S)
      /\ Len(W) = Len(own) - Len(root)
      /\ \A i \in 1..(Len(own) - Len(root)) : W[i] = own[Len(root) + i]
  <2>1. \A i \in (Len(root) + 1)..Len(own) : own[i] \in S
    BY <1>0
  <2>2. /\ W \in Seq(S)
        /\ Len(W) = IF Len(root) + 1 <= Len(own) THEN Len(own) - (Len(root) + 1) + 1 ELSE 0
        /\ \A i \in 1..(Len(own) - (Len(root) + 1) + 1) : W[i] = own[(Len(root) + 1) + i - 1]
    BY <1>0, <2>1, SubSeqProperties
  <2>3. Len(own) - (Len(root) + 1) + 1 = Len(own) - Len(root)
    BY <1>0
  <2> QED
    BY <1>0, <2>2, <2>3
<1>2. /\ P \in Seq(S) /\ Len(P) = n
      /\ \A i \in 1..n : P[i] = W[i]
  <2>1. \A i \in 1..n : W[i] \in S
    BY <1>0, <1>1
  <2>2. n \in Nat /\ 1 \in Int
    BY <1>0
  <2>3. /\ P \in Seq(S) /\ Len(P) = (IF 1 <= n THEN n - 1 + 1 ELSE 0)
        /\ \A i \in 1..(n - 1 + 1) : P[i] = W[1 + i - 1]
    BY <2>1, <2>2, SubSeqProperties
  <2> QED
    BY <2>2, <2>3
<1>3. /\ Q \in Seq(S) /\ Len(Q) = Len(root) + n
      /\ \A i \in 1..(Len(root) + n) : Q[i] = own[i]
  <2>1. /\ \A i \in 1..(Len(root) + n) : own[i] \in S
        /\ Len(root) + n \in Nat
    BY <1>0
  <2>2. /\ Q \in Seq(S)
        /\ Len(Q) = (IF 1 <= Len(root) + n THEN Len(root) + n - 1 + 1 ELSE 0)
        /\ \A i \in 1..(Len(root) + n - 1 + 1) : Q[i] = own[1 + i - 1]
    BY <2>1, SubSeqProperties
  <2> QED
    BY <2>1, <2>2
<1>4. \A i \in 1..Len(root) : root[i] = own[i]
  <2>1. SubSeq(root, 1, Len(root)) = SubSeq(own, 1, Len(root))
    BY DEF IsPrefix
  <2>2. \A i \in 1..(Len(root) - 1 + 1) : SubSeq(root, 1, Len(root))[i] = root[1 + i - 1]
    BY <1>0, SubSeqProperties
  <2>3. \A i \in 1..Len(root) : own[i] \in S
    BY <1>0
  <2>4. \A i \in 1..(Len(root) - 1 + 1) : SubSeq(own, 1, Len(root))[i] = own[1 + i - 1]
    BY <1>0, <2>3, SubSeqProperties
  <2> QED
    BY <1>0, <2>1, <2>2, <2>4
<1>5. /\ root \o P \in Seq(S) /\ Len(root \o P) = Len(root) + n
      /\ \A i \in 1..(Len(root) + n) : (root \o P)[i] = IF i <= Len(root) THEN root[i] ELSE P[i - Len(root)]
  BY <1>2, ConcatProperties
<1>6. \A i \in 1..(Len(root) + n) : (root \o P)[i] = Q[i]
  BY <1>0, <1>1, <1>2, <1>3, <1>4, <1>5
<1> QED
  BY <1>3, <1>5, <1>6, SeqEqual

\* Cutting a prefix of a sequence again.
LEMMA PrefixOfPrefix ==
  ASSUME NEW S, NEW own \in Seq(S), NEW n \in 0..Len(own)
  PROVE  /\ SubSeq(own, 1, n) \in Seq(S)
         /\ Len(SubSeq(own, 1, n)) = n
         /\ IsPrefix(SubSeq(own, 1, n), own)
         /\ n > 0 => Front(SubSeq(own, 1, n)) = SubSeq(own, 1, n - 1)
<1> DEFINE Q == SubSeq(own, 1, n)
<1>0. /\ Len(own) \in Nat /\ n \in Nat
      /\ \A i \in 1..Len(own) : own[i] \in S
  BY LenProperties, ElementOfSeq
<1>1. \A k \in 0..Len(own) :
        /\ SubSeq(own, 1, k) \in Seq(S) /\ Len(SubSeq(own, 1, k)) = k
        /\ \A i \in 1..k : SubSeq(own, 1, k)[i] = own[i]
  <2> TAKE k \in 0..Len(own)
  <2>1. k \in Nat /\ \A i \in 1..k : own[i] \in S
    BY <1>0
  <2>2. /\ SubSeq(own, 1, k) \in Seq(S)
        /\ Len(SubSeq(own, 1, k)) = (IF 1 <= k THEN k - 1 + 1 ELSE 0)
        /\ \A i \in 1..(k - 1 + 1) : SubSeq(own, 1, k)[i] = own[1 + i - 1]
    BY <2>1, SubSeqProperties
  <2> QED
    BY <2>1, <2>2
<1>2. \A k \in 0..n : SubSeq(Q, 1, k) = SubSeq(own, 1, k)
  <2> TAKE k \in 0..n
  <2>1. k \in Nat /\ \A i \in 1..k : Q[i] \in S /\ Q[i] = own[i]
    BY <1>0, <1>1
  <2>2. /\ SubSeq(Q, 1, k) \in Seq(S)
        /\ Len(SubSeq(Q, 1, k)) = (IF 1 <= k THEN k - 1 + 1 ELSE 0)
        /\ \A i \in 1..(k - 1 + 1) : SubSeq(Q, 1, k)[i] = Q[1 + i - 1]
    BY <2>1, SubSeqProperties
  <2>3. /\ SubSeq(own, 1, k) \in Seq(S) /\ Len(SubSeq(own, 1, k)) = k
        /\ \A i \in 1..k : SubSeq(own, 1, k)[i] = own[i]
    BY <1>0, <1>1
  <2>4. /\ Len(SubSeq(Q, 1, k)) = Len(SubSeq(own, 1, k))
        /\ \A i \in 1..Len(SubSeq(Q, 1, k)) : SubSeq(Q, 1, k)[i] = SubSeq(own, 1, k)[i]
    BY <2>1, <2>2, <2>3
  <2> QED
    BY <2>2, <2>3, <2>4, SeqEqual
<1>3. Q \in Seq(S) /\ Len(Q) = n
  BY <1>1
<1>4. IsPrefix(Q, own)
  BY <1>0, <1>2, <1>3 DEF IsPrefix
<1>5. n > 0 => Front(Q) = SubSeq(own, 1, n - 1)
  BY <1>0, <1>2, <1>3 DEF Front
<1> QED
  BY <1>3, <1>4, <1>5

\* What the machine is made of.
LEMMA MachineFacts ==
  ASSUME TypeOK
  PROVE  /\ \A h \in DOMAIN machine.own : machine.own[h] \in Seq(Names)
         /\ \A mount \in Mounts : mount.root \in Seq(Names)
         /\ machine.mounts \in Seq(Mounts)
         /\ None \notin Mounts /\ None \notin Seq(Mounts \cup {None})
<1>1. Machine(machine)
  BY MachineAssumption DEF TypeOK
<1>2. None \notin Mounts /\ None \notin Seq(Mounts \cup {None})
  BY NoneAssumption DEF TypeOK, Mounts
<1>3. \A mount \in Mounts : mount.root \in Seq(Names)
  BY <1>1 DEF Machine, Mounts
<1> QED
  BY <1>1, <1>2, <1>3 DEF Machine, Mounts

\* The chain of a mount that shows the process: its group and the ancestors of
\* it down to the root of the mount.
LEMMA ChainFacts ==
  ASSUME TypeOK, NEW mount, ShowsOwn(mount)
  PROVE  /\ machine.own[mount.hierarchy] \in Seq(Names)
         /\ Deepest(mount) = machine.own[mount.hierarchy]
         /\ machine.own[mount.hierarchy] \in Dirs(mount)
         /\ \A g \in Dirs(mount) :
              /\ g \in Seq(Names)
              /\ IsPrefix(g, machine.own[mount.hierarchy])
              /\ g # mount.root =>
                   Front(g) \in Dirs(mount) /\ g # <<>> /\ Len(Front(g)) < Len(g)
<1> DEFINE own == machine.own[mount.hierarchy]
           root == mount.root
           rest == Len(own) - Len(root)
<1>1. /\ own \in Seq(Names) /\ root \in Seq(Names)
      /\ IsPrefix(root, own)
  BY MachineFacts DEF ShowsOwn
<1>2. /\ Len(own) \in Nat /\ Len(root) \in Nat /\ Len(root) <= Len(own)
      /\ rest \in Nat /\ Len(root) + rest = Len(own)
  BY <1>1, LenProperties DEF IsPrefix
<1> HIDE DEF own, root, rest
<1>3. Within(mount) = SubSeq(own, Len(root) + 1, Len(own)) /\ Len(Within(mount)) = rest
  <2>1. Within(mount) = SubSeq(own, Len(root) + 1, Len(own))
    BY <1>1 DEF Within, own, root
  <2>2. \A i \in (Len(root) + 1)..Len(own) : own[i] \in Names
    BY <1>1, <1>2, ElementOfSeq
  <2>3. Len(SubSeq(own, Len(root) + 1, Len(own)))
          = IF Len(root) + 1 <= Len(own) THEN Len(own) - (Len(root) + 1) + 1 ELSE 0
    BY <1>2, <2>2, SubSeqProperties
  <2> QED
    BY <1>2, <2>1, <2>3 DEF rest
<1>4. \A n \in 0..rest : root \o SubSeq(Within(mount), 1, n) = SubSeq(own, 1, Len(root) + n)
  BY <1>1, <1>3, Rejoin DEF rest
<1>5. Dirs(mount) = {SubSeq(own, 1, Len(root) + n) : n \in 0..rest}
  BY <1>3, <1>4 DEF Dirs, root
<1>6. SubSeq(own, 1, Len(own)) = own
  BY <1>1, SubSeqFull
<1>7. Deepest(mount) = own
  <2>1. SubSeq(Within(mount), 1, rest) = Within(mount)
    <3>1. Within(mount) \in Seq(Names)
      <4>1. \A i \in (Len(root) + 1)..Len(own) : own[i] \in Names
        BY <1>1, <1>2, ElementOfSeq
      <4> QED
        BY <1>2, <1>3, <4>1, SubSeqProperties
    <3> QED
      BY <1>3, <3>1, SubSeqFull
  <2>2. rest \in 0..rest
    BY <1>2
  <2>3. root \o Within(mount) = SubSeq(own, 1, Len(root) + rest)
    BY <1>4, <2>1, <2>2
  <2>4. root \o Within(mount) = own
    BY <1>2, <1>6, <2>3
  <2> QED
    BY <2>4 DEF Deepest, root
<1>8. own \in Dirs(mount)
  <2>1. own = SubSeq(own, 1, Len(root) + rest) /\ rest \in 0..rest
    BY <1>2, <1>6
  <2> QED
    BY <1>5, <2>1
<1>9. ASSUME NEW g \in Dirs(mount)
      PROVE  /\ g \in Seq(Names)
             /\ IsPrefix(g, own)
             /\ g # root => Front(g) \in Dirs(mount) /\ g # <<>> /\ Len(Front(g)) < Len(g)
  <2>1. PICK n \in 0..rest : g = SubSeq(own, 1, Len(root) + n)
    BY <1>5
  <2>2. Len(root) + n \in 0..Len(own)
    BY <1>2
  <2>3. g \in Seq(Names) /\ IsPrefix(g, own)
    BY <1>1, <2>1, <2>2, PrefixOfPrefix
  <2>4. ASSUME g # root
        PROVE  Front(g) \in Dirs(mount) /\ g # <<>> /\ Len(Front(g)) < Len(g)
    <3>1. n # 0
      <4>1. SubSeq(root, 1, Len(root)) = root
        BY <1>1, SubSeqFull
      <4>2. SubSeq(own, 1, Len(root)) = root
        BY <1>1, <4>1 DEF IsPrefix
      <4>3. n = 0 => Len(root) + n = Len(root)
        BY <1>2
      <4> QED
        BY <2>1, <2>4, <4>2, <4>3
    <3>2. /\ Len(root) + n > 0
          /\ n - 1 \in 0..rest
          /\ Len(root) + n - 1 = Len(root) + (n - 1)
      BY <1>2, <3>1
    <3>3. Front(g) = SubSeq(own, 1, Len(root) + n - 1)
      BY <1>1, <2>1, <2>2, <3>2, PrefixOfPrefix
    <3>4. Front(g) = SubSeq(own, 1, Len(root) + (n - 1))
      BY <3>2, <3>3
    <3>5. g # <<>> /\ Len(Front(g)) < Len(g)
      <4>1. Len(g) = Len(root) + n
        BY <1>1, <2>1, <2>2, PrefixOfPrefix
      <4>2. Len(root) + n - 1 \in 0..Len(own)
        BY <1>2, <2>2, <3>2
      <4>3. Len(Front(g)) = Len(root) + n - 1
        BY <1>1, <3>3, <4>2, PrefixOfPrefix
      <4> QED
        BY <1>2, <3>2, <4>1, <4>3
    <3> QED
      BY <1>5, <3>2, <3>4, <3>5
  <2> QED
    BY <2>3, <2>4
<1> QED
  BY <1>1, <1>7, <1>8, <1>9 DEF own, root

\* Any natural numbers there are have a least.
LEMMA Least ==
  ASSUME NEW numbers \in SUBSET Nat, numbers # {}
  PROVE  \E i \in numbers : \A j \in numbers : i <= j
<1> DEFINE R == StrictSubsetOrdering(Nat)
           F == FiniteSubsetsOf(Nat)
           T == {1..i : i \in numbers}
<1>1. IsWellFoundedOn(R, F)
  BY FS_StrictSubsetOrderingWellFounded
<1>2. T \subseteq F
  <2>1. ASSUME NEW i \in numbers
        PROVE  1..i \in F
    <3>1. i \in Int /\ 1..i \in SUBSET Nat
      OBVIOUS
    <3>2. IsFiniteSet(1..i)
      BY <3>1, FS_Interval
    <3> QED
      BY <3>1, <3>2 DEF FiniteSubsetsOf
  <2> QED
    BY <2>1
<1>3. T # {}
  OBVIOUS
<1> HIDE DEF R, F, T
<1>4. PICK x \in T : \A y \in T : <<y, x>> \notin R
  BY <1>1, <1>2, <1>3, WFMin
<1>5. PICK i \in numbers : x = 1..i
  BY <1>4 DEF T
<1>6. ASSUME NEW j \in numbers, j < i
      PROVE  FALSE
  <2>1. <<1..j, 1..i>> \notin R
    BY <1>4, <1>5 DEF T
  <2>2. 1..j \subseteq 1..i /\ i \in 1..i /\ i \notin 1..j
    BY <1>6
  <2> QED
    BY <2>1, <2>2 DEF R, StrictSubsetOrdering
<1> QED
  BY <1>6

\* The first of some mounts is one of them, if there is any.
LEMMA FirstIsOne ==
  ASSUME TypeOK, NEW among \in SUBSET Mounts
  PROVE  IF among = {} THEN FirstOf(among) = None ELSE FirstOf(among) \in among
<1> DEFINE places == {i \in DOMAIN machine.mounts : machine.mounts[i] \in among}
<1>1. CASE places = {}
  <2>1. among = {}
    BY <1>1 DEF Mounts
  <2> QED
    BY <1>1, <2>1 DEF FirstOf
<1>2. CASE places # {}
  <2>1. places \in SUBSET Nat
    <3>1. DOMAIN machine.mounts = 1..Len(machine.mounts) /\ Len(machine.mounts) \in Nat
      BY MachineFacts, LenProperties
    <3> QED
      BY <3>1
  <2>2. \E i \in places : \A j \in places : i <= j
    BY <1>2, <2>1, Least
  <2>3. (CHOOSE i \in places : \A j \in places : i <= j) \in places
    BY <2>2
  <2> QED
    BY <1>2, <2>3 DEF FirstOf
<1> QED
  BY <1>1, <1>2

\* The machine stays what it is, and with it its mounts and their chains.
LEMMA Static ==
  ASSUME machine' = machine
  PROVE  /\ Mounts' = Mounts
         /\ \A mount : ShowsOwn(mount)' <=> ShowsOwn(mount)
         /\ \A mount : Dirs(mount)' = Dirs(mount)
  BY DEF Mounts, ShowsOwn, Dirs, Within

\* A mount that is picked covers the process.
LEMMA CoveringShowsOwn == \A mount \in Covering : ShowsOwn(mount)
  BY DEF Covering, CoversOwnCgroup, ShowsOwn

\* The walk enters the next of some mounts, and stands at the own group there.
LEMMA EnterInv ==
  ASSUME ChainInv, NEW mounts \in Seq(Mounts \cup {None}), Enter(mounts), machine' = machine,
         \A i \in DOMAIN mounts : mounts[i] # None => ShowsOwn(mounts[i]),
         pc \in Metrics, UNCHANGED <<pc, picked, located>>
  PROVE  /\ queue' \in Seq(Mounts \cup {None}) \cup {None}
         /\ at' \in Seq(Names) \cup {None}
         /\ WalkInv'
<1>0. queue' = mounts /\ queue' # None /\ TypeOK
  BY MachineFacts DEF Enter, ChainInv
<1>1. ASSUME at' # None
      PROVE  /\ mounts # <<>> /\ Head(mounts) # None
             /\ ShowsOwn(Head(mounts))
             /\ at' \in Dirs(Head(mounts)) /\ at' \in Seq(Names)
  <2>1. mounts # <<>> /\ Head(mounts) # None /\ at' = Deepest(Head(mounts))
    BY <1>1 DEF Enter
  <2>2. 1 \in DOMAIN mounts /\ Head(mounts) = mounts[1]
    <3>1. Len(mounts) \in Nat \ {0}
      BY <2>1, EmptySeq
    <3>2. DOMAIN mounts = 1..Len(mounts)
      BY LenProperties
    <3> QED
      BY <2>1, <3>1, <3>2
  <2>3. ShowsOwn(Head(mounts))
    BY <2>1, <2>2
  <2> HIDE DEF Enter
  <2>4. at' \in Dirs(Head(mounts)) /\ at' \in Seq(Names)
    BY <1>0, <2>1, <2>3, ChainFacts
  <2> QED
    BY <2>1, <2>3, <2>4
<1>2. WalkInv'
  BY <1>0, <1>1, Static DEF WalkInv
<1> QED
  BY <1>0, <1>1, <1>2

\* Before the first discovery nothing is picked, probed or located.
LEMMA InitInv == Init => ChainInv
<1> SUFFICES ASSUME Init
             PROVE  ChainInv
  OBVIOUS
<1>1. machine \in Machines /\ Machine(machine)
  BY MachineAssumption DEF Init
<1>2. control \in [DOMAIN machine.control -> SUBSET machine.bound]
  BY <1>1 DEF Init, Machine
<1>3. TypeOK
  BY <1>1, <1>2, BoundAssumption DEF Init, TypeOK, NoMounts, Nothing
<1>4. PickInv /\ WalkInv /\ LocatedInv /\ HomeInv
  BY DEF Init, NoMounts, Nothing, PickInv, WalkInv, LocatedInv, HomeInv, Limits, Metrics
<1> QED
  BY <1>3, <1>4 DEF ChainInv

\* What a group of the unified hierarchy has available is bound to it.
LEMMA AvailableIsBound ==
  ASSUME TypeOK, NEW g \in machine.groups[Unified]
  PROVE  Available(g) \subseteq machine.bound
<1>1. Machine(machine)
  BY MachineAssumption DEF TypeOK
<1>2. Parent(g) \in DOMAIN machine.control
  BY <1>1 DEF Machine, Parent, Unified
<1> QED
  BY <1>2 DEF TypeOK, Available

\* The kernel moves controllers and limits and nothing of the program; a limit
\* is set only in the hierarchy its controller is bound to.
LEMMA KernelInv == ChainInv /\ Kernel => ChainInv'
<1> SUFFICES ASSUME ChainInv, Kernel
             PROVE  ChainInv'
  OBVIOUS
<1>0. /\ TypeOK /\ Machine(machine)
  BY MachineAssumption DEF ChainInv, TypeOK
<1>1. UNCHANGED <<machine, pc, picked, queue, at, interface, located>> /\ changes' \in 0..MaxChanges
  <2>1. Change
    BY DEF Kernel, Enable, Disable, SetLimit
  <2> QED
    BY <1>0, <2>1, BoundAssumption DEF Change, program, TypeOK
<1>2. /\ control' \in [DOMAIN machine.control -> SUBSET machine.bound]
      /\ \A l \in limits' :
           /\ l.metric \in Limits /\ l.hierarchy \in DOMAIN machine.groups
           /\ l.group \in machine.groups[l.hierarchy]
           /\ Houses(l.hierarchy, l.metric)
      /\ quiet' \in BOOLEAN
  <2>1. ASSUME NEW g \in DOMAIN control, NEW c \in machine.bound, Enable(c, g)
        PROVE  <1>2!:
    BY <1>0, <2>1 DEF Enable, ChainInv, TypeOK, HomeInv
  <2>2. ASSUME NEW g \in DOMAIN control, NEW c \in machine.bound, Disable(c, g)
        PROVE  <1>2!:
    BY <1>0, <2>2 DEF Disable, ChainInv, TypeOK, HomeInv
  <2>3. ASSUME NEW m \in Limits, NEW h \in DOMAIN machine.groups, NEW g \in machine.groups[h],
               SetLimit(m, h, g)
        PROVE  <1>2!:
    <3> DEFINE l == [metric |-> m, hierarchy |-> h, group |-> g]
    <3>1. Houses(h, m)
      <4>1. CASE h = Unified
        <5>1. Carrier[m] \in Available(g)
          BY <2>3, <4>1 DEF SetLimit, Limitable, HasFile, Limits
        <5> QED
          BY <1>0, <4>1, <5>1, AvailableIsBound DEF Houses
      <4>2. CASE h # Unified
        BY <2>3, <4>2 DEF SetLimit, Limitable, Houses
      <4> QED
        BY <4>1, <4>2
    <3>2. limits' \subseteq limits \cup {l} /\ UNCHANGED <<control, quiet>>
      BY <2>3 DEF SetLimit
    <3> QED
      BY <1>0, <3>1, <3>2 DEF ChainInv, TypeOK, HomeInv
  <2> QED
    BY <2>1, <2>2, <2>3 DEF Kernel
<1>3. TypeOK'
  BY <1>0, <1>1, <1>2, Static DEF TypeOK
<1>4. PickInv' /\ WalkInv' /\ LocatedInv'
  BY <1>1, Static DEF ChainInv, PickInv, WalkInv, LocatedInv
<1>5. HomeInv'
  BY <1>1, <1>2 DEF ChainInv, HomeInv, Houses
<1> QED
  BY <1>3, <1>4, <1>5 DEF ChainInv

\* The mounts that are picked show the process; the one of a controller is of a
\* hierarchy that has it.
LEMMA PicksShowOwn ==
  ASSUME TypeOK
  PROVE  /\ PickUnified # None => ShowsOwn(PickUnified) /\ PickUnified.hierarchy = Unified
         /\ \A c : PickV1(c) # None => ShowsOwn(PickV1(c)) /\ c \in PickV1(c).hierarchy
<1>1. Covering \subseteq Mounts
  BY DEF Covering
<1>2. PickUnified # None => PickUnified \in Covering /\ PickUnified.hierarchy = Unified
  <2> DEFINE covering == {mount \in Covering : mount.hierarchy = Unified}
             conventional == {mount \in covering : mount.point = Conventional}
             among == IF conventional # {} THEN conventional ELSE covering
  <2>1. among \subseteq covering /\ among \in SUBSET Mounts
    BY <1>1
  <2>2. PickUnified = FirstOf(among)
    BY DEF PickUnified
  <2>3. FirstOf(among) \in among \cup {None}
    BY <2>1, FirstIsOne
  <2> QED
    BY <2>1, <2>2, <2>3
<1>3. \A c : PickV1(c) # None => PickV1(c) \in Covering /\ c \in PickV1(c).hierarchy
  <2> TAKE c
  <2> DEFINE among == {mount \in Covering : c \in mount.hierarchy}
  <2>1. among \in SUBSET Mounts
    BY <1>1
  <2>2. FirstOf(among) \in among \cup {None}
    BY <2>1, FirstIsOne
  <2> QED
    BY <2>2 DEF PickV1
<1> QED
  BY <1>2, <1>3, CoveringShowsOwn

LEMMA ReadHierarchiesInv == ChainInv /\ ReadHierarchies => ChainInv'
<1> SUFFICES ASSUME ChainInv, ReadHierarchies
             PROVE  ChainInv'
  OBVIOUS
<1>0. /\ TypeOK
      /\ UNCHANGED <<machine, control, limits, changes, queue, at, interface, located>>
      /\ quiet' \in BOOLEAN
      /\ pc' \in {"located", "interface"} /\ pc \notin Metrics
  BY DEF ChainInv, ReadHierarchies, kernel, Metrics
<1>1. /\ PickInv'
      /\ picked'.unified \in Mounts \cup {None}
      /\ picked'.v1 \in [V1Names -> Mounts \cup {None}]
  <2>1. CASE UNCHANGED picked
    BY <1>0, <2>1, Static DEF ChainInv, TypeOK, PickInv
  <2>2. CASE picked' = Hierarchies
    BY <1>0, <2>2, Static, PicksShowOwn DEF PickInv, ShowsOwn, Hierarchies
  <2> QED
    BY <2>1, <2>2 DEF ReadHierarchies
<1>2. queue = None /\ at = None
  BY <1>0 DEF ChainInv, WalkInv
<1>3. TypeOK'
  BY <1>0, <1>1, Static DEF TypeOK
<1>4. WalkInv' /\ LocatedInv' /\ HomeInv'
  BY <1>0, <1>2, Static DEF ChainInv, WalkInv, LocatedInv, HomeInv, Houses
<1> QED
  BY <1>1, <1>3, <1>4 DEF ChainInv

LEMMA NameInterfaceInv == ChainInv /\ NameInterface => ChainInv'
<1> SUFFICES ASSUME ChainInv, NameInterface
             PROVE  ChainInv'
  OBVIOUS
<1>0. /\ TypeOK /\ UNCHANGED <<machine, control, limits, changes, picked, queue, at, located, quiet>>
      /\ pc' = "memory" /\ pc \notin Metrics
      /\ interface' \in {"v1", "v2", None}
  BY DEF ChainInv, NameInterface, kernel, Metrics, Interface
<1>1. queue = None /\ at = None
  BY <1>0 DEF ChainInv, WalkInv
<1>2. TypeOK'
  BY <1>0, Static DEF TypeOK, Metrics
<1>3. PickInv' /\ WalkInv' /\ LocatedInv' /\ HomeInv'
  BY <1>0, <1>1, Static DEF ChainInv, PickInv, WalkInv, LocatedInv, HomeInv, Houses
<1> QED
  BY <1>2, <1>3 DEF ChainInv

\* The walk goes on to other mounts of the metric at hand.
LEMMA OnwardInv ==
  ASSUME ChainInv, NEW mounts \in Seq(Mounts \cup {None}), Enter(mounts), pc \in Metrics,
         UNCHANGED <<kernel, pc, picked, interface, located, quiet>>,
         \A i \in DOMAIN mounts : mounts[i] # None =>
           ShowsOwn(mounts[i]) /\ (mounts[i].hierarchy = Unified \/ Carrier[pc] \in mounts[i].hierarchy)
  PROVE  ChainInv'
<1>0. TypeOK /\ machine' = machine /\ UNCHANGED <<control, limits, changes>>
  BY DEF ChainInv, kernel
<1>1. /\ queue' \in Seq(Mounts \cup {None}) \cup {None}
      /\ at' \in Seq(Names) \cup {None}
      /\ WalkInv'
  BY <1>0, EnterInv
<1>2. queue' = mounts
  BY DEF Enter
<1>3. TypeOK'
  BY <1>0, <1>1, Static DEF TypeOK
<1>4. PickInv' /\ LocatedInv'
  BY <1>0, Static DEF ChainInv, PickInv, LocatedInv
<1>5. HomeInv'
  BY <1>0, <1>2 DEF ChainInv, HomeInv, Houses
<1> QED
  BY <1>1, <1>3, <1>4, <1>5 DEF ChainInv

\* The rest of the mounts, once the first is done with.
LEMMA TailInv ==
  ASSUME ChainInv, queue \notin {None, <<>>}, Enter(Tail(queue)),
         UNCHANGED <<kernel, pc, picked, interface, located, quiet>>
  PROVE  ChainInv'
<1>1. queue \in Seq(Mounts \cup {None}) /\ pc \in Metrics
  BY DEF ChainInv, TypeOK, WalkInv
<1>2. /\ Tail(queue) \in Seq(Mounts \cup {None})
      /\ \A i \in DOMAIN Tail(queue) : i + 1 \in DOMAIN queue /\ Tail(queue)[i] = queue[i + 1]
  <2>1. /\ Tail(queue) \in Seq(Mounts \cup {None})
        /\ Len(Tail(queue)) = Len(queue) - 1
        /\ \A i \in 1..Len(Tail(queue)) : Tail(queue)[i] = queue[i + 1]
    BY <1>1, HeadTailProperties
  <2>2. /\ DOMAIN Tail(queue) = 1..Len(Tail(queue))
        /\ DOMAIN queue = 1..Len(queue) /\ Len(queue) \in Nat
    BY <1>1, <2>1, LenProperties
  <2> QED
    BY <2>1, <2>2
<1>3. \A i \in DOMAIN queue : queue[i] # None =>
        ShowsOwn(queue[i]) /\ (queue[i].hierarchy = Unified \/ Carrier[pc] \in queue[i].hierarchy)
  BY DEF ChainInv, WalkInv, HomeInv
<1> QED
  BY <1>1, <1>2, <1>3, OnwardInv

LEMMA StartMetricInv == ChainInv /\ StartMetric => ChainInv'
<1> SUFFICES ASSUME ChainInv, StartMetric
             PROVE  ChainInv'
  OBVIOUS
<1> DEFINE good == {mount \in Mounts \cup {None} : mount # None =>
                      /\ ShowsOwn(mount)
                      /\ mount.hierarchy = Unified \/ Carrier[pc] \in mount.hierarchy}
           v1 == picked.v1[Carrier[pc]]
           first == IF pc # "cpu_usage" \/ "cpu" \in BoundControllers THEN <<picked.unified>> ELSE <<>>
           last == IF pc = "cpu_usage" THEN <<picked.unified>> ELSE <<>>
<1>1. picked.unified \in good /\ v1 \in good
  <2>1. pc \in Metrics /\ Carrier[pc] \in V1Names
    BY DEF StartMetric, V1Names
  <2> QED
    BY <2>1 DEF ChainInv, TypeOK, PickInv
<1>2. Candidates(pc) = first \o <<v1>> \o last
  BY DEF Candidates
<1> HIDE DEF good, v1
<1>3. first \in Seq(good) /\ last \in Seq(good) /\ <<v1>> \in Seq(good)
  BY <1>1
<1> HIDE DEF first, last
<1>4. Candidates(pc) \in Seq(good)
  BY <1>2, <1>3, ConcatProperties
<1>5. /\ Candidates(pc) \in Seq(Mounts \cup {None})
      /\ \A i \in DOMAIN Candidates(pc) : Candidates(pc)[i] \in good
  <2>1. good \subseteq Mounts \cup {None}
    BY DEF good
  <2> QED
    BY <1>4, <2>1, SeqMonotonic, ElementOfSeq, LenProperties
<1>6. \A i \in DOMAIN Candidates(pc) : Candidates(pc)[i] # None =>
        /\ ShowsOwn(Candidates(pc)[i])
        /\ Candidates(pc)[i].hierarchy = Unified \/ Carrier[pc] \in Candidates(pc)[i].hierarchy
  BY <1>5 DEF good
<1> QED
  BY <1>5, <1>6, OnwardInv DEF StartMetric

\* A metric is concluded with a mount that shows the process, of the hierarchy
\* its controller is bound to, or with none.
LEMMA ConcludeInv ==
  ASSUME ChainInv, pc \in Metrics, NEW controller, Conclude(controller),
         UNCHANGED <<kernel, picked, interface, quiet>>,
         controller # None =>
           \E mount \in Mounts :
             /\ controller = Controller(mount) /\ ShowsOwn(mount)
             /\ pc \in Limits => Houses(mount.hierarchy, pc)
  PROVE  ChainInv'
<1>0. /\ TypeOK /\ machine' = machine /\ UNCHANGED <<control, limits, changes, picked, interface, quiet>>
      /\ queue' = None /\ at' = None
  BY DEF ChainInv, kernel, Conclude
<1>1. controller # None =>
        /\ controller.mount \in Mounts /\ ShowsOwn(controller.mount)
        /\ controller.dirs = Dirs(controller.mount)
        /\ controller \in [mount : Mounts, dirs : SUBSET Seq(Names)]
        /\ pc \in Limits => Houses(controller.mount.hierarchy, pc)
  <2>1. ASSUME NEW mount \in Mounts, ShowsOwn(mount)
        PROVE  Dirs(mount) \subseteq Seq(Names)
    <3>1. \A g \in Dirs(mount) : g \in Seq(Names)
      BY <1>0, <2>1, ChainFacts
    <3> QED
      BY <3>1
  <2>2. ASSUME controller # None
        PROVE  <1>1!2
    <3>1. PICK mount \in Mounts :
            /\ controller = Controller(mount) /\ ShowsOwn(mount)
            /\ pc \in Limits => Houses(mount.hierarchy, pc)
      BY <2>2
    <3>2. controller = [mount |-> mount, dirs |-> Dirs(mount)]
      BY <3>1 DEF Controller, Chain
    <3>3. Dirs(mount) \in SUBSET Seq(Names)
      BY <2>1, <3>1
    <3> HIDE DEF Controller
    <3>4. controller.mount = mount /\ controller.dirs = Dirs(mount)
      BY <3>2
    <3> QED
      BY <3>1, <3>2, <3>3, <3>4
  <2> QED
    BY <2>2
<1>2. pc' \in {"start", "interface", "located"} \cup Metrics
  BY DEF Conclude, After, Metrics
<1>3. /\ located' \in [Metrics -> [mount : Mounts, dirs : SUBSET Seq(Names)] \cup {None}]
      /\ located'[pc] = controller
      /\ \A m \in Metrics \ {pc} : located'[m] = located[m]
  BY <1>0, <1>1 DEF Conclude, TypeOK
<1>4. TypeOK'
  BY <1>0, <1>2, <1>3, Static DEF TypeOK
<1>5. PickInv' /\ WalkInv'
  BY <1>0, Static DEF ChainInv, PickInv, WalkInv
<1>6. LocatedInv'
  BY <1>0, <1>1, <1>3, Static DEF ChainInv, LocatedInv
<1>7. HomeInv'
  <2>1. Limits \subseteq Metrics
    BY DEF Limits, Metrics
  <2> QED
    BY <1>0, <1>1, <1>3, <2>1 DEF ChainInv, HomeInv, Houses
<1> QED
  BY <1>4, <1>5, <1>6, <1>7 DEF ChainInv

LEMMA ProbeInv == ChainInv /\ Probe => ChainInv'
<1> SUFFICES ASSUME ChainInv, Probe
             PROVE  ChainInv'
  OBVIOUS
<1> DEFINE mount == Head(queue)
<1>0. /\ TypeOK /\ Machine(machine)
      /\ pc \in Metrics /\ at # None
      /\ UNCHANGED <<kernel, picked, interface, quiet>> /\ machine' = machine
      /\ UNCHANGED <<control, limits, changes>>
  BY MachineAssumption DEF ChainInv, TypeOK, Probe, kernel
<1>1. /\ queue \notin {None, <<>>} /\ queue \in Seq(Mounts \cup {None})
      /\ mount # None /\ at \in Dirs(mount)
  BY <1>0 DEF ChainInv, TypeOK, WalkInv
<1>2. /\ 1 \in DOMAIN queue /\ mount = queue[1]
  BY <1>1, EmptySeq, LenProperties
<1>3. /\ mount \in Mounts /\ ShowsOwn(mount)
      /\ mount.hierarchy = Unified \/ Carrier[pc] \in mount.hierarchy
  BY <1>1, <1>2 DEF ChainInv, WalkInv, HomeInv, ShowsOwn
<1> HIDE DEF mount
<1>4. CASE HasFile(pc, mount.hierarchy, at) /\ Conclude(Controller(mount))
  <2>1. ASSUME pc \in Limits
        PROVE  Houses(mount.hierarchy, pc)
    <3>1. CASE mount.hierarchy = Unified
      <4>1. Carrier[pc] \in Available(at) /\ at \in machine.groups[Unified]
        BY <1>4, <2>1, <3>1 DEF HasFile, Limits
      <4> QED
        BY <1>0, <3>1, <4>1, AvailableIsBound DEF Houses
    <3>2. CASE mount.hierarchy # Unified
      BY <1>3, <3>2 DEF Houses
    <3> QED
      BY <3>1, <3>2
  <2> QED
    BY <1>0, <1>3, <1>4, <2>1, ConcludeInv
<1>5. CASE at # mount.root /\ at' = Front(at) /\ UNCHANGED <<pc, queue, located>>
  <2>1. at' \in Dirs(mount) /\ at' \in Seq(Names)
    <3>1. Front(at) \in Dirs(mount)
      BY <1>0, <1>1, <1>3, <1>5, ChainFacts
    <3> QED
      BY <1>0, <1>3, <1>5, <3>1, ChainFacts
  <2>2. TypeOK'
    BY <1>0, <1>5, <2>1, Static DEF TypeOK
  <2>3. WalkInv'
    BY <1>0, <1>1, <1>5, <2>1, Static DEF ChainInv, WalkInv, mount
  <2>4. PickInv' /\ LocatedInv' /\ HomeInv'
    BY <1>0, <1>5, Static DEF ChainInv, PickInv, LocatedInv, HomeInv, Houses
  <2> QED
    BY <2>2, <2>3, <2>4 DEF ChainInv
<1>6. CASE Enter(Tail(queue)) /\ UNCHANGED <<pc, located>>
  BY <1>0, <1>1, <1>6, TailInv
<1> QED
  BY <1>4, <1>5, <1>6 DEF Probe, mount

LEMMA ClearCacheInv == ChainInv /\ ClearCache => ChainInv'
<1> SUFFICES ASSUME ChainInv, ClearCache
             PROVE  ChainInv'
  OBVIOUS
<1>0. /\ TypeOK /\ UNCHANGED <<machine, control, limits, changes, queue, at, quiet>>
      /\ pc' = "start" /\ pc \notin Metrics
      /\ picked' = NoMounts /\ interface' = None /\ located' = Nothing
  BY DEF ChainInv, ClearCache, kernel, Metrics
<1>1. queue = None /\ at = None
  BY <1>0 DEF ChainInv, WalkInv
<1>2. TypeOK'
  BY <1>0, Static DEF TypeOK, NoMounts, Nothing
<1>3. PickInv'
  BY <1>0 DEF PickInv, NoMounts
<1>4. WalkInv'
  BY <1>0, <1>1 DEF WalkInv
<1>5. LocatedInv'
  BY <1>0 DEF LocatedInv, Nothing
<1>6. HomeInv'
  <2>1. \A l \in limits' : Houses(l.hierarchy, l.metric)'
    BY <1>0 DEF ChainInv, HomeInv, Houses
  <2>2. queue' = None
    BY <1>0, <1>1
  <2>3. \A m \in Limits : located'[m] = None
    BY <1>0 DEF Nothing, Limits, Metrics
  <2> QED
    BY <2>1, <2>2, <2>3 DEF HomeInv
<1> QED
  BY <1>2, <1>3, <1>4, <1>5, <1>6 DEF ChainInv

\* What is said of the chains holds in every state.
LEMMA ChainsHold == Spec => []ChainInv
<1>1. ChainInv /\ [Next]_vars => ChainInv'
  <2> SUFFICES ASSUME ChainInv, [Next]_vars
               PROVE  ChainInv'
    OBVIOUS
  <2>1. CASE Kernel
    BY <2>1, KernelInv
  <2>2. CASE ReadHierarchies
    BY <2>2, ReadHierarchiesInv
  <2>3. CASE NameInterface
    BY <2>3, NameInterfaceInv
  <2>4. CASE StartMetric
    BY <2>4, StartMetricInv
  <2>5. CASE Probe
    BY <2>5, ProbeInv
  <2>6. CASE Skip
    BY <2>6, TailInv DEF Skip
  <2>7. CASE GiveUp
    <3>1. pc \in Metrics /\ Conclude(None) /\ UNCHANGED <<kernel, picked, interface, quiet>>
      BY <2>7 DEF GiveUp
    <3> QED
      BY <3>1, ConcludeInv
  <2>8. CASE ClearCache
    BY <2>8, ClearCacheInv
  <2>9. CASE UNCHANGED vars
    <3>1. UNCHANGED <<machine, control, limits, changes, pc, picked, queue, at, interface, located, quiet>>
      BY <2>9 DEF vars, kernel, program
    <3>2. TypeOK'
      BY <3>1, Static DEF ChainInv, TypeOK
    <3>3. PickInv' /\ WalkInv' /\ LocatedInv' /\ HomeInv'
      BY <3>1, Static DEF ChainInv, PickInv, WalkInv, LocatedInv, HomeInv, Houses
    <3> QED
      BY <3>2, <3>3 DEF ChainInv
  <2> QED
    BY <2>1, <2>2, <2>3, <2>4, <2>5, <2>6, <2>7, <2>8, <2>9 DEF Next
<1> QED
  BY InitInv, <1>1, PTL DEF Spec

\* Every chain a metric is read through is the process's own: nobody else's
\* group, and its own one included.
THEOREM ReadsOwnGroups == Spec => []OwnGroupsOnly
<1>1. ChainInv => OwnGroupsOnly
  <2> SUFFICES ASSUME ChainInv, NEW m \in Metrics, located[m] # None
               PROVE  LET own == machine.own[located[m].mount.hierarchy]
                      IN  own \in located[m].dirs /\ \A g \in located[m].dirs : IsPrefix(g, own)
    BY DEF OwnGroupsOnly
  <2>1. TypeOK /\ ShowsOwn(located[m].mount) /\ located[m].dirs = Dirs(located[m].mount)
    BY DEF ChainInv, LocatedInv
  <2> QED
    BY <2>1, ChainFacts
<1> QED
  BY ChainsHold, <1>1, PTL

\* A limit that binds the process on a located metric is read, or the process is
\* told that something above is hidden.
THEOREM ReadOrReported == Spec => []NothingHiddenSilently
<1>1. ChainInv => NothingHiddenSilently
  <2> SUFFICES ASSUME ChainInv, NEW m \in Limits, located[m] # None, NEW l \in Binding(m),
                      ~AncestorsHidden(m)
               PROVE  Shows(m, l)
    BY DEF NothingHiddenSilently
  <2> DEFINE mount == located[m].mount
             own == machine.own[mount.hierarchy]
  <2>1. /\ TypeOK /\ Machine(machine)
        /\ m \in Metrics
        /\ ShowsOwn(mount) /\ located[m].dirs = Dirs(mount)
        /\ Houses(mount.hierarchy, m)
    BY MachineAssumption DEF ChainInv, TypeOK, LocatedInv, HomeInv, Limits, Metrics
  <2>2. /\ l.metric = m /\ l.hierarchy \in DOMAIN machine.groups /\ Houses(l.hierarchy, m)
        /\ l.group \in machine.groups[l.hierarchy] /\ IsPrefix(l.group, machine.own[l.hierarchy])
    BY DEF ChainInv, TypeOK, HomeInv, Binding, Above
  <2>3. mount.hierarchy = l.hierarchy
    <3>1. mount.hierarchy \in DOMAIN machine.groups
      BY <2>1 DEF Machine, ShowsOwn
    <3>2. \A h, k \in DOMAIN machine.groups : h = k \/ h \cap k = {}
      BY <2>1 DEF Machine
    <3>3. \A h \in DOMAIN machine.groups : h \cap machine.bound = {}
      BY <2>1 DEF Machine
    <3> QED
      BY <2>1, <2>2, <3>1, <3>2, <3>3 DEF Houses
  <2>4. mount.root = <<>>
    BY <2>1 DEF AncestorsHidden, Truncated, Limits, Metrics
  <2>5. l.group \in Dirs(mount)
    <3>1. own \in Seq(Names) /\ l.group \in Seq(Names) /\ IsPrefix(l.group, own)
      BY <2>1, <2>2, <2>3, MachineFacts DEF Machine, ShowsOwn
    <3>2. Dirs(mount) = {SubSeq(own, 1, n) : n \in 0..Len(own)}
      <4>1. /\ IsPrefix(<<>>, own) /\ <<>> \in Seq(Names) /\ Len(<<>>) = 0 /\ Len(own) \in Nat
        BY <2>1, <2>4, <3>1, LenProperties DEF ShowsOwn
      <4>2. SubSeq(own, 1, Len(own)) = own
        BY <3>1, SubSeqFull
      <4>3. Within(mount) = own
        BY <2>4, <4>1, <4>2 DEF Within
      <4>4. \A n \in 0..Len(own) : <<>> \o SubSeq(own, 1, n) = SubSeq(own, 1, n)
        BY <3>1, PrefixOfPrefix, ConcatEmptySeq
      <4> QED
        BY <2>4, <4>3, <4>4 DEF Dirs
    <3>3. /\ l.group = SubSeq(own, 1, Len(l.group))
          /\ Len(l.group) \in 0..Len(own)
      <4>1. SubSeq(l.group, 1, Len(l.group)) = l.group
        BY <3>1, SubSeqFull
      <4>2. Len(l.group) \in Nat /\ Len(own) \in Nat
        BY <3>1, LenProperties
      <4> QED
        BY <3>1, <4>1, <4>2 DEF IsPrefix
    <3> QED
      BY <3>2, <3>3
  <2> QED
    BY <2>1, <2>3, <2>5 DEF Shows
<1> QED
  BY ChainsHold, <1>1, PTL

\* What follows from the machine and its controllers stays while they do.
LEMMA Still ==
  ASSUME machine' = machine
  PROVE  /\ Hierarchies' = Hierarchies
         /\ \A mount : Deepest(mount)' = Deepest(mount)
         /\ \A mount : Controller(mount)' = Controller(mount)
         /\ UNCHANGED <<control, picked>> =>
              /\ BoundControllers' = BoundControllers
              /\ Interface' = Interface
              /\ Counter' = Counter
              /\ \A m : Candidates(m)' = Candidates(m)
<1>1. Mounts' = Mounts
  BY Static
<1>2. Covering' = Covering
  BY <1>1 DEF Covering, CoversOwnCgroup, Deepest, Within
<1>3. \A among : FirstOf(among)' = FirstOf(among)
  BY DEF FirstOf
<1>4. PickUnified' = PickUnified /\ \A c : PickV1(c)' = PickV1(c)
  BY <1>2, <1>3 DEF PickUnified, PickV1, FirstOf
<1>5. Hierarchies' = Hierarchies
  BY <1>4 DEF Hierarchies
<1>6. \A mount : Deepest(mount)' = Deepest(mount)
  BY DEF Deepest, Within
<1>7. \A mount : Controller(mount)' = Controller(mount)
  BY DEF Controller, Chain, Dirs, Within
<1>8. ASSUME UNCHANGED <<control, picked>>
      PROVE  /\ BoundControllers' = BoundControllers
             /\ Interface' = Interface
             /\ Counter' = Counter
             /\ \A m : Candidates(m)' = Candidates(m)
  <2>1. BoundControllers' = BoundControllers
    BY <1>8 DEF BoundControllers, Available, RealRoot
  <2>2. Interface' = Interface
    BY <1>8, <2>1 DEF Interface, HoldsV1
  <2>3. Counter' = Counter
    BY <1>8, <2>1 DEF Counter
  <2>4. \A m : Candidates(m)' = Candidates(m)
    BY <1>8, <2>1 DEF Candidates
  <2> QED
    BY <2>1, <2>2, <2>3, <2>4
<1> QED
  BY <1>5, <1>6, <1>7, <1>8

\* The mount picked for a controller is one that covers the process, and there
\* is none only where no mount does.
LEMMA PicksCover ==
  ASSUME ChainInv, QuietInv
  PROVE  /\ picked.unified # None => picked.unified \in Covering
         /\ \A c \in V1Names : picked.v1[c] # None => picked.v1[c] \in Covering
         /\ pc # "start" /\ machine.proc =>
              \A c \in V1Names : picked.v1[c] = None => ~\E mount \in Covering : c \in mount.hierarchy
<1>1. TypeOK /\ Covering \subseteq Mounts /\ None \notin Mounts
  BY MachineFacts DEF ChainInv, Covering
<1>2. PickUnified # None => PickUnified \in Covering
  <2> DEFINE covering == {mount \in Covering : mount.hierarchy = Unified}
             conventional == {mount \in covering : mount.point = Conventional}
             among == IF conventional # {} THEN conventional ELSE covering
  <2>1. among \subseteq covering /\ among \in SUBSET Mounts
    BY <1>1
  <2>2. PickUnified = FirstOf(among)
    BY DEF PickUnified
  <2> QED
    BY <1>1, <2>1, <2>2, FirstIsOne
<1>3. \A c : IF PickV1(c) = None THEN ~\E mount \in Covering : c \in mount.hierarchy
                                 ELSE PickV1(c) \in Covering
  <2> TAKE c
  <2> DEFINE among == {mount \in Covering : c \in mount.hierarchy}
  <2>1. among \in SUBSET Mounts
    BY <1>1
  <2>2. IF among = {} THEN FirstOf(among) = None ELSE FirstOf(among) \in among
    BY <1>1, <2>1, FirstIsOne
  <2> QED
    BY <1>1, <2>2 DEF PickV1
<1>4. picked = IF pc = "start" \/ ~machine.proc THEN NoMounts ELSE Hierarchies
  BY DEF QuietInv, BegunInv
<1>5. CASE pc = "start" \/ ~machine.proc
  BY <1>4, <1>5 DEF NoMounts
<1>6. CASE ~(pc = "start" \/ ~machine.proc)
  BY <1>2, <1>3, <1>4, <1>6 DEF Hierarchies
<1> QED
  BY <1>5, <1>6

\* The parent of the root of a namespace is no group of ours.
LEMMA OutsideIsNoGroup == Outside \notin Seq(Names)
<1> SUFFICES ASSUME Outside \in Seq(Names)
             PROVE  FALSE
  OBVIOUS
<1>1. Len(Outside) = 1 /\ Outside[1] = ".."
  BY DEF Outside
<1>2. Outside[1] \in Names
  <2>1. 1 \in 1..Len(Outside)
    BY <1>1
  <2> HIDE DEF Outside
  <2> QED
    BY <2>1, ElementOfSeq
<1> QED
  BY <1>1, <1>2, NamesAssumption

\* The parent of a group has a shorter path.
LEMMA FrontIsShorter ==
  ASSUME NEW S, NEW g \in Seq(S), g # <<>>
  PROVE  Front(g) # g
<1>1. Len(g) \in Nat /\ Len(g) > 0
  BY EmptySeq, LenProperties
<1>2. SubSeq(g, 1, Len(g)) = g /\ Len(g) \in 0..Len(g)
  BY <1>1, SubSeqFull
<1>3. Front(g) = SubSeq(g, 1, Len(g) - 1)
  BY DEF Front
<1>4. Len(SubSeq(g, 1, Len(g) - 1)) = Len(g) - 1
  <2>1. Len(g) - 1 \in 0..Len(g)
    BY <1>1
  <2> QED
    BY <2>1, PrefixOfPrefix
<1> QED
  BY <1>1, <1>3, <1>4

\* A controller some group of a chain has available is so at the top of it.
LEMMA TopHas ==
  ASSUME TypeOK, TreeInv, NEW mount, ShowsOwn(mount), mount.hierarchy = Unified,
         NEW g \in Dirs(mount) \cap machine.groups[Unified], NEW c \in Available(g)
  PROVE  c \in Available(mount.root)
<1> SUFFICES ASSUME c \notin Available(mount.root)
             PROVE  FALSE
  OBVIOUS
<1>0. Machine(machine) /\ machine.groups[Unified] \subseteq Seq(Names)
  BY MachineAssumption DEF TypeOK, Machine
<1> DEFINE levels == {k \in Dirs(mount) \cap machine.groups[Unified] : c \in Available(k)}
           lengths == {Len(k) : k \in levels}
<1>1. lengths \in SUBSET Nat /\ lengths # {}
  <2>1. levels \subseteq Seq(Names) /\ g \in levels
    BY <1>0
  <2>2. \A k \in levels : Len(k) \in Nat
    BY <2>1, LenProperties
  <2> HIDE DEF levels
  <2> QED
    BY <2>1, <2>2
<1>2. PICK k \in levels : \A j \in levels : Len(k) <= Len(j)
  <2> HIDE DEF levels
  <2>1. PICK n \in lengths : \A j \in lengths : n <= j
    BY <1>1, Least
  <2> QED
    BY <2>1
<1>3. /\ k # mount.root /\ k \in Dirs(mount) /\ k \in machine.groups[Unified]
      /\ Front(k) \in Dirs(mount) /\ k # <<>> /\ Len(Front(k)) < Len(k)
  BY ChainFacts
<1>4. Front(k) \in machine.groups[Unified]
  BY <1>0, <1>3 DEF Machine, Unified
<1>5. Outside \notin machine.groups[Unified]
  BY <1>0, OutsideIsNoGroup
<1>6. c \in control[Front(k)]
  BY <1>3, <1>5 DEF Available, RealRoot, Parent
<1>7. c \in Available(Front(k))
  <2>1. CASE RealRoot(Front(k))
    <3>1. control[Front(k)] \subseteq machine.bound
      <4>1. Front(k) \in DOMAIN machine.control
        BY <1>0, <1>4 DEF Machine
      <4> QED
        BY <4>1 DEF TypeOK
    <3> QED
      BY <1>6, <2>1, <3>1 DEF Available
  <2>2. CASE ~RealRoot(Front(k))
    <3>1. control[Front(k)] \subseteq control[Parent(Front(k))]
      BY <1>4, <2>2 DEF TreeInv
    <3>2. Front(k) # Outside
      BY <1>4, <1>5
    <3> QED
      BY <1>6, <2>2, <3>1, <3>2 DEF Available
  <2> QED
    BY <2>1, <2>2
<1>8. Front(k) \in levels
  BY <1>3, <1>4, <1>7
<1>9. Len(k) \in Nat /\ Len(Front(k)) \in Nat
  BY <1>0, <1>3, <1>4, LenProperties
<1> QED
  BY <1>2, <1>3, <1>8, <1>9

\* What the program knows stays true while no controller moves.
LEMMA FrameQuiet ==
  ASSUME QuietInv, TreeInv', UNCHANGED <<machine, pc, picked, queue, at, interface, located>>,
         quiet' => quiet /\ UNCHANGED control
  PROVE  QuietInv'
<1>1. BegunInv'
  BY Still DEF QuietInv, BegunInv, NoMounts, Nothing
<1>2. InterfaceInv'
  BY Still DEF QuietInv, InterfaceInv
<1>3. CounterInv'
  <2>1. CASE quiet'
    BY <2>1, Still DEF QuietInv, CounterInv
  <2>2. CASE ~quiet'
    BY <2>2 DEF CounterInv
  <2> QED
    BY <2>1, <2>2
<1> QED
  BY <1>1, <1>2, <1>3 DEF QuietInv

\* A controller is enabled below where it is available, and disabled only where
\* no child enables it.
LEMMA KernelQuiet == ChainInv /\ QuietInv /\ Kernel => QuietInv'
<1> SUFFICES ASSUME ChainInv, QuietInv, Kernel
             PROVE  QuietInv'
  OBVIOUS
<1>0. /\ TypeOK /\ Machine(machine) /\ TreeInv
  BY MachineAssumption DEF ChainInv, TypeOK, QuietInv
<1>1. DOMAIN control = machine.groups[Unified] \cup {Outside} /\ Outside \notin machine.groups[Unified]
  <2>1. Outside \notin Seq(Names)
    BY OutsideIsNoGroup
  <2>2. machine.groups[Unified] \subseteq Seq(Names)
    BY <1>0 DEF Machine
  <2> QED
    BY <1>0, <2>1, <2>2 DEF TypeOK, Machine
<1>2. /\ UNCHANGED <<machine, pc, picked, queue, at, interface, located>>
      /\ quiet' => quiet /\ UNCHANGED control
  <2>1. UNCHANGED <<machine, pc, picked, queue, at, interface, located>>
    <3>1. Change
      BY DEF Kernel, Enable, Disable, SetLimit
    <3> QED
      BY <3>1 DEF Change, program
  <2>2. ~quiet' \/ UNCHANGED <<quiet, control>>
    BY DEF Kernel, Enable, Disable, SetLimit
  <2> QED
    BY <2>1, <2>2
<1>3. TreeInv'
  <2> SUFFICES ASSUME NEW k \in machine.groups[Unified], ~RealRoot(k)
               PROVE  control'[k] \subseteq control'[Parent(k)]
    BY <1>2 DEF TreeInv, RealRoot
  <2>1. control[k] \subseteq control[Parent(k)] /\ Parent(k) \in DOMAIN control /\ Parent(k) # k
    <3>1. Parent(k) # k
      <4>1. CASE k = <<>>
        BY <4>1, <1>1 DEF Parent
      <4>2. CASE k # <<>>
        BY <4>2, <1>0, FrontIsShorter DEF Parent, Machine
      <4> QED
        BY <4>1, <4>2
    <3>2. Parent(k) \in DOMAIN control
      BY <1>0, <1>1 DEF Parent, Machine
    <3> QED
      BY <1>0, <3>1, <3>2 DEF TreeInv
  <2>2. ASSUME NEW g \in DOMAIN control, NEW c \in machine.bound, Enable(c, g)
        PROVE  control'[k] \subseteq control'[Parent(k)]
    <3>1. control' = [control EXCEPT ![g] = @ \cup {c}] /\ c \in Available(g)
      BY <2>2 DEF Enable
    <3>2. k = g => c \in control[Parent(k)]
      BY <1>1, <3>1 DEF Available
    <3> QED
      BY <1>1, <2>1, <3>1, <3>2
  <2>3. ASSUME NEW g \in DOMAIN control, NEW c \in machine.bound, Disable(c, g)
        PROVE  control'[k] \subseteq control'[Parent(k)]
    <3>1. /\ control' = [control EXCEPT ![g] = @ \ {c}]
          /\ Parent(k) = g => c \notin control[k]
      BY <1>1, <2>3 DEF Disable
    <3> QED
      BY <1>1, <2>1, <3>1
  <2>4. ASSUME UNCHANGED control
        PROVE  control'[k] \subseteq control'[Parent(k)]
    BY <2>1, <2>4
  <2> QED
    BY <2>2, <2>3, <2>4 DEF Kernel, SetLimit
<1> QED
  BY <1>2, <1>3, FrameQuiet

\* The reading of the hierarchies starts over: nothing is located yet.
LEMMA ReadHierarchiesQuiet == ChainInv /\ QuietInv /\ ReadHierarchies => QuietInv'
<1> SUFFICES ASSUME ChainInv, QuietInv, ReadHierarchies
             PROVE  QuietInv'
  OBVIOUS
<1>0. /\ UNCHANGED <<machine, control, limits, changes, queue, at, interface, located>>
      /\ located = Nothing /\ interface = None /\ pc = "start"
      /\ picked = NoMounts
      /\ queue = None
  BY DEF ReadHierarchies, kernel, QuietInv, BegunInv, ChainInv, WalkInv, Metrics
<1>1. TreeInv'
  BY <1>0 DEF QuietInv, TreeInv, RealRoot
<1>2. CASE ~machine.proc
  <2>1. pc' = "located" /\ picked' = NoMounts
    BY <1>0, <1>2 DEF ReadHierarchies
  <2>2. BegunInv'
    BY <1>0, <1>2, <2>1 DEF BegunInv
  <2>3. BoundControllers' = {} /\ ~HoldsV1' /\ picked'.unified = None /\ picked'.v1["cpuacct"] = None
    BY <2>1 DEF NoMounts, BoundControllers, HoldsV1, V1Names, Metrics, Carrier
  <2>4. Interface' = None /\ Counter' = None
    BY <2>3 DEF Interface, Counter
  <2>5. InterfaceInv'
    BY <1>0, <2>4 DEF InterfaceInv, Nothing, Limits, Metrics
  <2>6. CounterInv'
    BY <1>0, <2>1, <2>4 DEF CounterInv, Nothing, Metrics
  <2> QED
    BY <1>1, <2>2, <2>5, <2>6 DEF QuietInv
<1>3. CASE machine.proc
  <2>1. pc' = "interface" /\ picked' = Hierarchies
    BY <1>3 DEF ReadHierarchies
  <2>2. BegunInv'
    BY <1>0, <1>3, <2>1, Still DEF BegunInv
  <2>3. InterfaceInv'
    BY <1>0, <2>1 DEF InterfaceInv, Nothing, Limits, Metrics
  <2>4. CounterInv'
    BY <2>1 DEF CounterInv
  <2> QED
    BY <1>1, <2>2, <2>3, <2>4 DEF QuietInv
<1> QED
  BY <1>2, <1>3

LEMMA NameInterfaceQuiet == ChainInv /\ QuietInv /\ NameInterface => QuietInv'
<1> SUFFICES ASSUME ChainInv, QuietInv, NameInterface
             PROVE  QuietInv'
  OBVIOUS
<1>0. /\ UNCHANGED <<machine, control, limits, changes, picked, queue, at, located, quiet>>
      /\ located = Nothing /\ pc = "interface" /\ pc' = "memory" /\ machine.proc
      /\ picked = Hierarchies /\ interface' = Interface /\ queue = None
  BY DEF NameInterface, kernel, QuietInv, BegunInv, ChainInv, WalkInv, Metrics
<1>1. TreeInv'
  BY <1>0 DEF QuietInv, TreeInv, RealRoot
<1>2. BegunInv'
  BY <1>0, Still DEF BegunInv
<1>3. InterfaceInv'
  BY <1>0, Still DEF InterfaceInv, Nothing, Limits, Metrics
<1>4. CounterInv'
  BY <1>0 DEF CounterInv
<1> QED
  BY <1>1, <1>2, <1>3, <1>4 DEF QuietInv

LEMMA ClearCacheQuiet == ChainInv /\ QuietInv /\ ClearCache => QuietInv'
<1> SUFFICES ASSUME ChainInv, QuietInv, ClearCache
             PROVE  QuietInv'
  OBVIOUS
<1>0. /\ UNCHANGED <<machine, control, limits, changes, queue, at, quiet>>
      /\ pc = "located" /\ pc' = "start" /\ picked' = NoMounts /\ interface' = None
      /\ located' = Nothing /\ queue = None
  BY DEF ClearCache, kernel, ChainInv, WalkInv, Metrics
<1>1. TreeInv'
  BY <1>0 DEF QuietInv, TreeInv, RealRoot
<1>2. BegunInv'
  BY <1>0 DEF BegunInv
<1>3. InterfaceInv'
  BY <1>0 DEF InterfaceInv, Nothing, Limits, Metrics
<1>4. CounterInv'
  BY <1>0 DEF CounterInv
<1> QED
  BY <1>1, <1>2, <1>3, <1>4 DEF QuietInv

\* Up to three lists of one are a list.
LEMMA Listed ==
  ASSUME NEW a, NEW b
  PROVE  /\ <<a>> \o <<b>> \o <<>> = <<a, b>>
         /\ <<a>> \o <<b>> \o <<a>> = <<a, b, a>>
         /\ <<>> \o <<b>> \o <<a>> = <<b, a>>
<1> DEFINE S == {a, b}
<1>0. <<a>> \in Seq(S) /\ <<b>> \in Seq(S) /\ <<a, b>> \in Seq(S) /\ <<b, a>> \in Seq(S)
  OBVIOUS
<1>1. ASSUME NEW x \in S, NEW y \in S
      PROVE  <<x>> \o <<y>> = <<x, y>>
  <2>1. /\ <<x>> \in Seq(S) /\ <<y>> \in Seq(S) /\ <<x, y>> \in Seq(S)
        /\ Len(<<x>>) = 1 /\ Len(<<y>>) = 1 /\ Len(<<x, y>>) = 2
        /\ <<x>>[1] = x /\ <<y>>[1] = y /\ <<x, y>>[1] = x /\ <<x, y>>[2] = y
    OBVIOUS
  <2> DEFINE joined == <<x>> \o <<y>>
  <2>2. /\ joined \in Seq(S) /\ Len(joined) = 2
        /\ \A i \in 1..2 : joined[i] = IF i <= 1 THEN <<x>>[i] ELSE <<y>>[i - 1]
    BY <2>1, ConcatProperties
  <2> HIDE DEF joined
  <2>3. \A i \in 1..2 : joined[i] = <<x, y>>[i]
    BY <2>1, <2>2
  <2> QED
    BY <2>1, <2>2, <2>3, SeqEqual DEF joined
<1>2. <<a, b>> \o <<a>> = <<a, b, a>>
  <2>1. /\ <<a, b>> \in Seq(S) /\ <<a>> \in Seq(S) /\ <<a, b, a>> \in Seq(S)
        /\ Len(<<a, b>>) = 2 /\ Len(<<a>>) = 1 /\ Len(<<a, b, a>>) = 3
        /\ <<a, b>>[1] = a /\ <<a, b>>[2] = b /\ <<a>>[1] = a
        /\ <<a, b, a>>[1] = a /\ <<a, b, a>>[2] = b /\ <<a, b, a>>[3] = a
    OBVIOUS
  <2> DEFINE joined == <<a, b>> \o <<a>>
  <2>2. /\ joined \in Seq(S) /\ Len(joined) = 3
        /\ \A i \in 1..3 : joined[i] = IF i <= 2 THEN <<a, b>>[i] ELSE <<a>>[i - 2]
    BY <2>1, ConcatProperties
  <2> HIDE DEF joined
  <2>3. \A i \in 1..3 : joined[i] = <<a, b, a>>[i]
    BY <2>1, <2>2
  <2> QED
    BY <2>1, <2>2, <2>3, SeqEqual DEF joined
<1> QED
  BY <1>0, <1>1, <1>2, ConcatEmptySeq

\* The mounts a metric is looked for in are the two picked for it; the time is
\* looked for in the unified one first where that has the CPU controller.
LEMMA CandidateFacts ==
  ASSUME NEW m \in Metrics
  PROVE  /\ Candidates(m) # <<>>
         /\ \A i \in DOMAIN Candidates(m) :
              Candidates(m)[i] \in {picked.unified, picked.v1[Carrier[m]]}
         /\ m = "cpu_usage" /\ "cpu" \in BoundControllers => Head(Candidates(m)) = picked.unified
         /\ m = "cpu_usage" /\ "cpu" \notin BoundControllers =>
              /\ Head(Candidates(m)) = picked.v1["cpuacct"]
              /\ Tail(Candidates(m)) = <<picked.unified>>
<1> DEFINE u == picked.unified
           v1 == picked.v1[Carrier[m]]
<1>1. CASE m # "cpu_usage"
  <2>1. Candidates(m) = <<u, v1>>
    <3>1. Candidates(m) = <<u>> \o <<v1>> \o <<>>
      BY <1>1 DEF Candidates
    <3> QED
      BY <3>1, Listed
  <2> HIDE DEF u, v1
  <2> QED
    BY <1>1, <2>1 DEF u, v1
<1>2. CASE m = "cpu_usage" /\ "cpu" \in BoundControllers
  <2>1. Candidates(m) = <<u, v1, u>>
    <3>1. Candidates(m) = <<u>> \o <<v1>> \o <<u>>
      BY <1>2 DEF Candidates
    <3> QED
      BY <3>1, Listed
  <2> HIDE DEF u, v1
  <2> QED
    BY <1>2, <2>1 DEF u, v1
<1>3. CASE m = "cpu_usage" /\ "cpu" \notin BoundControllers
  <2>1. Candidates(m) = <<v1, u>>
    <3>1. Candidates(m) = <<>> \o <<v1>> \o <<u>>
      BY <1>3 DEF Candidates
    <3> QED
      BY <3>1, Listed
  <2>2. Carrier[m] = "cpuacct"
    BY <1>3 DEF Carrier
  <2> HIDE DEF u, v1
  <2>3. Head(<<v1, u>>) = v1 /\ Tail(<<v1, u>>) = <<u>>
    OBVIOUS
  <2>4. <<v1, u>> # <<>> /\ \A i \in DOMAIN <<v1, u>> : <<v1, u>>[i] \in {u, v1}
    OBVIOUS
  <2>5. /\ Candidates(m) # <<>>
        /\ \A i \in DOMAIN Candidates(m) : Candidates(m)[i] \in {u, v1}
        /\ Head(Candidates(m)) = v1 /\ Tail(Candidates(m)) = <<u>>
    BY <2>1, <2>3, <2>4
  <2> QED
    BY <1>3, <2>2, <2>5 DEF u, v1
<1> QED
  BY <1>1, <1>2, <1>3

\* The walk goes on to other mounts of the metric at hand, which stay those the
\* time is to be found in.
LEMMA OnwardQuiet ==
  ASSUME ChainInv, QuietInv, NEW mounts, Enter(mounts), pc \in Metrics,
         UNCHANGED <<kernel, pc, picked, interface, located, quiet>>,
         \A i \in DOMAIN mounts : mounts[i] \in {picked.unified, picked.v1[Carrier[pc]]},
         quiet /\ pc = "cpu_usage" =>
           \/ mounts = Candidates("cpu_usage")
           \/ /\ "cpu" \notin BoundControllers /\ picked.v1["cpuacct"] = None
              /\ mounts = <<picked.unified>>
           \/ Counter = None /\ mounts = <<>>
  PROVE  QuietInv'
<1>0. /\ UNCHANGED <<machine, control, limits, changes, pc, picked, interface, located, quiet>>
      /\ queue' = mounts
  BY DEF kernel, Enter
<1>1. TreeInv'
  BY <1>0 DEF QuietInv, TreeInv, RealRoot
<1>2. BegunInv'
  BY <1>0, Still DEF QuietInv, BegunInv, NoMounts, Nothing
<1>3. InterfaceInv'
  BY <1>0, Still DEF QuietInv, InterfaceInv
<1>4. CounterInv'
  <2>1. at' = IF mounts = <<>> \/ Head(mounts) = None THEN None ELSE Deepest(Head(mounts))'
    BY <1>0, Still DEF Enter
  <2> QED
    BY <1>0, <2>1, Still DEF QuietInv, CounterInv
<1> QED
  BY <1>1, <1>2, <1>3, <1>4 DEF QuietInv

LEMMA StartMetricQuiet == ChainInv /\ QuietInv /\ StartMetric => QuietInv'
<1> SUFFICES ASSUME ChainInv, QuietInv, StartMetric
             PROVE  QuietInv'
  OBVIOUS
<1> QED
  BY CandidateFacts, OnwardQuiet DEF StartMetric

\* The rest of the mounts; of those for the time, only one that is not there is
\* passed.
LEMMA TailQuiet ==
  ASSUME ChainInv, QuietInv, queue \notin {None, <<>>}, Enter(Tail(queue)),
         UNCHANGED <<kernel, pc, picked, interface, located, quiet>>,
         quiet /\ pc = "cpu_usage" => Head(queue) = None
  PROVE  QuietInv'
<1>1. queue \in Seq(Mounts \cup {None}) /\ pc \in Metrics
  BY DEF ChainInv, TypeOK, WalkInv
<1>2. \A i \in DOMAIN Tail(queue) : i + 1 \in DOMAIN queue /\ Tail(queue)[i] = queue[i + 1]
  <2>1. /\ Tail(queue) \in Seq(Mounts \cup {None})
        /\ Len(Tail(queue)) = Len(queue) - 1
        /\ \A i \in 1..Len(Tail(queue)) : Tail(queue)[i] = queue[i + 1]
    BY <1>1, HeadTailProperties
  <2>2. /\ DOMAIN Tail(queue) = 1..Len(Tail(queue))
        /\ DOMAIN queue = 1..Len(queue) /\ Len(queue) \in Nat
    BY <1>1, <2>1, LenProperties
  <2> QED
    BY <2>1, <2>2
<1>3. \A i \in DOMAIN Tail(queue) : Tail(queue)[i] \in {picked.unified, picked.v1[Carrier[pc]]}
  BY <1>2 DEF QuietInv, InterfaceInv
<1>4. ASSUME quiet, pc = "cpu_usage"
      PROVE  \/ /\ "cpu" \notin BoundControllers /\ picked.v1["cpuacct"] = None
                /\ Tail(queue) = <<picked.unified>>
             \/ Counter = None /\ Tail(queue) = <<>>
  <2>0. Head(queue) = None
    BY <1>4
  <2>1. CASE queue = Candidates("cpu_usage")
    <3>1. "cpu" \in BoundControllers => picked.unified # None
      BY DEF BoundControllers
    <3> QED
      BY <1>4, <2>0, <2>1, <3>1, CandidateFacts DEF Metrics
  <2>2. CASE /\ "cpu" \notin BoundControllers /\ picked.v1["cpuacct"] = None
             /\ queue = <<picked.unified>>
    <3>1. picked.unified = None /\ Tail(queue) = <<>>
      BY <2>0, <2>2
    <3> QED
      BY <2>2, <3>1 DEF Counter
  <2> QED
    BY <1>4, <2>1, <2>2 DEF QuietInv, CounterInv
<1> QED
  BY <1>1, <1>3, <1>4, OnwardQuiet

\* A metric is concluded with one of the mounts picked for it, a limit with the
\* unified one only where that has the controller at its top, the time with the
\* mount it is to be found in.
LEMMA ConcludeQuiet ==
  ASSUME ChainInv, QuietInv, pc \in Metrics, NEW controller, Conclude(controller),
         UNCHANGED <<kernel, picked, interface, quiet>>,
         pc \in Limits /\ controller # None =>
           /\ controller.mount \in {picked.unified, picked.v1[Carrier[pc]]}
           /\ controller.mount.hierarchy = Unified => Carrier[pc] \in BoundControllers,
         quiet /\ pc = "cpu_usage" =>
           controller = IF Counter = None THEN None ELSE Controller(Counter)
  PROVE  QuietInv'
<1>0. /\ UNCHANGED <<machine, control, limits, changes, picked, interface, quiet>>
      /\ queue' = None /\ pc' = After[pc] /\ TypeOK
      /\ located'[pc] = controller
      /\ \A m \in Metrics \ {pc} : located'[m] = located[m]
  BY DEF kernel, Conclude, ChainInv, TypeOK
<1>1. TreeInv'
  BY <1>0 DEF QuietInv, TreeInv, RealRoot
<1>2. pc' \notin {"start", "interface"} /\ pc \notin {"start", "interface", "located"}
  BY <1>0 DEF After, Metrics
<1>3. BegunInv'
  BY <1>0, <1>2, Still DEF QuietInv, BegunInv, NoMounts
<1>4. InterfaceInv'
  <2>1. quiet' => interface' = Interface'
    BY <1>0, <1>2, Still DEF QuietInv, InterfaceInv
  <2>2. ASSUME NEW m \in Limits, located'[m] # None
        PROVE  /\ located'[m].mount \in {picked.unified, picked.v1[Carrier[m]]}
               /\ quiet /\ located'[m].mount.hierarchy = Unified => Carrier[m] \in BoundControllers
    <3>1. CASE m = pc
      BY <1>0, <2>2, <3>1
    <3>2. CASE m # pc
      <4>1. located'[m] = located[m]
        BY <1>0, <3>2 DEF Limits, Metrics
      <4> QED
        BY <2>2, <4>1 DEF QuietInv, InterfaceInv
    <3> QED
      BY <3>1, <3>2
  <2> QED
    BY <1>0, <2>1, <2>2, Still DEF InterfaceInv
<1>5. CounterInv'
  <2>1. ASSUME quiet, pc' \in {"cpu_set", "located"}
        PROVE  located'["cpu_usage"] = IF Counter = None THEN None ELSE Controller(Counter)
    <3>1. pc \in {"cpu_usage", "cpu_set"}
      BY <1>0, <2>1 DEF After, Metrics
    <3>2. CASE pc = "cpu_usage"
      BY <1>0, <2>1, <3>2
    <3>3. CASE pc = "cpu_set"
      <4>1. located'["cpu_usage"] = located["cpu_usage"]
        BY <1>0, <3>3 DEF Metrics
      <4> QED
        BY <2>1, <3>3, <4>1 DEF QuietInv, CounterInv
    <3> QED
      BY <3>1, <3>2, <3>3
  <2> QED
    BY <1>0, <2>1, Still DEF CounterInv
<1> QED
  BY <1>1, <1>3, <1>4, <1>5 DEF QuietInv

\* The file of a limit in the unified hierarchy says that the top of the mount
\* has the controller; the time is found at the first level looked at.
LEMMA ProbeQuiet == ChainInv /\ QuietInv /\ Probe => QuietInv'
<1> SUFFICES ASSUME ChainInv, QuietInv, Probe
             PROVE  QuietInv'
  OBVIOUS
<1> DEFINE mount == Head(queue)
<1>0. /\ TypeOK /\ Machine(machine)
      /\ pc \in Metrics /\ at # None
      /\ UNCHANGED <<kernel, picked, interface, quiet>> /\ UNCHANGED <<machine, control>>
  BY MachineAssumption DEF ChainInv, TypeOK, Probe, kernel
<1>1. /\ queue \notin {None, <<>>} /\ queue \in Seq(Mounts \cup {None})
      /\ mount # None /\ at \in Dirs(mount)
  BY <1>0 DEF ChainInv, TypeOK, WalkInv
<1>2. /\ 1 \in DOMAIN queue /\ mount = queue[1]
  BY <1>1, EmptySeq, LenProperties
<1>3. /\ ShowsOwn(mount)
      /\ mount \in {picked.unified, picked.v1[Carrier[pc]]}
  BY <1>1, <1>2 DEF ChainInv, WalkInv, QuietInv, InterfaceInv
<1>4. mount \in Covering /\ Carrier[pc] \in V1Names
  <2>1. Carrier[pc] \in V1Names
    BY <1>0 DEF V1Names
  <2> QED
    BY <1>1, <1>3, <2>1, PicksCover
<1>5. ASSUME quiet, pc = "cpu_usage"
      PROVE  mount = Counter /\ HasFile(pc, mount.hierarchy, at)
  <2>1. /\ \/ queue = Candidates("cpu_usage")
           \/ /\ "cpu" \notin BoundControllers /\ picked.v1["cpuacct"] = None
              /\ queue = <<picked.unified>>
        /\ at = Deepest(mount)
    BY <1>1, <1>5 DEF QuietInv, CounterInv
  <2>2. mount = Counter
    <3>1. CASE queue = Candidates("cpu_usage")
      BY <1>0, <1>1, <1>5, <3>1, CandidateFacts DEF Counter
    <3>2. CASE /\ "cpu" \notin BoundControllers /\ picked.v1["cpuacct"] = None
               /\ queue = <<picked.unified>>
      BY <3>2 DEF Counter
    <3> QED
      BY <2>1, <3>1, <3>2
  <2>3. at \in machine.groups[mount.hierarchy]
    BY <1>4, <2>1 DEF Covering, CoversOwnCgroup
  <2> QED
    BY <1>5, <2>2, <2>3 DEF HasFile
<1> HIDE DEF mount
<1>6. CASE HasFile(pc, mount.hierarchy, at) /\ Conclude(Controller(mount))
  <2> DEFINE controller == Controller(mount)
  <2>1. controller.mount = mount
    BY DEF Controller
  <2>2. ASSUME pc \in Limits, mount.hierarchy = Unified
        PROVE  Carrier[pc] \in BoundControllers
    <3>1. Carrier[pc] \in Available(at) /\ at \in machine.groups[Unified]
      BY <1>6, <2>2 DEF HasFile, Limits
    <3>2. Carrier[pc] \in Available(mount.root)
      BY <1>0, <1>1, <1>3, <2>2, <3>1, TopHas DEF QuietInv
    <3>3. mount = picked.unified
      <4>1. picked.v1[Carrier[pc]] # None => Carrier[pc] \in picked.v1[Carrier[pc]].hierarchy
        BY <1>4 DEF ChainInv, PickInv
      <4> QED
        BY <1>1, <1>3, <2>2, <4>1 DEF Unified, mount
    <3>4. picked.unified # None
      BY <1>1, <3>3 DEF mount
    <3> QED
      BY <3>2, <3>3, <3>4 DEF BoundControllers
  <2>3. quiet /\ pc = "cpu_usage" => controller = IF Counter = None THEN None ELSE Controller(Counter)
    BY <1>1, <1>5 DEF mount
  <2> HIDE DEF controller
  <2> QED
    BY <1>0, <1>3, <1>6, <2>1, <2>2, <2>3, ConcludeQuiet DEF controller
<1>7. CASE ~HasFile(pc, mount.hierarchy, at) /\ UNCHANGED <<pc, queue, located>>
  <2>1. ~(quiet /\ pc = "cpu_usage")
    BY <1>5, <1>7
  <2>2. TreeInv' /\ BegunInv' /\ InterfaceInv'
    BY <1>0, <1>7, Still DEF QuietInv, TreeInv, RealRoot, BegunInv, NoMounts, Nothing, InterfaceInv
  <2>3. CounterInv'
    BY <1>0, <1>7, <2>1, Still DEF CounterInv, Metrics, QuietInv
  <2> QED
    BY <2>2, <2>3 DEF QuietInv
<1>8. CASE ~HasFile(pc, mount.hierarchy, at) /\ Enter(Tail(queue)) /\ UNCHANGED <<pc, located>>
  BY <1>0, <1>1, <1>5, <1>8, TailQuiet
<1> QED
  BY <1>6, <1>7, <1>8 DEF Probe, mount

LEMMA SkipQuiet == ChainInv /\ QuietInv /\ Skip => QuietInv'
<1> SUFFICES ASSUME ChainInv, QuietInv, Skip
             PROVE  QuietInv'
  OBVIOUS
<1>1. queue \notin {None, <<>>} /\ at = None /\ TypeOK
  BY DEF Skip, ChainInv
<1>2. ASSUME quiet, pc = "cpu_usage"
      PROVE  Head(queue) = None
  <2> SUFFICES ASSUME Head(queue) # None
               PROVE  FALSE
    OBVIOUS
  <2>1. Deepest(Head(queue)) = None
    BY <1>1, <1>2 DEF QuietInv, CounterInv
  <2>2. ShowsOwn(Head(queue))
    <3>1. queue \in Seq(Mounts \cup {None})
      BY <1>1 DEF TypeOK
    <3>2. 1 \in DOMAIN queue /\ Head(queue) = queue[1]
      BY <1>1, <3>1, EmptySeq, LenProperties
    <3> QED
      BY <1>1, <3>2 DEF ChainInv, WalkInv
  <2>3. Deepest(Head(queue)) \in Seq(Names)
    BY <1>1, <2>2, ChainFacts
  <2> QED
    BY <2>1, <2>3, NoneAssumption
<1> QED
  BY <1>1, <1>2, TailQuiet DEF Skip

LEMMA GiveUpQuiet == ChainInv /\ QuietInv /\ GiveUp => QuietInv'
<1> SUFFICES ASSUME ChainInv, QuietInv, GiveUp
             PROVE  QuietInv'
  OBVIOUS
<1>1. /\ pc \in Metrics /\ queue = <<>> /\ Conclude(None)
      /\ UNCHANGED <<kernel, picked, interface, quiet>>
      /\ None # <<>>
  <2>1. None # <<>>
    <3>1. <<>> \in Seq(Names)
      OBVIOUS
    <3> QED
      BY <3>1, NoneAssumption
  <2> QED
    BY <2>1 DEF GiveUp
<1>2. quiet /\ pc = "cpu_usage" => Counter = None
  <2>1. Candidates("cpu_usage") # <<>>
    BY CandidateFacts DEF Metrics
  <2> QED
    BY <1>1, <2>1 DEF QuietInv, CounterInv
<1> QED
  BY <1>1, <1>2, ConcludeQuiet

\* The controller of a mount is one.
LEMMA ControllerIsThere ==
  ASSUME TypeOK, NEW mount, ShowsOwn(mount)
  PROVE  Controller(mount) # None
<1>1. mount \in Mounts /\ Dirs(mount) \subseteq Seq(Names)
  <2>1. \A g \in Dirs(mount) : g \in Seq(Names)
    BY ChainFacts
  <2> QED
    BY <2>1 DEF ShowsOwn
<1>2. Controller(mount) \in [mount : Mounts, dirs : SUBSET Seq(Names)]
  BY <1>1 DEF Controller, Chain
<1> QED
  BY <1>2, NoneAssumption DEF TypeOK, Mounts

\* The invariant holds in every state.
THEOREM Inductive == Spec => []IInv
<1>1. Init => QuietInv
  <2> SUFFICES ASSUME Init
               PROVE  QuietInv
    OBVIOUS
  <2>1. machine \in Machines /\ Machine(machine) /\ control = machine.control
    BY MachineAssumption DEF Init
  <2>2. TreeInv
    BY <2>1 DEF TreeInv, RealRoot, Machine
  <2>3. BegunInv /\ CounterInv
    BY DEF Init, BegunInv, CounterInv
  <2>4. InterfaceInv
    BY DEF Init, InterfaceInv, Nothing, Limits, Metrics
  <2> QED
    BY <2>2, <2>3, <2>4 DEF QuietInv
<1>2. ChainInv /\ QuietInv /\ [Next]_vars => QuietInv'
  <2> SUFFICES ASSUME ChainInv, QuietInv, [Next]_vars
               PROVE  QuietInv'
    OBVIOUS
  <2>1. CASE UNCHANGED vars
    <3>1. UNCHANGED <<machine, control, pc, picked, queue, at, interface, located, quiet>>
      BY <2>1 DEF vars, kernel, program
    <3>2. TreeInv'
      BY <3>1 DEF QuietInv, TreeInv, RealRoot
    <3> QED
      BY <3>1, <3>2, FrameQuiet
  <2> QED
    BY <2>1, KernelQuiet, ReadHierarchiesQuiet, NameInterfaceQuiet, StartMetricQuiet, ProbeQuiet,
       SkipQuiet, GiveUpQuiet, ClearCacheQuiet DEF Next
<1>3. ChainInv /\ QuietInv <=> IInv
  BY DEF IInv
<1> QED
  BY ChainsHold, <1>1, <1>2, <1>3, PTL DEF Spec

\* Where no controller moved meanwhile, the interface named for the machine is
\* the one its limits come through.
THEOREM HomeOfLimits == Spec => []InterfaceIsHome
<1>1. IInv => InterfaceIsHome
  <2> SUFFICES ASSUME IInv, pc = "located", quiet, NEW m \in Limits, located[m] # None
               PROVE  /\ HasSource("memory") /\ interface # None
                      /\ interface = "v1" => located[m].mount.hierarchy # Unified
                      /\ interface = "v2" /\ BoundControllers \cap V1Names = {} =>
                           located[m].mount.hierarchy = Unified
    BY DEF InterfaceIsHome
  <2> DEFINE mount == located[m].mount
  <2>1. ChainInv /\ QuietInv /\ interface = Interface
    BY DEF IInv, QuietInv, InterfaceInv
  <2>2. /\ mount \in {picked.unified, picked.v1[Carrier[m]]}
        /\ mount.hierarchy = Unified => Carrier[m] \in BoundControllers
        /\ Carrier[m] \in V1Names
        /\ mount \in Mounts /\ mount # None
    BY <2>1, MachineFacts DEF QuietInv, InterfaceInv, ChainInv, LocatedInv, ShowsOwn, V1Names,
       Limits, Metrics
  <2>3. mount.hierarchy = Unified => BoundControllers \cap V1Names # {}
    BY <2>2
  <2>4. CASE mount = picked.unified
    <3>1. mount.hierarchy = Unified
      BY <2>1, <2>2, <2>4 DEF ChainInv, PickInv
    <3>2. interface = "v2" /\ "v1" # "v2" /\ None # "v2"
      BY <2>1, <2>3, <3>1, NoneAssumption DEF Interface
    <3> QED
      BY <2>3, <3>1, <3>2 DEF HasSource
  <2>5. CASE mount = picked.v1[Carrier[m]]
    <3>1. mount.hierarchy # Unified
      BY <2>1, <2>2, <2>5 DEF ChainInv, PickInv, Unified
    <3>2. HoldsV1
      BY <2>2, <2>5 DEF HoldsV1
    <3>3. interface = IF BoundControllers \cap V1Names # {} THEN "v2" ELSE "v1"
      BY <2>1, <3>2 DEF Interface
    <3> QED
      BY <3>1, <3>3, NoneAssumption DEF HasSource
  <2> QED
    BY <2>2, <2>4, <2>5
<1> QED
  BY Inductive, <1>1, PTL

\* Where no controller moved meanwhile, time is counted in the hierarchy that
\* limits it.
THEOREM TimeBesideLimit == Spec => []CounterBesideQuota
<1>1. IInv => CounterBesideQuota
  <2> SUFFICES ASSUME IInv, pc = "located", quiet, located["cpu_quota"] # None
               PROVE  /\ located["cpu_usage"] = None => ~\E mount \in Covering : "cpuacct" \in mount.hierarchy
                      /\ located["cpu_quota"].mount.hierarchy = Unified =>
                           located["cpu_usage"] = located["cpu_quota"]
                      /\ /\ located["cpu_quota"].mount.hierarchy # Unified
                         /\ \E mount \in Covering : "cpuacct" \in mount.hierarchy
                         => located["cpu_usage"].mount.hierarchy # Unified
    BY DEF CounterBesideQuota
  <2> DEFINE quota == located["cpu_quota"]
             v1 == picked.v1["cpuacct"]
  <2>1. /\ ChainInv /\ QuietInv /\ TypeOK /\ Machine(machine)
        /\ None \notin Mounts
        /\ "cpu_quota" \in Limits \cap Metrics /\ Carrier["cpu_quota"] = "cpu"
        /\ "cpuacct" \in V1Names /\ "cpu" \in V1Names
    <3>1. "cpu_quota" \in Limits \cap Metrics /\ Carrier["cpu_quota"] = "cpu"
      BY DEF Limits, Metrics, Carrier
    <3>2. Carrier["cpu_usage"] = "cpuacct" /\ "cpu_usage" \in Metrics
      BY DEF Metrics, Carrier
    <3> QED
      BY <3>1, <3>2, MachineAssumption, MachineFacts DEF IInv, ChainInv, TypeOK, V1Names
  <2>2. machine.proc
    BY <2>1 DEF QuietInv, BegunInv, Nothing
  <2>3. v1 = None => ~\E mount \in Covering : "cpuacct" \in mount.hierarchy
    BY <2>1, <2>2, PicksCover
  <2>4. located["cpu_usage"] = IF Counter = None THEN None ELSE Controller(Counter)
    BY <2>1 DEF QuietInv, CounterInv
  <2>5. /\ quota.mount \in {picked.unified, picked.v1["cpu"]}
        /\ quota.mount.hierarchy = Unified => "cpu" \in BoundControllers
        /\ quota.mount \in Mounts
        /\ quota \in [mount : Mounts, dirs : SUBSET Seq(Names)]
        /\ quota.dirs = Dirs(quota.mount)
    BY <2>1 DEF QuietInv, InterfaceInv, ChainInv, LocatedInv, TypeOK, ShowsOwn
  <2>6. "cpu" \in BoundControllers => picked.unified # None
    BY DEF BoundControllers
  <2>7. Counter # None => Controller(Counter) # None
    <3>1. Counter # None => ShowsOwn(Counter)
      BY <2>1 DEF ChainInv, PickInv, Counter
    <3> QED
      BY <2>1, <3>1, ControllerIsThere
  <2>8. located["cpu_usage"] = None => v1 = None
    BY <2>4, <2>6, <2>7 DEF Counter
  <2>9. ASSUME quota.mount.hierarchy = Unified
        PROVE  located["cpu_usage"] = quota
    <3>1. quota.mount = picked.unified
      <4>1. picked.v1["cpu"] # None => "cpu" \in picked.v1["cpu"].hierarchy
        BY <2>1 DEF ChainInv, PickInv
      <4> QED
        BY <2>1, <2>5, <2>9, <4>1 DEF Unified
    <3>2. Counter = picked.unified /\ Counter # None
      BY <2>5, <2>6, <2>9 DEF Counter
    <3>3. quota = [mount |-> picked.unified, dirs |-> Dirs(picked.unified)]
      BY <2>5, <3>1
    <3> QED
      BY <2>4, <3>2, <3>3 DEF Controller, Chain
  <2>10. ASSUME quota.mount.hierarchy # Unified, \E mount \in Covering : "cpuacct" \in mount.hierarchy
         PROVE  located["cpu_usage"].mount.hierarchy # Unified
    <3>1. v1 # None /\ "cpuacct" \in v1.hierarchy
      BY <2>1, <2>3, <2>10 DEF ChainInv, PickInv
    <3>2. "cpu" \notin BoundControllers
      <4>1. "cpu" \in quota.mount.hierarchy /\ quota.mount.hierarchy \in DOMAIN machine.groups
        BY <2>1, <2>5, <2>10 DEF ChainInv, HomeInv, Houses, Machine, Mounts
      <4>2. "cpu" \notin machine.bound
        BY <2>1, <4>1 DEF Machine
      <4>3. BoundControllers \subseteq machine.bound
        <5>1. picked.unified # None => picked.unified.root \in machine.groups[Unified]
          BY <2>1 DEF ChainInv, PickInv, ShowsOwn, Mounts, Machine
        <5> QED
          BY <2>1, <5>1, AvailableIsBound DEF BoundControllers
      <4> QED
        BY <4>2, <4>3
    <3>3. located["cpu_usage"] = [mount |-> v1, dirs |-> Dirs(v1)]
      BY <2>4, <3>1, <3>2 DEF Counter, Controller, Chain
    <3> QED
      BY <3>1, <3>3 DEF Unified
  <2> QED
    BY <2>3, <2>8, <2>9, <2>10
<1> QED
  BY Inductive, <1>1, PTL

=============================================================================
