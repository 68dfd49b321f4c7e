-------------------------- MODULE CpuSamplerProofs --------------------------
(***************************************************************************)
(* Theorems about CpuSampler, for any number of threads, levels and limits *)
(* and calls of any number.                                                *)
(***************************************************************************)
EXTENDS CpuSampler, TLAPS

\* A call of thread t begins, or goes on.
Acts(t) == Sample(t) \/ Measure(t) \/ Step(t)

\* A sampler nobody has called keeps no reading, and its lock is free.
LEMMA InitInv == Init => IInv
<1> SUFFICES ASSUME Init
             PROVE  IInv
  OBVIOUS
<1>1. TypeOK
  BY SettingAssumption DEF Init, TypeOK, Pc, Setting
<1>2. LockInv /\ StepInv
  BY DEF Init, LockInv, StepInv
<1>3. KeptInv /\ SwapsChain
  BY DEF Init, KeptInv, LastIn, SwapsChain
<1>4. CallInv /\ AgeInv /\ SoleInv
  BY DEF Init, CallInv, AgeInv, Behind, SoleInv, WindowsDisjoint
<1> QED
  BY <1>1, <1>2, <1>3, <1>4 DEF IInv

\* No step of the machine makes a counter gain on what is consumed.
LEMMA MachineAges ==
  ASSUME TypeOK, Machine
  PROVE  /\ clock <= clock'
         /\ \A r \in Readings \cup {None} : Behind(r) => Behind(r)'
<1>0. setting \in Setting
  BY SettingAssumption DEF TypeOK
<1> SUFFICES /\ clock <= clock'
             /\ \A r \in Readings : Behind(r) => Behind(r)'
  BY DEF Behind
<1>1. ASSUME NEW work \in setting.works, Tick(work)
      PROVE  /\ clock <= clock'
             /\ \A r \in Readings : Behind(r) => Behind(r)'
  <2>1. work \in [Levels -> Nat]
    BY <1>0 DEF Setting
  <2>2. ASSUME NEW r \in Readings, Behind(r)
        PROVE  Behind(r)'
    <3>1. /\ r.level \in Levels /\ r.seen \in Nat /\ r.usage \in Nat
          /\ counter[r.level] \in Nat /\ consumed[r.level] \in Nat /\ work[r.level] \in Nat
      BY <2>1 DEF Readings, TypeOK
    <3>2. /\ counter'[r.level] = counter[r.level] + work[r.level]
          /\ consumed'[r.level] = consumed[r.level] + work[r.level]
      BY <1>1, <3>1 DEF Tick
    <3> QED
      BY <2>2, <3>1, <3>2 DEF Behind
  <2> QED
    BY <1>1, <2>2 DEF Tick, TypeOK
<1>2. ASSUME NEW c, ChangeCap(c)
      PROVE  /\ clock <= clock'
             /\ \A r \in Readings : Behind(r) => Behind(r)'
  BY <1>2 DEF ChangeCap, Behind, TypeOK
<1>3. ASSUME NEW l \in Levels, Restart(l)
      PROVE  /\ clock <= clock'
             /\ \A r \in Readings : Behind(r) => Behind(r)'
  <2>1. PICK n \in 0..counter[l] - 1 : counter' = [counter EXCEPT ![l] = n]
    BY <1>3 DEF Restart
  <2>2. ASSUME NEW r \in Readings, Behind(r)
        PROVE  Behind(r)'
    <3>1. /\ r.level \in Levels /\ r.seen \in Nat /\ r.usage \in Nat
          /\ counter[r.level] \in Nat /\ consumed[r.level] \in Nat
      BY DEF Readings, TypeOK
    <3>2. counter'[r.level] \in Int /\ counter'[r.level] <= counter[r.level] /\ consumed' = consumed
      BY <1>3, <2>1, <3>1 DEF Restart, TypeOK
    <3> QED
      BY <2>2, <3>1, <3>2 DEF Behind
  <2> QED
    BY <1>3, <2>2 DEF Restart, TypeOK
<1> QED
  BY <1>1, <1>2, <1>3 DEF Machine, Time

\* The machine moves the clock, the counters and the limit in force, and nothing
\* of the sampler.
LEMMA MachineInv == IInv /\ Machine => IInv'
<1> SUFFICES ASSUME IInv, Machine
             PROVE  IInv'
  OBVIOUS
<1>1. UNCHANGED <<setting, previous, lock, pc, wait, limit, reading, prev, calls, swaps, found,
                  before, loads>>
  BY DEF Machine, Time, Tick, ChangeCap, Restart, sampler, locals, log
<1>2. /\ clock' \in Nat
      /\ cap' \in Caps \cup {None}
      /\ counter' \in [Levels -> Nat]
      /\ consumed' \in [Levels -> Nat]
      /\ \A l \in Levels : counter'[l] <= consumed'[l]
      /\ changes' \in Nat
  <2>0. setting \in Setting
    BY SettingAssumption DEF IInv, TypeOK
  <2>1. ASSUME NEW work \in setting.works, Tick(work)
        PROVE  <1>2!:
    <3>1. work \in [Levels -> Nat]
      BY <2>0 DEF Setting
    <3> QED
      BY <2>1, <3>1 DEF Tick, IInv, TypeOK
  <2>2. ASSUME NEW c \in setting.caps \cup {None}, ChangeCap(c)
        PROVE  <1>2!:
    <3>1. c \in Caps \cup {None}
      BY <2>0 DEF Setting
    <3> QED
      BY <2>2, <3>1 DEF ChangeCap, IInv, TypeOK
  <2>3. ASSUME NEW l \in Levels, Restart(l)
        PROVE  <1>2!:
    BY <2>3 DEF Restart, IInv, TypeOK
  <2> QED
    BY <2>1, <2>2, <2>3 DEF Machine, Time
<1>3. TypeOK'
  BY <1>1, <1>2 DEF IInv, TypeOK
<1>4. LockInv' /\ StepInv' /\ KeptInv' /\ SwapsChain'
  BY <1>1 DEF IInv, LockInv, StepInv, KeptInv, LastIn, SwapsChain
<1>5. CallInv'
  BY <1>1 DEF IInv, CallInv, Measuring
<1>6. AgeInv'
  <2>1. \A r \in Readings \cup {None} : Behind(r) => Behind(r)'
    BY MachineAges DEF IInv
  <2>2. /\ previous \in Readings \cup {None}
        /\ \A t \in Threads : reading[t] \in Readings \cup {None} /\ prev[t] \in Readings \cup {None}
    BY DEF IInv, TypeOK
  <2>3. Behind(previous)' /\ \A t \in Threads : Behind(reading[t])' /\ Behind(prev[t])'
    <3>1. Behind(previous)'
      <4> DEFINE p == previous
      <4>1. Behind(p) /\ p \in Readings \cup {None} /\ previous' = p
        BY <1>1, <2>2 DEF IInv, AgeInv
      <4> QED
        BY <2>1, <4>1 DEF Behind
    <3>2. ASSUME NEW t \in Threads
          PROVE  Behind(reading[t])' /\ Behind(prev[t])'
      <4>1. Behind(reading[t]) /\ Behind(prev[t]) /\ reading'[t] = reading[t] /\ prev'[t] = prev[t]
        BY <1>1, <2>2 DEF IInv, AgeInv
      <4> QED
        BY <2>1, <2>2, <4>1 DEF Behind
    <3> QED
      BY <3>1, <3>2
  <2> QED
    BY <1>1, <2>3 DEF IInv, AgeInv, Measuring, Grows
<1>7. SoleInv'
  <2>1. /\ clock \in Nat /\ clock' \in Nat /\ clock <= clock'
        /\ previous # None => previous.taken_at \in Nat
        /\ \A t \in Threads : reading[t] # None => reading[t].taken_at \in Nat
    BY <1>2, MachineAges DEF IInv, TypeOK, Readings
  <2>2. (SoleCaller' <=> SoleCaller) /\ (WindowsDisjoint' <=> WindowsDisjoint)
    BY <1>1 DEF SoleCaller, WindowsDisjoint
  <2> QED
    BY <1>1, <2>1, <2>2 DEF IInv, SoleInv, Measuring, Grows
<1> QED
  BY <1>3, <1>4, <1>5, <1>6, <1>7 DEF IInv

\* The steps of a thread that leave the kept reading and the swaps alone: the
\* thread may be anywhere but between its load and its store.
LEMMA QuietStep ==
  ASSUME IInv, NEW t \in Threads,
         UNCHANGED <<previous, swaps>>,
         \A u \in Threads \ {t} : prev'[u] = prev[u],
         \A u \in Threads \ {t} : pc'[u] = pc[u],
         pc'[t] # "store"
  PROVE  KeptInv' /\ SwapsChain'
<1>1. \A u \in Threads : pc'[u] = "store" => u # t /\ pc[u] = "store"
  OBVIOUS
<1> QED
  BY <1>1 DEF IInv, KeptInv, LastIn, SwapsChain

\* A ratio that is reported is one between 0 and 1, and what it counts is no more
\* than the counter went up by.
LEMMA UsedRatioFacts ==
  ASSUME NEW from \in Readings, NEW to \in Readings, Comparable(from, to)
  PROVE  /\ UsedRatio(from, to) \in [part : Nat, of : Nat]
         /\ UsedRatio(from, to).part \in 0..UsedRatio(from, to).of
         /\ UsedRatio(from, to).part <= Max0(to.usage - from.usage)
<1> DEFINE of == (to.taken_at - from.taken_at) * to.cores
           used == Max0(to.usage - from.usage)
           part == IF used > of THEN of ELSE used
<1>1. used \in Nat
  BY DEF Readings, Max0
<1>2. of \in Nat
  <2> DEFINE elapsed == to.taken_at - from.taken_at
             cores == to.cores
  <2>1. elapsed \in Nat /\ cores \in Nat
    BY NumberAssumption DEF Readings, Comparable
  <2> HIDE DEF elapsed, cores
  <2>2. elapsed * cores \in Nat
    BY <2>1
  <2> QED
    BY <2>2 DEF elapsed, cores
<1>3. UsedRatio(from, to) = [part |-> part, of |-> of]
  BY DEF UsedRatio
<1> HIDE DEF used, of
<1>4. part \in 0..of /\ part <= used
  BY <1>1, <1>2
<1> QED
  BY <1>2, <1>3, <1>4 DEF used

\* A step of sample() leaves every variable in its type, and has what the next
\* step uses.
LEMMA StepTypes ==
  ASSUME IInv, NEW t \in Threads, Acts(t)
  PROVE  TypeOK' /\ StepInv'
<1> USE DEF IInv, Go, Pc
<1>1. CASE Sample(t) \/ Measure(t)
  <2>1. PICK interval \in Nat \cup {None} : Begin(t, interval)
    BY <1>1, SettingAssumption DEF Sample, Measure, Setting, TypeOK
  <2> QED
    BY <2>1 DEF Begin, TypeOK, StepInv, world, sampler, log
<1>2. CASE EvaluateLimit(t)
  <2>1. TypeOK'
    BY <1>2 DEF EvaluateLimit, Read, TypeOK, world, sampler, log
  <2>2. StepInv'
    BY <1>2 DEF EvaluateLimit, Read, TypeOK, StepInv
  <2> QED
    BY <2>1, <2>2
<1>3. CASE ReadCounter(t)
  <2> DEFINE r == [cores |-> limit[t].cores, level |-> limit[t].level,
                   usage |-> counter[limit[t].level], seen |-> consumed[limit[t].level],
                   taken_at |-> 0]
  <2>1. limit[t] \in [cores : Nat, level : Levels]
    BY <1>3, CapAssumption DEF ReadCounter, StepInv
  <2>2. r \in Readings
    BY <2>1 DEF Readings, TypeOK
  <2>3. reading' = [reading EXCEPT ![t] = r]
    BY <1>3 DEF ReadCounter
  <2>4. TypeOK'
    BY <1>3, <2>2, <2>3 DEF ReadCounter, TypeOK, world, sampler, log
  <2>5. StepInv'
    BY <1>3, <2>2, <2>3 DEF ReadCounter, TypeOK, StepInv
  <2> QED
    BY <2>4, <2>5
<1>4. CASE LoseCounter(t)
  BY <1>4 DEF LoseCounter, Read, TypeOK, StepInv, world, sampler, locals, log
<1>5. CASE TakeTime(t)
  <2>1. reading[t] \in Readings /\ clock \in Nat
    BY <1>5 DEF TakeTime, StepInv, TypeOK
  <2>2. [reading[t] EXCEPT !.taken_at = clock] \in Readings
    BY <2>1 DEF Readings
  <2>3. reading' = [reading EXCEPT ![t] = [reading[t] EXCEPT !.taken_at = clock]]
    BY <1>5 DEF TakeTime, Dated
  <2>4. TypeOK'
    BY <1>5, <2>2, <2>3 DEF TakeTime, Read, TypeOK, world, sampler, log
  <2>5. StepInv'
    BY <1>5, <2>2, <2>3 DEF TakeTime, Read, TypeOK, StepInv
  <2> QED
    BY <2>4, <2>5
<1>5a. CASE TakeStart(t)
  <2>1. reading[t] \in Readings /\ clock \in Nat /\ wait[t] \in Nat
    BY <1>5a DEF TakeStart, Measuring, StepInv, TypeOK
  <2>2. Dated(t) \in Readings
    BY <2>1 DEF Dated, Readings
  <2>3. TypeOK'
    BY <1>5a, <2>2 DEF TakeStart, TypeOK, world, sampler, log
  <2>4. StepInv'
    BY <1>5a, <2>1, <2>2 DEF TakeStart, TypeOK, StepInv
  <2> QED
    BY <2>3, <2>4
<1>5b. CASE Wake(t)
  BY <1>5b DEF Wake, TypeOK, StepInv, world, sampler, locals, log
<1>6. CASE Acquire(t)
  BY <1>6 DEF Acquire, TypeOK, StepInv, world, locals, log
<1>7. CASE Load(t)
  BY <1>7 DEF Load, TypeOK, StepInv, world, sampler, log
<1>8. CASE Store(t)
  <2>1. previous' \in Readings \cup {None}
    BY <1>8 DEF Store, Kept, TypeOK
  <2>2. swaps' \in Seq((Readings \cup {None}) \X Readings)
    <3>1. CASE reading[t] # None
      <4>1. <<prev[t], reading[t]>> \in (Readings \cup {None}) \X Readings
        BY <3>1 DEF TypeOK
      <4> QED
        BY <1>8, <3>1, <4>1 DEF Store, TypeOK
    <3>2. CASE reading[t] = None
      BY <1>8, <3>2 DEF Store, TypeOK
    <3> QED
      BY <3>1, <3>2
  <2>3. TypeOK'
    BY <1>8, <2>1, <2>2 DEF Store, TypeOK, world, locals
  <2>4. StepInv'
    BY <1>8 DEF Store, StepInv, TypeOK, locals
  <2> QED
    BY <2>3, <2>4
<1>9. CASE Unlock(t)
  BY <1>9 DEF Unlock, TypeOK, StepInv, world, locals, log
<1>10. CASE Report(t)
  <2>1. TypeOK'
    <3> DEFINE x == [from |-> prev[t], to |-> reading[t], ratio |-> UsedRatio(prev[t], reading[t]),
                     before |-> before[t], limit |-> limit[t], own |-> Measuring(t)]
               L == [from : Readings, to : Readings, ratio : [part : Nat, of : Nat],
                     before : Caps \cup {None}, limit : Caps \cup {None}, own : BOOLEAN]
    <3>1. reading[t] # None /\ prev[t] # None /\ Comparable(prev[t], reading[t]) => x \in L
      BY UsedRatioFacts DEF TypeOK, Measuring
    <3>2. loads' = IF reading[t] # None /\ prev[t] # None /\ Comparable(prev[t], reading[t])
                   THEN loads \cup {x} ELSE loads
      BY <1>10 DEF Report
    <3> HIDE DEF x
    <3>3. loads' \subseteq L
      BY <3>1, <3>2 DEF TypeOK
    <3> QED
      BY <1>10, <3>3 DEF Report, TypeOK, world, sampler
  <2>2. StepInv'
    BY <1>10 DEF Report, TypeOK, StepInv
  <2> QED
    BY <2>1, <2>2
<1> QED
  BY <1>1, <1>2, <1>3, <1>4, <1>5, <1>5a, <1>5b, <1>6, <1>7, <1>8, <1>9, <1>10 DEF Acts, Step

\* A thread takes the lock only while nobody has it, and gives it back only while
\* it has it itself.
LEMMA StepLock ==
  ASSUME IInv, NEW t \in Threads, Acts(t)
  PROVE  LockInv'
<1> USE DEF IInv, Go, TypeOK
<1>1. CASE Sample(t) \/ Measure(t) \/ EvaluateLimit(t) \/ ReadCounter(t) \/ LoseCounter(t)
             \/ TakeTime(t) \/ TakeStart(t) \/ Wake(t)
  BY <1>1 DEF Sample, Measure, Begin, EvaluateLimit, ReadCounter, LoseCounter, TakeTime, TakeStart,
              Wake, Read, LockInv, sampler
<1>2. CASE Acquire(t)
  BY <1>2, NoneAssumption DEF Acquire, LockInv
<1>3. CASE Load(t) \/ Store(t)
  BY <1>3 DEF Load, Store, LockInv, sampler
<1>4. CASE Unlock(t)
  BY <1>4 DEF Unlock, LockInv
<1>5. CASE Report(t)
  BY <1>5 DEF Report, LockInv, sampler
<1> QED
  BY <1>1, <1>2, <1>3, <1>4, <1>5 DEF Acts, Step

\* The chain grows by the reading put in, which measures from the one kept.
LEMMA StepChain ==
  ASSUME IInv, NEW t \in Threads, Acts(t)
  PROVE  KeptInv' /\ SwapsChain'
<1> USE DEF Go
<1>0. pc \in [Threads -> Pc] /\ prev \in [Threads -> Readings \cup {None}]
  BY DEF IInv, TypeOK
<1>1. CASE \/ Sample(t) \/ Measure(t) \/ EvaluateLimit(t) \/ ReadCounter(t) \/ LoseCounter(t)
           \/ TakeTime(t) \/ TakeStart(t) \/ Wake(t) \/ Acquire(t) \/ Unlock(t) \/ Report(t)
  <2> USE DEF Sample, Measure, Begin, EvaluateLimit, ReadCounter, LoseCounter, TakeTime, TakeStart,
              Wake, Acquire, Unlock, Report
  <2>1. UNCHANGED <<previous, swaps>> /\ pc'[t] # "store"
    BY <1>0, <1>1 DEF Read, sampler, log
  <2>2. \A u \in Threads \ {t} : prev'[u] = prev[u]
    BY <1>0, <1>1 DEF locals
  <2>3. \A u \in Threads \ {t} : pc'[u] = pc[u]
    BY <1>0, <1>1
  <2> QED
    BY <2>1, <2>2, <2>3, QuietStep
<1>2. CASE Load(t)
  <2>1. UNCHANGED <<previous, swaps>> /\ prev' = [prev EXCEPT ![t] = previous]
    BY <1>2 DEF Load, sampler, log
  <2>2. \A u \in Threads \ {t} : pc'[u] = pc[u]
    BY <1>0, <1>2 DEF Load
  <2> QED
    BY <1>0, <2>1, <2>2 DEF IInv, KeptInv, LastIn, SwapsChain
<1>3. CASE Store(t)
  <2>1. prev' = prev /\ prev[t] = previous /\ previous = LastIn
    BY <1>3 DEF Store, IInv, KeptInv, locals
  <2>2. \A u \in Threads : pc'[u] # "store"
    <3>1. pc[t] = "store" /\ pc' = [pc EXCEPT ![t] = "unlock"]
      BY <1>3 DEF Store
    <3>2. \A u \in Threads : pc[u] = "store" => u = t
      BY <3>1 DEF IInv, LockInv
    <3> QED
      BY <1>0, <3>1, <3>2
  <2>3. CASE reading[t] = None
    <3>1. swaps' = swaps /\ previous' = previous
      BY <1>3, <2>3 DEF Store, Kept
    <3> QED
      BY <2>1, <2>2, <3>1 DEF IInv, KeptInv, LastIn, SwapsChain
  <2>4. CASE reading[t] # None
    <3> DEFINE e == <<prev[t], reading[t]>>
               n == Len(swaps)
    <3>1. swaps' = Append(swaps, e) /\ previous' = reading[t]
      BY <1>3, <2>4 DEF Store, Kept
    <3>2. swaps \in Seq((Readings \cup {None}) \X Readings) /\ n \in Nat
      BY DEF IInv, TypeOK
    <3>3. /\ Len(swaps') = n + 1 /\ swaps'[n + 1] = e
          /\ \A i \in 1..n : swaps'[i] = swaps[i]
          /\ swaps' # <<>>
      BY <3>1, <3>2
    <3>4. KeptInv'
      BY <2>2, <3>1, <3>2, <3>3 DEF KeptInv, LastIn
    <3>5. e[1] = IF n = 0 THEN None ELSE swaps[n][2]
      BY <2>1, <3>2 DEF LastIn
    <3>6. SwapsChain'
      <4> SUFFICES ASSUME NEW i \in 1..(n + 1)
                   PROVE  swaps'[i][1] = IF i = 1 THEN None ELSE swaps'[i - 1][2]
        BY <3>3 DEF SwapsChain
      <4>1. CASE i = n + 1
        BY <3>2, <3>3, <3>5, <4>1
      <4>2. CASE i # n + 1
        <5>1. i \in 1..n /\ (i # 1 => i - 1 \in 1..n)
          BY <3>2, <4>2
        <5> QED
          BY <3>3, <5>1 DEF IInv, SwapsChain
      <4> QED
        BY <4>1, <4>2
    <3> QED
      BY <3>4, <3>6
  <2> QED
    BY <2>3, <2>4
<1> QED
  BY <1>1, <1>2, <1>3 DEF Acts, Step

\* A thread changes its own call, and nothing of the machine.
LEMMA ActFrame ==
  ASSUME TypeOK, NEW t \in Threads, Acts(t)
  PROVE  /\ UNCHANGED <<setting, clock, counter, consumed>>
         /\ \A u \in Threads \ {t} : /\ pc'[u] = pc[u] /\ wait'[u] = wait[u]
                                     /\ reading'[u] = reading[u] /\ prev'[u] = prev[u]
<1> USE DEF TypeOK, Go
<1>1. CASE Sample(t) \/ Measure(t)
  BY <1>1 DEF Sample, Measure, Begin, world
<1>2. CASE EvaluateLimit(t) \/ ReadCounter(t) \/ LoseCounter(t) \/ TakeTime(t) \/ TakeStart(t) \/ Wake(t)
  BY <1>2 DEF EvaluateLimit, ReadCounter, LoseCounter, TakeTime, TakeStart, Wake, world, locals
<1>3. CASE Acquire(t) \/ Load(t) \/ Store(t) \/ Unlock(t) \/ Report(t)
  BY <1>3 DEF Acquire, Load, Store, Unlock, Report, world, locals
<1> QED
  BY <1>1, <1>2, <1>3 DEF Acts, Step

LEMMA StepCall ==
  ASSUME IInv, NEW t \in Threads, Acts(t)
  PROVE  CallInv'
<1>1. /\ UNCHANGED setting
      /\ \A u \in Threads \ {t} : pc'[u] = pc[u] /\ wait'[u] = wait[u] /\ reading'[u] = reading[u]
  BY ActFrame DEF IInv
<1>2. /\ pc[t] \in Pc /\ (pc[t] # "idle" => t \in setting.callers)
      /\ pc[t] = "counter" => reading[t] = None
      /\ pc[t] \in {"lock", "load", "store", "unlock"} => wait[t] = None
      /\ pc \in [Threads -> Pc] /\ wait \in [Threads -> Nat \cup {None}]
      /\ reading \in [Threads -> Readings \cup {None}]
  BY DEF IInv, TypeOK, CallInv, Measuring
<1>3. /\ pc'[t] # "idle" => t \in setting.callers
      /\ pc'[t] = "counter" => reading'[t] = None
      /\ pc'[t] \in {"lock", "load", "store", "unlock"} => wait'[t] = None
  <2> USE DEF Go, Read, Measuring
  <2>1. CASE Sample(t) \/ Measure(t)
    BY <1>2, <2>1 DEF Sample, Measure, Begin
  <2>2. CASE EvaluateLimit(t) \/ ReadCounter(t) \/ LoseCounter(t) \/ TakeTime(t) \/ TakeStart(t) \/ Wake(t)
    BY <1>2, <2>2 DEF EvaluateLimit, ReadCounter, LoseCounter, TakeTime, TakeStart, Wake, locals
  <2>3. CASE Acquire(t) \/ Load(t) \/ Store(t) \/ Unlock(t) \/ Report(t)
    BY <1>2, <2>3 DEF Acquire, Load, Store, Unlock, Report, locals
  <2> QED
    BY <2>1, <2>2, <2>3 DEF Acts, Step
<1>4. ASSUME NEW u \in Threads
      PROVE  /\ pc'[u] # "idle" => u \in setting.callers
             /\ pc'[u] = "counter" => reading'[u] = None
             /\ pc'[u] \in {"lock", "load", "store", "unlock"} => wait'[u] = None
  <2>1. CASE u = t
    BY <1>3, <2>1
  <2>2. CASE u # t
    BY <1>1, <2>2 DEF IInv, CallInv, Measuring
  <2> QED
    BY <2>1, <2>2
<1> QED
  BY <1>1, <1>4 DEF CallInv, Measuring

\* What a reading holds when its counter has just been read.
LEMMA ReadFacts ==
  ASSUME IInv, NEW t \in Threads, ReadCounter(t)
  PROVE  /\ reading'[t] \in Readings /\ pc'[t] = "clock" /\ pc[t] = "counter"
         /\ reading'[t].usage = counter[reading'[t].level]
         /\ reading'[t].seen = consumed[reading'[t].level]
         /\ Behind(reading'[t])
         /\ \A x \in Readings : Behind(x) => Grows(x, reading'[t])
         /\ UNCHANGED <<clock, counter, consumed, previous, wait, prev, loads>>
<1> DEFINE r == [cores |-> limit[t].cores, level |-> limit[t].level,
                 usage |-> counter[limit[t].level], seen |-> consumed[limit[t].level],
                 taken_at |-> 0]
<1>1. limit[t] \in [cores : Nat, level : Levels]
  BY CapAssumption DEF ReadCounter, IInv, StepInv
<1>2. r \in Readings
  BY <1>1 DEF Readings, IInv, TypeOK
<1>3. /\ reading'[t] = r /\ pc'[t] = "clock" /\ pc[t] = "counter"
      /\ UNCHANGED <<clock, counter, consumed, previous, wait, prev, loads>>
  BY DEF ReadCounter, Go, IInv, TypeOK, world, sampler, log
<1>4. r.usage = counter[r.level] /\ r.seen = consumed[r.level]
  OBVIOUS
<1> HIDE DEF r
<1>5. /\ r.level \in Levels /\ counter[r.level] \in Nat /\ consumed[r.level] \in Nat
  BY <1>2 DEF Readings, IInv, TypeOK
<1>6. Behind(r)
  BY <1>4, <1>5 DEF Behind
<1>7. ASSUME NEW x \in Readings, Behind(x)
      PROVE  Grows(x, r)
  <2>1. x.usage \in Nat /\ x.seen \in Nat
    BY DEF Readings
  <2> QED
    BY <1>4, <1>5, <1>7, <2>1 DEF Behind, Grows, Max0
<1> QED
  BY <1>2, <1>3, <1>4, <1>6, <1>7

\* A reading with its time is the same reading.
LEMMA DatedFacts ==
  ASSUME IInv, NEW t \in Threads, reading[t] \in Readings
  PROVE  /\ Dated(t) \in Readings /\ Dated(t).taken_at = clock
         /\ Behind(Dated(t))
         /\ \A x : Grows(x, reading[t]) => Grows(x, Dated(t))
<1> DEFINE d == Dated(t)
<1>1. /\ d \in Readings /\ d.taken_at = clock /\ d.level = reading[t].level
      /\ d.usage = reading[t].usage /\ d.seen = reading[t].seen
  BY DEF Dated, Readings, IInv, TypeOK
<1>2. reading[t] # None /\ Behind(reading[t])
  BY NoneAssumption DEF IInv, AgeInv
<1> HIDE DEF d
<1>3. Behind(d)
  BY <1>1, <1>2 DEF Behind
<1>4. \A x : Grows(x, reading[t]) => Grows(x, d)
  BY <1>1, <1>2 DEF Grows
<1> QED
  BY <1>1, <1>3, <1>4 DEF d

\* What a load that a call reports is made of.
LEMMA ReportFacts ==
  ASSUME NEW t \in Threads, Report(t)
  PROVE  /\ loads \subseteq loads'
         /\ \A x \in loads' \ loads : /\ reading[t] # None /\ prev[t] # None
                                      /\ x.from = prev[t] /\ x.to = reading[t]
                                      /\ x.own <=> Measuring(t)
                                      /\ x.ratio = UsedRatio(prev[t], reading[t])
                                      /\ Comparable(prev[t], reading[t])
         /\ \A x, y \in loads' \ loads : x = y
<1> DEFINE y == [from |-> prev[t], to |-> reading[t], ratio |-> UsedRatio(prev[t], reading[t]),
                 before |-> before[t], limit |-> limit[t], own |-> Measuring(t)]
<1>1. loads' = IF reading[t] # None /\ prev[t] # None /\ Comparable(prev[t], reading[t])
               THEN loads \cup {y} ELSE loads
  BY DEF Report
<1>2. /\ y.from = prev[t] /\ y.to = reading[t] /\ (y.own <=> Measuring(t))
      /\ y.ratio = UsedRatio(prev[t], reading[t])
  OBVIOUS
<1> HIDE DEF y
<1> QED
  BY <1>1, <1>2

LEMMA StepAge ==
  ASSUME IInv, NEW t \in Threads, Acts(t)
  PROVE  AgeInv'
<1>1. /\ UNCHANGED <<clock, counter, consumed>>
      /\ \A u \in Threads \ {t} : /\ pc'[u] = pc[u] /\ wait'[u] = wait[u]
                                  /\ reading'[u] = reading[u] /\ prev'[u] = prev[u]
  BY ActFrame DEF IInv
<1>2. /\ pc \in [Threads -> Pc] /\ wait \in [Threads -> Nat \cup {None}]
      /\ reading \in [Threads -> Readings \cup {None}] /\ prev \in [Threads -> Readings \cup {None}]
      /\ Behind(previous) /\ Behind(reading[t]) /\ Behind(prev[t]) /\ Behind(None)
      /\ wait[t] # None /\ pc[t] \in {"clock", "report"} => Grows(prev[t], reading[t])
      /\ \A x \in loads : Aged(x)
  BY DEF IInv, AgeInv, TypeOK, Measuring, Behind, Aged
<1>3. ASSUME Behind(previous)', Behind(reading'[t]), Behind(prev'[t]),
             wait'[t] # None /\ pc'[t] \in {"clock", "report"} => Grows(prev'[t], reading'[t]),
             \A x \in loads' : Aged(x)
      PROVE  AgeInv'
  <2>1. \A x \in loads' : Aged(x)'
    BY <1>3 DEF Aged, Grows, Comparable, UsedRatio, Max0
  <2>2. ASSUME NEW u \in Threads
        PROVE  /\ Behind(reading[u])' /\ Behind(prev[u])'
               /\ wait'[u] # None /\ pc'[u] \in {"clock", "report"} => Grows(prev[u], reading[u])'
    <3>1. CASE u = t
      BY <1>1, <1>3, <3>1 DEF Behind, Grows
    <3>2. CASE u # t
      BY <1>1, <3>2 DEF IInv, AgeInv, Measuring, Behind, Grows
    <3> QED
      BY <3>1, <3>2
  <2> QED
    BY <1>3, <2>1, <2>2 DEF AgeInv, Measuring, Aged
<1>4. ASSUME UNCHANGED previous
      PROVE  Behind(previous)'
  BY <1>1, <1>2, <1>4 DEF Behind
<1> USE DEF Go
<1>5. CASE Sample(t) \/ Measure(t) \/ Wake(t)
  <2>1. UNCHANGED <<previous, reading, prev, loads>> /\ pc'[t] = "limit"
    BY <1>2, <1>5 DEF Sample, Measure, Begin, Wake, sampler, locals, log
  <2> QED
    BY <1>2, <1>3, <1>4, <2>1
<1>6. CASE EvaluateLimit(t)
  <2>1. UNCHANGED <<previous, prev, loads>> /\ reading'[t] = None
    BY <1>2, <1>6 DEF EvaluateLimit, sampler, log
  <2> QED
    BY <1>2, <1>3, <1>4, <2>1 DEF Grows
<1>7. CASE ReadCounter(t)
  <2>1. /\ UNCHANGED <<previous, prev, wait, loads>> /\ Behind(reading'[t])
        /\ prev[t] # None => Grows(prev[t], reading'[t])
    BY <1>2, <1>7, ReadFacts
  <2>2. Grows(prev[t], reading'[t])
    BY <2>1 DEF Grows
  <2> QED
    BY <1>2, <1>3, <1>4, <2>1, <2>2
<1>8. CASE LoseCounter(t)
  <2>1. UNCHANGED <<previous, reading, prev, loads>> /\ reading[t] = None
    BY <1>8 DEF LoseCounter, IInv, CallInv, sampler, locals, log
  <2> QED
    BY <1>2, <1>3, <1>4, <2>1 DEF Grows
<1>9. CASE TakeTime(t)
  <2>1. /\ UNCHANGED <<previous, prev, wait, loads>> /\ reading'[t] = Dated(t) /\ reading[t] \in Readings
        /\ pc[t] = "clock"
    BY <1>2, <1>9 DEF TakeTime, IInv, StepInv, sampler, log
  <2>2. Behind(Dated(t)) /\ (Grows(prev[t], reading[t]) => Grows(prev[t], Dated(t)))
    BY <2>1, DatedFacts
  <2> QED
    BY <1>2, <1>3, <1>4, <2>1, <2>2
<1>10. CASE TakeStart(t)
  <2>1. /\ UNCHANGED <<previous, reading, loads>> /\ prev'[t] = Dated(t) /\ reading[t] \in Readings
        /\ pc'[t] = "sleep"
    BY <1>2, <1>10 DEF TakeStart, IInv, StepInv, sampler, log
  <2>2. Behind(Dated(t))
    BY <2>1, DatedFacts
  <2> QED
    BY <1>2, <1>3, <1>4, <2>1, <2>2
<1>11. CASE Acquire(t)
  <2>1. UNCHANGED <<previous, reading, prev, loads>> /\ pc'[t] = "load"
    BY <1>2, <1>11 DEF Acquire, locals, log
  <2> QED
    BY <1>2, <1>3, <1>4, <2>1
<1>12. CASE Load(t)
  <2>1. UNCHANGED <<previous, reading, loads>> /\ prev'[t] = previous /\ pc'[t] = "store"
    BY <1>2, <1>12 DEF Load, sampler, log
  <2> QED
    BY <1>2, <1>3, <1>4, <2>1
<1>13. CASE Store(t)
  <2>1. UNCHANGED <<reading, prev, loads>> /\ previous' = Kept(t) /\ pc'[t] = "unlock"
    BY <1>2, <1>13 DEF Store, locals
  <2>2. Behind(previous)'
    BY <1>1, <1>2, <2>1 DEF Kept, Behind
  <2> QED
    BY <1>2, <1>3, <2>1, <2>2
<1>14. CASE Unlock(t)
  <2>1. UNCHANGED <<previous, reading, prev, wait, loads>> /\ wait[t] = None
    BY <1>14 DEF Unlock, IInv, CallInv, Measuring, locals, log
  <2> QED
    BY <1>2, <1>3, <1>4, <2>1
<1>15. CASE Report(t)
  <2>1. UNCHANGED previous /\ reading'[t] = None /\ prev'[t] = None /\ pc'[t] = "idle" /\ pc[t] = "report"
    BY <1>2, <1>15 DEF Report, sampler
  <2>2. \A x \in loads' \ loads : /\ x.from = prev[t] /\ x.to = reading[t]
                                  /\ x.own => wait[t] # None
                                  /\ x.ratio = UsedRatio(prev[t], reading[t])
                                  /\ Comparable(prev[t], reading[t])
    BY <1>15, ReportFacts DEF Measuring
  <2>3. \A x \in loads' : Aged(x)
    BY <1>2, <2>1, <2>2 DEF Aged
  <2> QED
    BY <1>2, <1>3, <1>4, <2>1, <2>3
<1> QED
  BY <1>5, <1>6, <1>7, <1>8, <1>9, <1>10, <1>11, <1>12, <1>13, <1>14, <1>15 DEF Acts, Step

LEMMA StepSole ==
  ASSUME IInv, NEW t \in Threads, Acts(t)
  PROVE  SoleInv'
<1> SUFFICES ASSUME SoleCaller'
             PROVE  SoleInv'
  BY DEF SoleInv
<1>1. /\ UNCHANGED <<setting, clock>> /\ SoleCaller
      /\ \A u \in Threads \ {t} : pc'[u] = pc[u]
  BY ActFrame DEF IInv, SoleCaller
<1>2. /\ pc \in [Threads -> Pc] /\ wait \in [Threads -> Nat \cup {None}]
      /\ reading \in [Threads -> Readings \cup {None}] /\ prev \in [Threads -> Readings \cup {None}]
      /\ previous \in Readings \cup {None} /\ clock \in Nat
      /\ \A r \in Readings : r.taken_at \in Nat
  BY DEF IInv, TypeOK, Readings
<1>3. t \in setting.callers /\ \A u \in Threads \ {t} : pc'[u] = "idle"
  <2>1. t \in setting.callers
    <3>1. CASE Sample(t) \/ Measure(t)
      BY <3>1 DEF Sample, Measure, Begin
    <3>2. CASE Step(t)
      <4>1. pc[t] # "idle"
        BY <3>2 DEF Step, EvaluateLimit, ReadCounter, LoseCounter, TakeTime, TakeStart, Wake, Acquire, Load,
                    Store, Unlock, Report
      <4> QED
        BY <4>1 DEF IInv, CallInv
    <3> QED
      BY <3>1, <3>2 DEF Acts
  <2> QED
    BY <1>1, <2>1 DEF IInv, CallInv, SoleCaller
<1>4. /\ previous # None => previous.taken_at <= clock
      /\ wait[t] = None /\ reading[t] # None =>
           /\ pc[t] \in {"clock", "lock", "load", "store"} => Grows(previous, reading[t])
           /\ pc[t] \in {"lock", "load", "store"} =>
                /\ reading[t].taken_at <= clock
                /\ previous # None => previous.taken_at <= reading[t].taken_at
           /\ pc[t] \in {"unlock", "report"} =>
                /\ previous = reading[t] /\ Grows(prev[t], reading[t])
                /\ \A x \in loads : ~x.own => prev[t] # None /\ x.to.taken_at <= prev[t].taken_at
      /\ \A x \in loads : ~x.own => /\ previous # None /\ x.to.taken_at <= previous.taken_at
                                    /\ Grows(x.from, x.to)
      /\ WindowsDisjoint
  BY <1>1 DEF IInv, SoleInv, Measuring
<1>5. ASSUME previous' # None => previous'.taken_at <= clock,
             wait'[t] = None /\ reading'[t] # None =>
               /\ pc'[t] \in {"clock", "lock", "load", "store"} => Grows(previous', reading'[t])
               /\ pc'[t] \in {"lock", "load", "store"} =>
                    /\ reading'[t].taken_at <= clock
                    /\ previous' # None => previous'.taken_at <= reading'[t].taken_at
               /\ pc'[t] \in {"unlock", "report"} =>
                    /\ previous' = reading'[t] /\ Grows(prev'[t], reading'[t])
                    /\ \A x \in loads' : ~x.own => prev'[t] # None /\ x.to.taken_at <= prev'[t].taken_at,
             \A x \in loads' : ~x.own => /\ previous' # None /\ x.to.taken_at <= previous'.taken_at
                                         /\ Grows(x.from, x.to),
             WindowsDisjoint'
      PROVE  SoleInv'
  BY <1>1, <1>3, <1>5 DEF SoleInv, Measuring, Grows
<1>6. ASSUME UNCHANGED <<previous, loads>>
      PROVE  /\ previous' # None => previous'.taken_at <= clock
             /\ \A x \in loads' : ~x.own => /\ previous' # None /\ x.to.taken_at <= previous'.taken_at
                                            /\ Grows(x.from, x.to)
             /\ WindowsDisjoint'
  BY <1>4, <1>6 DEF WindowsDisjoint
<1> USE DEF Go
<1>7. CASE Sample(t) \/ Measure(t) \/ Wake(t)
  <2>1. UNCHANGED <<previous, loads>> /\ pc'[t] = "limit"
    BY <1>2, <1>7 DEF Sample, Measure, Begin, Wake, sampler, locals, log
  <2> QED
    BY <1>5, <1>6, <2>1
<1>8. CASE EvaluateLimit(t)
  <2>1. UNCHANGED <<previous, loads>> /\ reading'[t] = None
    BY <1>2, <1>8 DEF EvaluateLimit, sampler, log
  <2> QED
    BY <1>5, <1>6, <2>1
<1>9. CASE ReadCounter(t)
  <2>1. UNCHANGED <<previous, loads>> /\ pc'[t] = "clock"
    BY <1>9, ReadFacts
  <2>2. previous # None => Grows(previous, reading'[t])
    BY <1>2, <1>9, ReadFacts DEF IInv, AgeInv
  <2>3. Grows(previous', reading'[t])
    BY <2>1, <2>2 DEF Grows
  <2> QED
    BY <1>5, <1>6, <2>1, <2>3
<1>10. CASE LoseCounter(t)
  <2>1. UNCHANGED <<previous, reading, loads>> /\ reading[t] = None
    BY <1>10 DEF LoseCounter, IInv, CallInv, sampler, locals, log
  <2> QED
    BY <1>5, <1>6, <2>1
<1>11. CASE TakeTime(t)
  <2>1. /\ UNCHANGED <<previous, wait, loads>> /\ reading'[t] = Dated(t) /\ reading[t] \in Readings
        /\ pc[t] = "clock" /\ pc'[t] = (IF wait[t] # None THEN "report" ELSE "lock")
    BY <1>2, <1>11 DEF TakeTime, Read, Measuring, IInv, StepInv, sampler, log
  <2>2. Dated(t).taken_at = clock /\ (Grows(previous, reading[t]) => Grows(previous, Dated(t)))
    BY <2>1, DatedFacts
  <2>3. wait[t] = None => Grows(previous', Dated(t)) /\ pc'[t] = "lock"
    BY <1>4, <2>1, <2>2, NoneAssumption
  <2> QED
    BY <1>2, <1>4, <1>5, <1>6, <2>1, <2>2, <2>3
<1>12. CASE TakeStart(t)
  <2>1. UNCHANGED <<previous, loads>> /\ pc'[t] = "sleep"
    BY <1>2, <1>12 DEF TakeStart, sampler, log
  <2> QED
    BY <1>5, <1>6, <2>1
<1>13. CASE Acquire(t)
  <2>1. UNCHANGED <<previous, wait, reading, loads>> /\ pc[t] = "lock" /\ pc'[t] = "load"
    BY <1>2, <1>13 DEF Acquire, locals, log
  <2> QED
    BY <1>4, <1>5, <1>6, <2>1
<1>14. CASE Load(t)
  <2>1. UNCHANGED <<previous, wait, reading, loads>> /\ pc[t] = "load" /\ pc'[t] = "store"
    BY <1>2, <1>14 DEF Load, sampler, log
  <2> QED
    BY <1>4, <1>5, <1>6, <2>1
<1>15. CASE Store(t)
  <2>1. /\ UNCHANGED <<wait, reading, prev, loads>> /\ previous' = Kept(t) /\ pc[t] = "store" /\ pc'[t] = "unlock"
        /\ wait[t] = None /\ prev[t] = previous
    BY <1>2, <1>15 DEF Store, locals, IInv, CallInv, KeptInv, Measuring
  <2>2. CASE reading[t] = None
    BY <1>5, <1>6, <2>1, <2>2 DEF Kept
  <2>3. CASE reading[t] # None
    <3>1. previous' = reading[t] /\ reading[t] \in Readings
      BY <1>2, <2>1, <2>3 DEF Kept
    <3>2. WindowsDisjoint'
      BY <1>4, <2>1 DEF WindowsDisjoint
    <3>3. \A x \in loads' : ~x.own => /\ previous' # None /\ x.to.taken_at <= previous'.taken_at
                                      /\ Grows(x.from, x.to)
      <4> SUFFICES ASSUME NEW x \in loads, ~x.own
                   PROVE  /\ previous' # None /\ x.to.taken_at <= previous'.taken_at
                          /\ Grows(x.from, x.to)
        BY <2>1
      <4>1. /\ x.to.taken_at \in Nat /\ previous \in Readings /\ previous # None
            /\ x.to.taken_at <= previous.taken_at /\ Grows(x.from, x.to)
        BY <1>2, <1>4 DEF IInv, TypeOK
      <4>2. previous.taken_at <= reading[t].taken_at /\ previous.taken_at \in Nat /\ reading[t].taken_at \in Nat
        BY <1>2, <1>4, <2>1, <2>3, <3>1, <4>1
      <4> QED
        BY <2>3, <3>1, <4>1, <4>2
    <3>4. /\ previous'.taken_at <= clock /\ Grows(prev'[t], reading'[t]) /\ previous' = reading'[t]
          /\ \A x \in loads' : ~x.own => prev'[t] # None /\ x.to.taken_at <= prev'[t].taken_at
      BY <1>4, <2>1, <2>3, <3>1
    <3> QED
      BY <1>5, <2>1, <3>2, <3>3, <3>4
  <2> QED
    BY <2>2, <2>3
<1>16. CASE Unlock(t)
  <2>1. UNCHANGED <<previous, wait, reading, prev, loads>> /\ pc[t] = "unlock" /\ pc'[t] = "report"
    BY <1>2, <1>16 DEF Unlock, locals, log
  <2> QED
    BY <1>4, <1>5, <1>6, <2>1
<1>17. CASE Report(t)
  <2>1. UNCHANGED previous /\ pc'[t] = "idle" /\ pc[t] = "report"
    BY <1>2, <1>17 DEF Report, sampler
  <2>2. /\ loads \subseteq loads'
        /\ \A x \in loads' \ loads : ~x.own =>
             /\ wait[t] = None /\ reading[t] # None /\ prev[t] # None
             /\ x.from = prev[t] /\ x.to = reading[t]
    BY <1>17, ReportFacts DEF Measuring
  <2>3. \A x \in loads' : ~x.own => /\ previous' # None /\ x.to.taken_at <= previous'.taken_at
                                    /\ Grows(x.from, x.to)
    <3> SUFFICES ASSUME NEW x \in loads', x \notin loads, ~x.own
                 PROVE  /\ previous' # None /\ x.to.taken_at <= previous'.taken_at
                        /\ Grows(x.from, x.to)
      BY <1>4, <2>1
    <3>1. previous = reading[t] /\ Grows(prev[t], reading[t]) /\ reading[t] \in Readings
      BY <1>2, <1>4, <2>1, <2>2
    <3> QED
      BY <1>2, <2>1, <2>2, <3>1
  <2>4. WindowsDisjoint'
    <3> SUFFICES ASSUME NEW x \in loads', NEW y \in loads', x # y, ~x.own, ~y.own
                 PROVE  x.to.taken_at <= y.from.taken_at \/ y.to.taken_at <= x.from.taken_at
      BY DEF WindowsDisjoint
    <3>1. CASE x \in loads /\ y \in loads
      BY <1>4, <3>1 DEF WindowsDisjoint
    <3>2. CASE x \in loads /\ y \notin loads
      BY <1>4, <2>1, <2>2, <3>2
    <3>3. CASE x \notin loads /\ y \in loads
      BY <1>4, <2>1, <2>2, <3>3
    <3>4. CASE x \notin loads /\ y \notin loads
      BY <1>17, <3>4, ReportFacts
    <3> QED
      BY <3>1, <3>2, <3>3, <3>4
  <2> QED
    BY <1>4, <1>5, <2>1, <2>3, <2>4
<1> QED
  BY <1>7, <1>8, <1>9, <1>10, <1>11, <1>12, <1>13, <1>14, <1>15, <1>16, <1>17 DEF Acts, Step

\* Every step of the machine and of a thread preserves the invariant.
LEMMA NextInv == IInv /\ [Next]_vars => IInv'
<1> SUFFICES ASSUME IInv, [Next]_vars
             PROVE  IInv'
  OBVIOUS
<1>1. CASE Machine
  BY <1>1, MachineInv
<1>2. ASSUME NEW t \in Threads, Acts(t)
      PROVE  IInv'
  BY <1>2, StepTypes, StepLock, StepChain, StepCall, StepAge, StepSole DEF IInv
<1>3. CASE UNCHANGED vars
  <2> USE <1>3 DEF vars, world, sampler, locals, log
  <2>1. TypeOK' /\ LockInv' /\ StepInv' /\ KeptInv' /\ SwapsChain'
    BY DEF IInv, TypeOK, LockInv, StepInv, KeptInv, LastIn, SwapsChain
  <2>2. CallInv' /\ AgeInv'
    BY DEF IInv, CallInv, AgeInv, Behind, Grows, Measuring
  <2>3. SoleInv'
    BY DEF IInv, SoleInv, SoleCaller, WindowsDisjoint, Grows, Measuring
  <2> QED
    BY <2>1, <2>2, <2>3 DEF IInv
<1> QED
  BY <1>1, <1>2, <1>3 DEF Next, Acts

\* The types, the lock and the chain, for any number of threads and calls.
THEOREM Inductive == Spec => []IInv
<1> QED
  BY InitInv, NextInv, PTL DEF Spec

\* A store puts in the reading of its thread and takes out the one kept.
LEMMA StoreSwaps ==
  ASSUME IInv, NEW t \in Threads, Store(t)
  PROVE  Atomic!Swap \/ UNCHANGED <<previous, swaps>>
<1>1. prev[t] = previous /\ reading[t] \in Readings \cup {None}
  BY DEF Store, IInv, KeptInv, TypeOK
<1> QED
  BY <1>1 DEF Store, Kept, Atomic!Swap

\* However many threads share a sampler, what it keeps goes from one reading to
\* the next as by a single step: CpuSampler implements AtomicSampler.
THEOREM ImplementsAtomicSwap == Spec => SwapsAtomically
<1>1. Init => Atomic!Init
  BY DEF Init, Atomic!Init
<1>2. IInv /\ [Next]_vars => [Atomic!Swap]_<<previous, swaps>>
  <2> SUFFICES ASSUME IInv, [Next]_vars
               PROVE  Atomic!Swap \/ UNCHANGED <<previous, swaps>>
    OBVIOUS
  <2>1. CASE Machine
    BY <2>1 DEF Machine, Time, Tick, ChangeCap, Restart, sampler, log
  <2>2. ASSUME NEW t \in Threads, Acts(t), ~Store(t)
        PROVE  UNCHANGED <<previous, swaps>>
    BY <2>2 DEF Acts, Step, Sample, Measure, Begin, EvaluateLimit, ReadCounter, LoseCounter,
                TakeTime, TakeStart, Wake, Acquire, Load, Unlock, Report, sampler, log
  <2>3. CASE UNCHANGED vars
    BY <2>3 DEF vars, sampler, log
  <2> QED
    BY <2>1, <2>2, <2>3, StoreSwaps DEF Next, Acts
<1> QED
  BY <1>1, <1>2, Inductive, PTL DEF Spec, SwapsAtomically, Atomic!Spec

\* Each reading put in is what the next swap measures from.
THEOREM SwapsAreChained == Spec => []SwapsChain
<1>1. IInv => SwapsChain
  BY DEF IInv
<1> QED
  BY <1>1, Inductive, PTL

\* The types of the variables; a counter never says more than was consumed.
THEOREM TypeCorrect == Spec => []TypeOK
<1>1. IInv => TypeOK
  BY DEF IInv
<1> QED
  BY <1>1, Inductive, PTL

\* Loads of a sampler that one thread calls never cover the same time.
THEOREM SoleDisjoint == Spec => []OwnWindowsDisjoint
<1>1. IInv => OwnWindowsDisjoint
  BY DEF IInv, SoleInv, OwnWindowsDisjoint
<1> QED
  BY <1>1, Inductive, PTL

\* No load of a one-shot ratio, nor of a sampler that one thread calls, stands for
\* more time than was consumed.
THEOREM NeverInflated == Spec => []LoadNeverInflated
<1>1. IInv => LoadNeverInflated
  <2> SUFFICES ASSUME IInv, NEW x \in loads, SoleCaller \/ x.own
               PROVE  x.ratio.part \in 0..x.ratio.of /\ x.ratio.part <= x.to.seen - x.from.seen
    BY DEF LoadNeverInflated
  <2>1. x.from \in Readings /\ x.to \in Readings /\ x.from # None /\ x.to # None
    BY NoneAssumption DEF IInv, TypeOK
  <2>2. Comparable(x.from, x.to) /\ x.ratio = UsedRatio(x.from, x.to)
    BY DEF IInv, AgeInv, Aged
  <2>3. Max0(x.to.usage - x.from.usage) <= x.to.seen - x.from.seen
    BY <2>1, <2>2 DEF IInv, AgeInv, Aged, SoleInv, Grows, Comparable
  <2>4. /\ x.ratio.part \in 0..x.ratio.of
        /\ x.ratio.part <= Max0(x.to.usage - x.from.usage)
    BY <2>1, <2>2, UsedRatioFacts
  <2>5. x.ratio.part \in Nat /\ Max0(x.to.usage - x.from.usage) \in Nat
        /\ x.to.seen - x.from.seen \in Int
    BY <2>1, <2>2, UsedRatioFacts DEF Readings, Max0
  <2> QED
    BY <2>3, <2>4, <2>5
<1> QED
  BY <1>1, Inductive, PTL

=============================================================================
