-------------------------- MODULE WindowsJobProofs --------------------------
(***************************************************************************)
(* Proofs about WindowsJob, for any job, any machine and any changes.      *)
(***************************************************************************)
EXTENDS WindowsJob, FiniteSetTheorems, SequenceTheorems, TLAPS

----------------------------------------------------------------------------
(* Processors.                                                             *)

LEMMA ProcessorsFacts ==
    ASSUME NEW groups, Grouped(groups)
    PROVE  /\ IsFiniteSet(Processors(groups))
           /\ Cardinality(Processors(groups)) \in Nat
           /\ \A g \in DOMAIN groups : groups[g] # {} => Cardinality(Processors(groups)) > 0
           /\ \A g \in DOMAIN groups : Len(groups) = 1 =>
                Cardinality(groups[g]) = Cardinality(Processors(groups))
<1> DEFINE T == {{g} \X groups[g] : g \in DOMAIN groups}
           f == [g \in DOMAIN groups |-> {g} \X groups[g]]
<1>1. DOMAIN groups = 1..Len(groups) /\ Len(groups) \in Nat
  BY LenProperties DEF Grouped
<1>2. IsFiniteSet(DOMAIN groups)
  BY <1>1, FS_Interval
<1>3. f \in Surjection(DOMAIN groups, T)
  BY DEF Surjection
<1>4. IsFiniteSet(T)
  BY <1>2, <1>3, FS_Surjection
<1>5. ASSUME NEW g \in DOMAIN groups
      PROVE  /\ IsFiniteSet({g} \X groups[g])
             /\ Cardinality({g} \X groups[g]) = Cardinality(groups[g])
  <2>1. IsFiniteSet({g}) /\ Cardinality({g}) = 1
    BY FS_Singleton
  <2>2. IsFiniteSet(groups[g]) /\ Cardinality(groups[g]) \in Nat
    BY FS_CardinalityType DEF Grouped
  <2>3. /\ IsFiniteSet({g} \X groups[g])
        /\ Cardinality({g} \X groups[g]) = Cardinality({g}) * Cardinality(groups[g])
    BY <2>1, <2>2, FS_Product
  <2> QED
    BY <2>1, <2>2, <2>3
<1>6. IsFiniteSet(Processors(groups))
  <2>1. \A t \in T : IsFiniteSet(t)
    BY <1>5
  <2> QED
    BY <1>4, <2>1, FS_UNION DEF Processors
<1>7. Cardinality(Processors(groups)) \in Nat
  BY <1>6, FS_CardinalityType
<1>8. ASSUME NEW g \in DOMAIN groups, groups[g] # {}
      PROVE  Cardinality(Processors(groups)) > 0
  <2>1. PICK p \in groups[g] : TRUE
    BY <1>8
  <2>2. <<g, p>> \in Processors(groups)
    BY DEF Processors
  <2> QED
    BY <1>6, <1>7, <2>2, FS_EmptySet
<1>9. ASSUME NEW g \in DOMAIN groups, Len(groups) = 1
      PROVE  Cardinality(groups[g]) = Cardinality(Processors(groups))
  <2>1. DOMAIN groups = {g}
    BY <1>1, <1>9
  <2>2. Processors(groups) = {g} \X groups[g]
    BY <2>1 DEF Processors
  <2> QED
    BY <1>5, <2>2
<1> QED
  BY <1>6, <1>7, <1>8, <1>9

\* The machine has a core, and a count that answers gives all of them.
LEMMA CoresFacts ==
    ASSUME host \in Hosts
    PROVE  /\ Cores \in Nat \ {0} /\ CountCores \in {None, Cores}
           /\ host.headroom \in Nat /\ host.ceiling \in (Nat \ {0}) \cup {None}
<1>1. /\ Grouped(host.groups) /\ host.here \in DOMAIN host.groups /\ host.groups[host.here] # {}
      /\ host.headroom \in Nat /\ host.ceiling \in (Nat \ {0}) \cup {None}
  BY HostAssumption
<1>2. Cores \in Nat /\ Cores > 0
  BY <1>1, ProcessorsFacts DEF Cores
<1>3. CountCores \in {None, Cores}
  BY <1>1, ProcessorsFacts DEF CountCores, Cores
<1> QED
  BY <1>1, <1>2, <1>3

----------------------------------------------------------------------------
(* Rates and limits.                                                       *)

\* A rate that is read is the one the kernel holds the job to.
LEMMA RateFacts ==
    ASSUME NEW c \in Limits["control"]
    PROVE  RateCap(c) = RateOf(c) /\ RateCap(c) \in (Nat \ {0}) \cup {None}
<1>1. Stored(c) /\ c.low \in Nat /\ c.high \in Nat
  <2>1. Stored(c)
    BY LimitAssumption
  <2>2. c.low \in 0..Word - 1 /\ c.high \in 0..Word - 1
    BY <2>1 DEF Stored, Controls
  <2>3. 0..Word - 1 \subseteq Nat
    BY DEF Word
  <2> QED
    BY <2>1, <2>2, <2>3
<1>2. CASE {"enable", "range"} \subseteq c.flags
  <2>1. "enable" \in c.flags /\ "range" \in c.flags /\ c.high > 0
    BY <1>1, <1>2 DEF Stored
  <2>2. {"range", "hard"} \cap c.flags # {}
    BY <2>1
  <2>3. RateCap(c) = c.high
    BY <2>1, <2>2 DEF RateCap
  <2>4. RateOf(c) = c.high
    BY <1>2 DEF RateOf
  <2> QED
    BY <1>1, <2>1, <2>3, <2>4
<1>3. CASE {"enable", "hard"} \subseteq c.flags /\ "range" \notin c.flags
  <2>1. c.low > 0 /\ c.high = 0
    BY <1>1, <1>3 DEF Stored
  <2>2. c.low + Word * c.high = c.low
    BY <1>1, <2>1 DEF Word
  <2> QED
    BY <1>1, <1>3, <2>1, <2>2 DEF RateCap, RateOf
<1>4. CASE ~({"enable", "range"} \subseteq c.flags) /\ ~({"enable", "hard"} \subseteq c.flags)
  BY <1>4 DEF RateCap, RateOf
<1> QED
  BY <1>2, <1>3, <1>4

LEMMA JobFacts ==
    ASSUME NEW j \in JobType
    PROVE  /\ j # None /\ j.memory \in Nat \cup {None} /\ j.process \in Nat \cup {None}
           /\ j.control \in Limits["control"]
           /\ j.affinity # None => /\ Grouped(j.affinity)
                                   /\ Cardinality(Processors(j.affinity)) \in Nat
BY LimitAssumption, NumberAssumption, ProcessorsFacts DEF JobType

\* Room is a number of what can be committed, and no less of a job whose limits
\* leave more.
LEMMA RoomFacts ==
    ASSUME host \in Hosts, NEW j \in JobType \cup {None}, NEW committed \in Nat
    PROVE  RoomOf(j, committed) \in Nat
BY JobFacts, CoresFacts DEF RoomOf, Max0, AtMost

----------------------------------------------------------------------------
(* What the system does between two queries.                               *)

LEMMA SetFacts ==
    ASSUME NEW j \in JobType, NEW field \in Fields, NEW value \in Limits[field]
    PROVE  /\ [j EXCEPT ![field] = value] \in JobType
           /\ \A other \in Fields \ {field} : [j EXCEPT ![field] = value][other] = j[other]
<1>1. CASE field = "memory"
  BY <1>1 DEF JobType, Fields
<1>2. CASE field = "process"
  BY <1>2 DEF JobType, Fields
<1>3. CASE field = "control"
  BY <1>3 DEF JobType, Fields
<1>4. CASE field = "affinity"
  BY <1>4 DEF JobType, Fields
<1> QED
  BY <1>1, <1>2, <1>3, <1>4 DEF Fields

\* A step of the system leaves the call where it is, and what it changes is
\* among what was touched.
LEMMA SystemFacts ==
    ASSUME TypeOK, System
    PROVE  /\ UNCHANGED <<host, pc, machine_cpus, memory, flagged, share, cpu, reply>>
           /\ job' \in JobType \cup {None} /\ charge' \in 0..MaxCommit
           /\ mute' \subseteq Flaky /\ changes' \in 0..MaxChanges
           /\ touched' \subseteq Fields \cup {"job", "charge", "calls"}
           /\ hidden' = hidden \cap mute'
           /\ job # None => job' # None
           /\ pc = "idle" => touched' = {} /\ room' = 0
           /\ pc # "idle" =>
                /\ touched \subseteq touched' /\ touched' # {}
                /\ room' = Larger(room, RoomOf(job', charge'))
                /\ "job" \notin touched' =>
                     /\ job = None => job' = None
                     /\ job # None => \A field \in Fields \ touched' : job'[field] = job[field]
<1>1. ASSUME NEW what \in Fields \cup {"job", "charge", "calls"}, Observe(what)
      PROVE  /\ UNCHANGED <<host, pc, machine_cpus, memory, flagged, share, cpu, reply>>
             /\ touched' \subseteq Fields \cup {"job", "charge", "calls"}
             /\ hidden' = hidden \cap mute'
             /\ pc = "idle" => touched' = {} /\ room' = 0
             /\ pc # "idle" => touched' = touched \cup {what} /\ room' = Larger(room, RoomOf(job', charge'))
  BY <1>1 DEF Observe, locals, TypeOK
<1>2. Count => changes' \in 0..MaxChanges
  BY NumberAssumption DEF Count, TypeOK
<1>3. ASSUME NEW field \in Fields, NEW value \in Limits[field], SetLimit(field, value)
      PROVE  /\ job' \in JobType /\ charge' = charge /\ mute' = mute /\ changes' \in 0..MaxChanges
             /\ Observe(field) /\ job # None
             /\ \A other \in Fields \ {field} : job'[other] = job[other]
  <2>1. /\ job \in JobType /\ job' = [job EXCEPT ![field] = value] /\ charge' = charge /\ mute' = mute
        /\ Count /\ Observe(field) /\ job # None
    BY <1>3 DEF SetLimit, TypeOK
  <2>2. \A j \in JobType : /\ [j EXCEPT ![field] = value] \in JobType
                           /\ \A other \in Fields \ {field} : [j EXCEPT ![field] = value][other] = j[other]
    BY SetFacts
  <2>3. job' \in JobType /\ \A other \in Fields \ {field} : job'[other] = job[other]
    BY <2>1, <2>2, Zenon
  <2> QED
    BY <1>2, <2>1, <2>3
<1>4. ASSUME NEW j \in Jobs, NEW committed \in 0..MaxCommit, Assign(j, committed)
      PROVE  /\ job' \in JobType /\ charge' \in 0..MaxCommit /\ mute' = mute /\ changes' \in 0..MaxChanges
             /\ Observe("job")
  BY <1>2, <1>4, LimitAssumption DEF Assign
<1>5. ASSUME NEW committed \in 0..MaxCommit, Commit(committed)
      PROVE  /\ job' = job /\ charge' \in 0..MaxCommit /\ mute' = mute /\ changes' = changes
             /\ Observe("charge")
  BY <1>5 DEF Commit
<1>6. ASSUME NEW call \in Flaky, Flip(call)
      PROVE  /\ job' = job /\ charge' = charge /\ mute' \subseteq Flaky /\ changes' \in 0..MaxChanges
             /\ Observe("calls")
  BY <1>2, <1>6 DEF Flip, TypeOK
<1>7. CASE \E field \in Fields : \E value \in Limits[field] : SetLimit(field, value)
  <2>1. PICK field \in Fields : \E value \in Limits[field] : SetLimit(field, value)
    BY <1>7
  <2>2. PICK value \in Limits[field] : SetLimit(field, value)
    BY <2>1
  <2>3. Observe(field) /\ field \in Fields \cup {"job", "charge", "calls"}
    BY <1>3, <2>2
  <2> QED
    BY <1>1, <1>3, <2>2, <2>3, NumberAssumption DEF TypeOK
<1>8. CASE \E j \in Jobs, committed \in 0..MaxCommit : Assign(j, committed)
  BY <1>1, <1>4, <1>8, NumberAssumption DEF TypeOK
<1>9. CASE \E committed \in 0..MaxCommit : Commit(committed)
  BY <1>1, <1>5, <1>9 DEF TypeOK
<1>10. CASE \E call \in Flaky : Flip(call)
  BY <1>1, <1>6, <1>10 DEF TypeOK
<1> QED
  BY <1>7, <1>8, <1>9, <1>10 DEF System

----------------------------------------------------------------------------
(* What the calls hold, step by step.                                      *)

WalkOK == TypeOK /\ WalkInv

LEMMA InitWalk == Init => WalkOK
<1> SUFFICES ASSUME Init
             PROVE  WalkOK
  OBVIOUS
<1>1. host \in Hosts /\ job \in JobType \cup {None}
  BY LimitAssumption DEF Init
<1>2. TypeOK
  <2>1. /\ charge \in 0..MaxCommit /\ changes \in 0..MaxChanges /\ room \in Nat /\ mute \subseteq Flaky
        /\ hidden \subseteq mute
    BY NumberAssumption DEF Init
  <2>2. memory \in [limit : Nat \cup {None}, used : Nat \cup {None}, available : Nat \cup {None},
                    unreadable : BOOLEAN, usage_unreadable : BOOLEAN]
    BY DEF Init, NoMemory
  <2>3. cpu \in [quota : Fractions \cup {None}, cpu_set : Fractions \cup {None},
                 unreadable : BOOLEAN, unconvertible : BOOLEAN]
    BY DEF Init, NoCpu
  <2>4. reply \in [notices : SUBSET Notices, budget : Budgets \cup {None}, cores : Fractions \cup {None}]
    BY DEF Init, Pending, Notices
  <2> QED
    BY <1>1, <2>1, <2>2, <2>3, <2>4 DEF Init, TypeOK
<1>3. WalkInv
  BY DEF Init, WalkInv, Judged, CpuSteps, NoCpu, Refused
<1> QED
  BY <1>2, <1>3 DEF WalkOK

LEMMA SystemWalk == WalkOK /\ System => WalkOK'
<1> SUFFICES ASSUME WalkOK, System
             PROVE  WalkOK'
  OBVIOUS
<1>1. room' \in Nat
  <2>1. RoomOf(job', charge') \in Nat
    BY SystemFacts, RoomFacts, NumberAssumption DEF WalkOK, TypeOK
  <2> QED
    BY <2>1, SystemFacts DEF WalkOK, TypeOK, Larger
<1>2. TypeOK'
  BY <1>1, SystemFacts DEF WalkOK, TypeOK
<1>3. WalkInv'
  BY SystemFacts DEF WalkOK, WalkInv, Refused, Cores
<1> QED
  BY <1>2, <1>3 DEF WalkOK

Readings == [limit : Nat \cup {None}, used : Nat \cup {None}, available : Nat \cup {None},
             unreadable : BOOLEAN, usage_unreadable : BOOLEAN]

\* Of the two figures none is left out that the other can stand in for.
LEMMA PairedFacts ==
    ASSUME NEW m \in Readings, m.limit \in Nat, NEW available \in Nat \cup {None}
    PROVE  /\ Paired(m, available) \in Readings
           /\ Paired(m, available).limit = m.limit
           /\ Paired(m, available).unreadable = m.unreadable
           /\ Paired(m, available).used =
                (IF m.used = None /\ available # None THEN Max0(m.limit - available) ELSE m.used)
           /\ Paired(m, available).available =
                (IF available = None /\ m.used # None THEN Max0(m.limit - m.used) ELSE available)
           /\ Paired(m, available).usage_unreadable = (m.used = None /\ available = None)
<1> DEFINE u == IF m.used = None /\ available # None THEN Max0(m.limit - available) ELSE m.used
           a == IF available = None /\ m.used # None THEN Max0(m.limit - m.used) ELSE available
<1>1. u \in Nat \cup {None} /\ a \in Nat \cup {None}
  <2>1. \A n \in Int : Max0(n) \in Nat
    BY DEF Max0
  <2>2. m.used \in Nat \cup {None}
    BY DEF Readings
  <2>3. available # None => m.limit - available \in Int
    OBVIOUS
  <2>4. m.used # None => m.limit - m.used \in Int
    BY <2>2
  <2> QED
    BY <2>1, <2>2, <2>3, <2>4
<1>2. (m.used = None /\ available = None) \in BOOLEAN
  OBVIOUS
<1> HIDE DEF u, a
<1>3. Paired(m, available) = [m EXCEPT !.used = u, !.available = a,
                                       !.usage_unreadable = (m.used = None /\ available = None)]
  BY Zenon DEF Paired, u, a
<1>4. /\ Paired(m, available) \in Readings
      /\ Paired(m, available).limit = m.limit
      /\ Paired(m, available).unreadable = m.unreadable
      /\ Paired(m, available).used = u
      /\ Paired(m, available).available = a
      /\ Paired(m, available).usage_unreadable = (m.used = None /\ available = None)
  BY <1>1, <1>2, <1>3 DEF Readings
<1> QED
  BY <1>4 DEF u, a

LEMMA ReconcileFacts ==
    ASSUME NEW limit \in Nat, NEW used \in Nat, NEW available \in Nat
    PROVE  LET b == Reconcile(limit, used, available)
           IN  /\ b \in Budgets /\ b.limit = limit /\ b.used = AtMost(used, limit)
               /\ b.used + b.available <= limit
               /\ b.available = AtMost(available, limit - AtMost(used, limit))
BY DEF Reconcile, Budgets, AtMost, Max0

LEMMA StartWalk == WalkOK /\ (BeginMemory \/ BeginCpu) => WalkOK'
<1> SUFFICES ASSUME WalkOK, BeginMemory \/ BeginCpu
             PROVE  WalkOK'
  OBVIOUS
<1>1. RoomOf(job, charge) \in Nat
  BY RoomFacts, NumberAssumption DEF WalkOK, TypeOK
<1>2. Cores \in Nat /\ CountCores \in {None, Cores} /\ CountCores \in Nat \cup {None}
  BY CoresFacts DEF WalkOK, TypeOK
<1>3. Pending \in [notices : SUBSET Notices, budget : Budgets \cup {None}, cores : Fractions \cup {None}]
  BY DEF Pending, Notices
<1>4. /\ UNCHANGED <<host, job, charge, mute, changes, memory, flagged, share, cpu>>
      /\ pc = "idle" /\ reply' = Pending /\ touched' = {} /\ hidden' = mute /\ room' = RoomOf(job, charge)
      /\ \/ pc' = "memory_limits" /\ machine_cpus' = machine_cpus
         \/ pc' = "cpu_limits" /\ machine_cpus' = CountCores
  BY DEF BeginMemory, BeginCpu, Start, system, locals
<1>5. TypeOK'
  BY <1>1, <1>2, <1>3, <1>4 DEF WalkOK, TypeOK
<1>6. WalkInv'
  BY <1>2, <1>4 DEF WalkOK, WalkInv, Judged, CpuSteps, Cores, Refused, TypeOK
<1> QED
  BY <1>5, <1>6 DEF WalkOK

LEMMA MemoryWalk == WalkOK /\ (QueryMemoryLimits \/ ReadCharge \/ ReadCommit) => WalkOK'
<1> SUFFICES ASSUME WalkOK, QueryMemoryLimits \/ ReadCharge \/ ReadCommit
             PROVE  WalkOK'
  OBVIOUS
<1>1. /\ UNCHANGED <<host, job, charge, mute, changes, machine_cpus, flagged, share, cpu, reply, touched,
                     hidden, room>>
      /\ pc \in {"memory_limits", "charge", "commit"}
  BY DEF QueryMemoryLimits, ReadCharge, ReadCommit, system, history
<1>2. cpu = NoCpu /\ memory \in Readings /\ job \in JobType \cup {None}
  BY <1>1 DEF WalkOK, WalkInv, TypeOK, Readings
<1>3. ASSUME memory' \in Readings, pc' \in Judged,
             pc' \in {"charge", "commit"} =>
               /\ job # None /\ memory'.limit # None /\ memory'.available = None
               /\ ~memory'.unreadable /\ ~memory'.usage_unreadable,
             pc' = "charge" => memory'.used = None,
             pc' = "judge_memory" =>
               /\ memory'.used = None <=> memory'.available = None
               /\ memory'.used # None => memory'.limit # None /\ ~memory'.usage_unreadable
               /\ memory'.unreadable => memory'.limit = None
      PROVE  WalkOK'
  <2>1. TypeOK'
    BY <1>1, <1>3 DEF WalkOK, TypeOK, Readings, Judged
  <2>2. WalkInv'
    BY <1>1, <1>2, <1>3 DEF WalkInv, Judged, CpuSteps, NoCpu, Refused
  <2> QED
    BY <2>1, <2>2 DEF WalkOK
<1>4. CASE QueryMemoryLimits
  <2>1. CASE ~Answers("limits") /\ memory' = [NoMemory EXCEPT !.unreadable = (job # None)]
             /\ pc' = "judge_memory"
    <3>1. (job # None) \in BOOLEAN
      OBVIOUS
    <3>2. /\ memory' \in Readings /\ memory'.limit = None /\ memory'.used = None
          /\ memory'.available = None
      BY <2>1, <3>1 DEF NoMemory, Readings
    <3> QED
      BY <1>3, <2>1, <3>2 DEF Judged
  <2>2. CASE /\ Answers("limits") /\ PerProcess(job) /\ memory' = [NoMemory EXCEPT !.limit = job.process]
             /\ pc' = "judge_memory"
    <3>1. job.process \in Nat \cup {None}
      BY <1>2, <2>2, JobFacts DEF Answers
    <3>2. /\ memory' \in Readings /\ memory'.used = None /\ memory'.available = None
          /\ memory'.unreadable = FALSE
      BY <2>2, <3>1 DEF NoMemory, Readings
    <3> QED
      BY <1>3, <2>2, <3>2 DEF Judged
  <2>3. CASE /\ Answers("limits") /\ memory' = [NoMemory EXCEPT !.limit = job.memory]
             /\ pc' = IF job.memory = None THEN "judge_memory" ELSE "charge"
    <3>1. job # None /\ job.memory \in Nat \cup {None}
      BY <1>2, <2>3, JobFacts DEF Answers
    <3>2. /\ memory' \in Readings /\ memory'.used = None /\ memory'.available = None
          /\ memory'.unreadable = FALSE /\ memory'.usage_unreadable = FALSE
          /\ memory'.limit = job.memory
      BY <2>3, <3>1 DEF NoMemory, Readings
    <3> QED
      BY <1>3, <2>3, <3>1, <3>2 DEF Judged
  <2> QED
    BY <1>4, <2>1, <2>2, <2>3 DEF QueryMemoryLimits
<1>5. CASE ReadCharge
  <2>1. /\ job # None /\ memory.limit # None /\ memory.available = None
        /\ ~memory.unreadable /\ ~memory.usage_unreadable
        /\ memory' = [memory EXCEPT !.used = IF Answers("violation") THEN charge ELSE None]
        /\ pc' = "commit" /\ charge \in Nat
    BY <1>5, NumberAssumption DEF ReadCharge, WalkOK, WalkInv, TypeOK
  <2>2. /\ memory' \in Readings /\ memory'.limit = memory.limit /\ memory'.available = None
        /\ memory'.unreadable = memory.unreadable /\ memory'.usage_unreadable = memory.usage_unreadable
    BY <1>2, <2>1 DEF Readings
  <2> QED
    BY <1>3, <2>1, <2>2 DEF Judged
<1>6. CASE ReadCommit
  <2> DEFINE a == IF "commit" \in mute THEN None ELSE AvailableCommit
  <2>1. /\ job \in JobType /\ memory.limit \in Nat /\ ~memory.unreadable /\ charge \in Nat
        /\ memory' = Paired(memory, a) /\ pc' = "judge_memory"
    BY <1>2, <1>6, NumberAssumption DEF ReadCommit, WalkOK, WalkInv, TypeOK, Readings
  <2>2. a \in Nat \cup {None}
    <3>1. AvailableCommit \in Nat
      BY <2>1, JobFacts, CoresFacts DEF AvailableCommit, Max0, WalkOK, TypeOK
    <3> QED
      BY <3>1
  <2> HIDE DEF a
  <2>3. /\ memory' \in Readings /\ memory'.limit = memory.limit /\ memory'.unreadable = memory.unreadable
        /\ memory'.used = (IF memory.used = None /\ a # None THEN Max0(memory.limit - a) ELSE memory.used)
        /\ memory'.available = (IF a = None /\ memory.used # None THEN Max0(memory.limit - memory.used) ELSE a)
        /\ memory'.usage_unreadable = (memory.used = None /\ a = None)
    BY <1>2, <2>1, <2>2, PairedFacts
  <2>4. \A n \in Int : Max0(n) # None
    BY NumberAssumption DEF Max0
  <2>5. /\ memory.used # None => memory.used \in Nat
        /\ a # None => a \in Nat
    BY <1>2, <2>2 DEF Readings
  <2>6. /\ a # None => Max0(memory.limit - a) # None
        /\ memory.used # None => Max0(memory.limit - memory.used) # None
    BY <2>1, <2>4, <2>5
  <2>7. memory'.used = None <=> memory'.available = None
    BY <2>3, <2>6
  <2>8. memory'.used # None => ~memory'.usage_unreadable
    <3>1. memory'.usage_unreadable <=> memory.used = None /\ a = None
      BY <2>3
    <3> QED
      BY <2>3, <3>1
  <2> QED
    BY <1>3, <2>1, <2>3, <2>7, <2>8, NumberAssumption DEF Judged
<1> QED
  BY <1>4, <1>5, <1>6

CpuReadings == [quota : Fractions \cup {None}, cpu_set : Fractions \cup {None},
                unreadable : BOOLEAN, unconvertible : BOOLEAN]

\* A restriction that cannot be told drops both.
LEMMA DropsFacts ==
    ASSUME NEW why \in {"unreadable", "unconvertible"}, Drops(why)
    PROVE  /\ cpu' \in CpuReadings /\ pc' = "judge_cpu"
           /\ cpu'.quota = None /\ cpu'.cpu_set = None
           /\ cpu'.unreadable <=> why = "unreadable"
           /\ cpu'.unconvertible <=> why = "unconvertible"
           /\ Refused' /\ cpu'.unreadable # cpu'.unconvertible
<1>1. CASE why = "unreadable"
  BY <1>1 DEF Drops, NoCpu, CpuReadings, Refused
<1>2. CASE why = "unconvertible"
  BY <1>2 DEF Drops, NoCpu, CpuReadings, Refused
<1> QED
  BY <1>1, <1>2

\* The number of cores a share comes to, and of an affinity.
LEMMA SizeFacts ==
    ASSUME TypeOK
    PROVE  /\ share # None /\ CountCores # None =>
                <<share * CountCores, Scale>> \in Fractions /\ CountCores = Cores
           /\ job # None => AffinityCores \in Nat /\ <<AffinityCores, 1>> \in Fractions
<1>1. share # None /\ CountCores # None =>
        <<share * CountCores, Scale>> \in Fractions /\ CountCores = Cores
  BY CoresFacts DEF TypeOK, Fractions
<1>2. ASSUME job # None
      PROVE  AffinityCores \in Nat
  <2>1. job \in JobType /\ Grouped(host.groups)
    BY <1>2, HostAssumption DEF TypeOK
  <2> QED
    BY <2>1, JobFacts, ProcessorsFacts DEF AffinityCores
<1> QED
  BY <1>1, <1>2 DEF Fractions

LEMMA CpuWalk == WalkOK /\ (QueryCpuLimits \/ QueryRate \/ SizeRate \/ ReadAffinity) => WalkOK'
<1> SUFFICES ASSUME WalkOK, QueryCpuLimits \/ QueryRate \/ SizeRate \/ ReadAffinity
             PROVE  WalkOK'
  OBVIOUS
<1>1. /\ UNCHANGED <<host, job, charge, mute, changes, machine_cpus, memory, reply, touched, hidden, room>>
      /\ pc \in {"cpu_limits", "rate", "size", "affinity"}
  BY DEF QueryCpuLimits, QueryRate, SizeRate, ReadAffinity, system, history
<1>2. /\ memory = NoMemory /\ machine_cpus \in {None, Cores} /\ Cores' = Cores
      /\ cpu \in CpuReadings /\ share \in Nat \cup {None} /\ flagged \in BOOLEAN
      /\ pc \in {"cpu_limits", "rate", "size"} => cpu = NoCpu
      /\ pc = "affinity" => cpu.cpu_set = None /\ ~Refused
      /\ pc # "cpu_limits" => job # None
      /\ NoCpu.cpu_set = None /\ NoCpu.quota = None /\ NoCpu.unreadable = FALSE
      /\ NoCpu.unconvertible = FALSE
  BY <1>1 DEF WalkOK, WalkInv, TypeOK, Judged, CpuSteps, Cores, CpuReadings, NoCpu
<1>3. ASSUME cpu' \in CpuReadings, share' \in Nat \cup {None}, flagged' \in BOOLEAN,
             pc' \in {"rate", "size", "affinity", "judge_cpu"},
             pc' # "judge_cpu" => job # None,
             pc' \in {"rate", "size"} => cpu' = NoCpu,
             pc' = "affinity" => cpu'.cpu_set = None /\ ~Refused',
             Refused' => cpu'.quota = None /\ cpu'.cpu_set = None /\ cpu'.unreadable # cpu'.unconvertible
      PROVE  WalkOK'
  <2>1. TypeOK'
    BY <1>1, <1>3 DEF WalkOK, TypeOK, CpuReadings
  <2>2. WalkInv'
    BY <1>1, <1>2, <1>3 DEF WalkInv, Judged, CpuSteps
  <2> QED
    BY <2>1, <2>2 DEF WalkOK
<1>4. ASSUME NEW why \in {"unreadable", "unconvertible"}, Drops(why),
             share' \in Nat \cup {None}, flagged' \in BOOLEAN
      PROVE  WalkOK'
  BY <1>3, <1>4, DropsFacts
<1>5. ~Refused' \/ cpu' # NoCpu
  BY DEF Refused, NoCpu
<1>6. CASE QueryCpuLimits
  <2>1. share' = share
    BY <1>6 DEF QueryCpuLimits
  <2>2. CASE job = None /\ Reads("judge_cpu") /\ UNCHANGED flagged
    BY <1>1, <1>2, <1>3, <1>5, <1>6, <2>1, <2>2 DEF Reads, QueryCpuLimits
  <2>3. CASE Drops("unreadable") /\ UNCHANGED flagged
    BY <1>2, <1>4, <2>1, <2>3
  <2>4. CASE Answers("limits") /\ Reads("rate") /\ flagged' = (job.affinity # None)
    BY <1>1, <1>2, <1>3, <1>5, <1>6, <2>1, <2>4 DEF Reads, QueryCpuLimits, Answers
  <2> QED
    BY <1>6, <2>2, <2>3, <2>4 DEF QueryCpuLimits
<1>7. CASE QueryRate
  <2>1. pc = "rate" /\ flagged' = flagged
    BY <1>7 DEF QueryRate
  <2>2. CASE Drops("unreadable") /\ UNCHANGED share
    BY <1>2, <1>4, <2>1, <2>2
  <2>3. CASE Reads("size") /\ share' = RateCap(job.control)
    <3>1. share' \in Nat \cup {None}
      BY <1>2, <2>1, <2>3, JobFacts, RateFacts DEF WalkOK, TypeOK
    <3> QED
      BY <1>2, <1>3, <1>5, <2>1, <2>3, <3>1 DEF Reads
  <2> QED
    BY <1>7, <2>2, <2>3 DEF QueryRate
<1>8. CASE SizeRate
  <2>1. pc = "size" /\ flagged' = flagged /\ share' = share
    BY <1>8 DEF SizeRate
  <2>2. CASE Drops("unconvertible")
    BY <1>2, <1>4, <2>1, <2>2
  <2>3. CASE /\ share = None \/ CountCores # None
             /\ cpu' = [cpu EXCEPT !.quota = IF share = None THEN None ELSE <<share * CountCores, Scale>>]
             /\ pc' = IF flagged THEN "affinity" ELSE "judge_cpu"
    <3>1. share = None \/ <<share * CountCores, Scale>> \in Fractions
      BY <2>3, SizeFacts DEF WalkOK
    <3>2. /\ cpu' \in CpuReadings /\ cpu'.cpu_set = None /\ cpu'.unreadable = FALSE
          /\ cpu'.unconvertible = FALSE
      BY <1>2, <2>1, <2>3, <3>1 DEF CpuReadings
    <3> QED
      BY <1>2, <1>3, <2>1, <2>3, <3>2 DEF Refused
  <2> QED
    BY <1>8, <2>2, <2>3 DEF SizeRate
<1>9. CASE ReadAffinity
  <2>1. pc = "affinity" /\ flagged' = flagged /\ share' = share
    BY <1>9 DEF ReadAffinity
  <2>2. CASE Drops("unreadable")
    BY <1>2, <1>4, <2>1, <2>2
  <2>3. CASE /\ Answers("affinity") /\ AffinityCores > 0
             /\ cpu' = [cpu EXCEPT !.cpu_set = <<AffinityCores, 1>>]
             /\ pc' = "judge_cpu"
    <3>1. <<AffinityCores, 1>> \in Fractions
      BY <2>3, SizeFacts DEF WalkOK, Answers
    <3>2. cpu' \in CpuReadings /\ cpu'.unreadable = FALSE /\ cpu'.unconvertible = FALSE
      BY <1>2, <2>1, <2>3, <3>1 DEF CpuReadings, Refused
    <3> QED
      BY <1>2, <1>3, <2>1, <2>3, <3>2 DEF Refused
  <2> QED
    BY <1>9, <2>2, <2>3 DEF ReadAffinity
<1> QED
  BY <1>6, <1>7, <1>8, <1>9

----------------------------------------------------------------------------
(* The judgements.                                                         *)

\* The reasons there is no budget, each told from the others.
LEMMA RejectionFacts ==
    ASSUME memory.unreadable => memory.limit = None
    PROVE  /\ memory.unreadable => MemoryRejection = {"MEMORY_LIMIT_UNREADABLE"}
           /\ ~memory.unreadable /\ memory.limit = None => MemoryRejection = {}
           /\ memory.limit # None /\ host.ceiling = None => MemoryRejection = {"MACHINE_MEMORY_UNKNOWN"}
           /\ memory.limit # None /\ host.ceiling # None =>
                MemoryRejection =
                  IF memory.limit >= host.ceiling THEN {"MEMORY_LIMIT_COVERS_MACHINE"}
                  ELSE IF memory.usage_unreadable THEN {"MEMORY_USAGE_UNREADABLE"}
                  ELSE IF memory.used = None THEN {"MEMORY_USAGE_UNAVAILABLE"} ELSE {}
BY Zenon DEF MemoryRejection

\* What get_memory_budget() returns.
LEMMA JudgeMemoryFacts ==
    ASSUME WalkOK, JudgeMemory
    PROVE  /\ reply'.notices = MemoryRejection /\ MemoryRejection \subseteq Notices
           /\ reply'.cores = None
           /\ reply'.budget \in Budgets \cup {None}
           /\ reply' \in [notices : SUBSET Notices, budget : Budgets \cup {None}, cores : Fractions \cup {None}]
           /\ MemoryRejection # {} \/ memory.limit = None => reply'.budget = None
           /\ MemoryRejection = {} /\ memory.limit # None =>
                /\ memory.limit \in Nat /\ memory.used \in Nat /\ memory.available \in Nat
                /\ reply'.budget = Reconcile(memory.limit, memory.used, memory.available)
                /\ reply'.budget # None
                /\ host.ceiling # None /\ memory.limit < host.ceiling
<1> DEFINE b == IF MemoryRejection # {} \/ memory.limit = None THEN None
                ELSE Reconcile(memory.limit, memory.used, memory.available)
<1>1. reply' = [Pending EXCEPT !.notices = MemoryRejection, !.budget = b]
  BY DEF JudgeMemory, Answer
<1>2. /\ memory \in Readings /\ host.ceiling \in (Nat \ {0}) \cup {None}
      /\ memory.used = None <=> memory.available = None
      /\ memory.unreadable => memory.limit = None
  BY CoresFacts DEF JudgeMemory, WalkOK, WalkInv, TypeOK, Readings
<1>3. MemoryRejection \subseteq Notices
  <2>1. MemoryRejection \in {{}, {"MEMORY_LIMIT_UNREADABLE"}, {"MACHINE_MEMORY_UNKNOWN"},
                             {"MEMORY_LIMIT_COVERS_MACHINE"}, {"MEMORY_USAGE_UNREADABLE"},
                             {"MEMORY_USAGE_UNAVAILABLE"}}
    BY <1>2, RejectionFacts
  <2> QED
    BY <2>1 DEF Notices
<1>4. ASSUME MemoryRejection = {}, memory.limit # None
      PROVE  /\ memory.limit \in Nat /\ memory.used \in Nat /\ memory.available \in Nat
             /\ b = Reconcile(memory.limit, memory.used, memory.available) /\ b \in Budgets
             /\ host.ceiling # None /\ memory.limit < host.ceiling
  <2>1. host.ceiling # None /\ ~(memory.limit >= host.ceiling) /\ memory.used # None
    BY <1>2, <1>4, RejectionFacts
  <2>2. /\ memory.limit \in Nat /\ memory.used \in Nat /\ memory.available \in Nat
        /\ memory.limit < host.ceiling
    BY <1>2, <1>4, <2>1 DEF Readings
  <2> QED
    BY <1>4, <2>1, <2>2, ReconcileFacts
<1>5. b \in Budgets \cup {None}
  BY <1>4
<1> HIDE DEF b
<1>6. /\ reply'.notices = MemoryRejection /\ reply'.budget = b /\ reply'.cores = None
      /\ reply' \in [notices : SUBSET Notices, budget : Budgets \cup {None}, cores : Fractions \cup {None}]
  BY <1>1, <1>3, <1>5 DEF Pending
<1> QED
  BY <1>3, <1>4, <1>5, <1>6, NumberAssumption DEF b

LEMMA LessOrder ==
    ASSUME NEW x \in Fractions, NEW y \in Fractions
    PROVE  ~Less(x, x) /\ (Less(x, y) => ~Less(y, x))
<1>1. PICK a \in Nat, b \in Nat : x = <<a, b>>
  BY NumberAssumption DEF Fractions
<1>2. PICK c \in Nat, d \in Nat : y = <<c, d>>
  BY NumberAssumption DEF Fractions
<1>3. a * d \in Nat /\ c * b \in Nat /\ a * b \in Nat
  OBVIOUS
<1>4. /\ Less(x, x) <=> a * b < a * b
      /\ Less(x, y) <=> a * d < c * b
      /\ Less(y, x) <=> c * b < a * d
  BY <1>1, <1>2 DEF Less
<1> QED
  BY <1>3, <1>4

LEMMA TightestFacts ==
    ASSUME TypeOK, Candidates # {}
    PROVE  /\ Tightest \in Candidates /\ Tightest \in {cpu.quota, cpu.cpu_set}
           /\ Tightest \in Fractions /\ Tightest # None
           /\ \A y \in Candidates : ~Less(y, Tightest)
<1>1. Candidates \subseteq {cpu.quota, cpu.cpu_set} /\ Candidates \subseteq Fractions
  BY DEF Candidates, TypeOK
<1>2. \E x \in Candidates : \A y \in Candidates : ~Less(y, x)
  <2>1. CASE cpu.quota \in Candidates /\ cpu.cpu_set \in Candidates
    <3>1. ~Less(cpu.quota, cpu.quota) /\ ~Less(cpu.cpu_set, cpu.cpu_set)
      BY <1>1, <2>1, LessOrder
    <3>2. ~Less(cpu.quota, cpu.cpu_set) \/ ~Less(cpu.cpu_set, cpu.quota)
      BY <1>1, <2>1, LessOrder
    <3> QED
      BY <1>1, <2>1, <3>1, <3>2
  <2>2. CASE ~(cpu.quota \in Candidates /\ cpu.cpu_set \in Candidates)
    <3>1. PICK x \in Candidates : TRUE
      OBVIOUS
    <3>2. Candidates = {x}
      BY <1>1, <2>2
    <3> QED
      BY <1>1, <3>2, LessOrder
  <2> QED
    BY <2>1, <2>2
<1>3. Tightest \in Candidates /\ \A y \in Candidates : ~Less(y, Tightest)
  BY <1>2 DEF Tightest
<1> QED
  BY <1>1, <1>3, NumberAssumption

\* What get_cpu_limit() returns.
LEMMA JudgeCpuFacts ==
    ASSUME WalkOK, JudgeCpu
    PROVE  /\ reply'.notices = CpuNotices /\ CpuNotices \subseteq Notices
           /\ reply'.cores = (IF Candidates = {} THEN None ELSE Tightest)
           /\ reply' \in [notices : SUBSET Notices, budget : Budgets \cup {None}, cores : Fractions \cup {None}]
<1> DEFINE c == IF Candidates = {} THEN None ELSE Tightest
<1>1. reply' = [Pending EXCEPT !.notices = CpuNotices, !.cores = c]
  BY DEF JudgeCpu, Answer
<1>2. CpuNotices \subseteq Notices
  BY DEF CpuNotices, Notices
<1>3. c \in Fractions \cup {None}
  BY TightestFacts DEF WalkOK
<1> HIDE DEF c
<1>4. /\ reply'.notices = CpuNotices /\ reply'.cores = c
      /\ reply' \in [notices : SUBSET Notices, budget : Budgets \cup {None}, cores : Fractions \cup {None}]
  BY <1>1, <1>2, <1>3 DEF Pending
<1> QED
  BY <1>2, <1>4 DEF c

LEMMA JudgeWalk == WalkOK /\ (JudgeMemory \/ JudgeCpu) => WalkOK'
<1> SUFFICES ASSUME WalkOK, JudgeMemory \/ JudgeCpu
             PROVE  WalkOK'
  OBVIOUS
<1>1. /\ pc' = "idle" /\ machine_cpus' = None /\ memory' = NoMemory /\ flagged' = FALSE /\ share' = None
      /\ cpu' = NoCpu /\ touched' = {} /\ hidden' = {} /\ room' = 0
      /\ UNCHANGED <<host, job, charge, mute, changes>>
  BY DEF JudgeMemory, JudgeCpu, Answer, system
<1>2. reply' \in [notices : SUBSET Notices, budget : Budgets \cup {None}, cores : Fractions \cup {None}]
  BY JudgeMemoryFacts, JudgeCpuFacts
<1>3. /\ NoMemory \in Readings /\ NoCpu \in CpuReadings /\ NoCpu.unreadable = FALSE
      /\ NoCpu.unconvertible = FALSE
  BY DEF NoMemory, NoCpu, Readings, CpuReadings
<1>4. TypeOK'
  BY <1>1, <1>2, <1>3 DEF WalkOK, TypeOK, Readings, CpuReadings
<1>5. WalkInv'
  BY <1>1, <1>3 DEF WalkInv, Judged, CpuSteps, Refused
<1> QED
  BY <1>4, <1>5 DEF WalkOK

LEMMA NextWalk == WalkOK /\ [Next]_vars => WalkOK'
<1> SUFFICES ASSUME WalkOK, [Next]_vars
             PROVE  WalkOK'
  OBVIOUS
<1>1. CASE UNCHANGED vars
  <2>1. UNCHANGED <<host, job, charge, mute, changes, pc, machine_cpus, memory, flagged, share, cpu, reply,
                    touched, hidden, room>>
    BY <1>1 DEF vars, system, locals, history
  <2> QED
    BY <2>1 DEF WalkOK, TypeOK, WalkInv, Refused, Cores
<1> QED
  BY <1>1, SystemWalk, StartWalk, MemoryWalk, CpuWalk, JudgeWalk DEF Next, Reader

----------------------------------------------------------------------------
(* The room of a call.                                                     *)

\* Where a per-process limit is not the tighter one, the room is that of the job.
LEMMA JobRoom ==
    ASSUME NEW j \in JobType, j.memory # None, ~PerProcess(j), NEW committed \in Nat
    PROVE  RoomOf(j, committed) = Max0(j.memory - committed)
<1>1. j # None /\ j.memory \in Nat /\ j.process \in Nat \cup {None}
  BY JobFacts
<1>2. j.process # None => j.process >= j.memory
  BY <1>1 DEF PerProcess
<1>3. Max0(j.memory - committed) \in Nat /\ Max0(j.memory - committed) <= j.memory
  BY <1>1 DEF Max0
<1> QED
  BY <1>1, <1>2, <1>3 DEF RoomOf, AtMost

LEMMA SystemRoom == WalkOK /\ RoomInv /\ System => RoomInv'
<1> SUFFICES ASSUME WalkOK, RoomInv, System
             PROVE  RoomInv'
  OBVIOUS
<1>1. CASE pc = "idle"
  BY <1>1, SystemFacts DEF RoomInv, WalkOK
<1>2. CASE pc # "idle"
  <2>1. /\ UNCHANGED <<host, pc, memory>> /\ touched \subseteq touched'
        /\ room' = Larger(room, RoomOf(job', charge'))
        /\ RoomOf(job', charge') \in Nat /\ room \in Nat
    BY <1>2, SystemFacts, RoomFacts, NumberAssumption DEF WalkOK, TypeOK
  <2>2. room <= room' /\ RoomOf(job', charge') <= room' /\ room' \in Nat
    BY <2>1 DEF Larger
  <2>3. RoomOf(job, charge)' <= room'
    BY <2>1, <2>2 DEF RoomOf
  <2>4. ASSUME Stood({"memory", "process"})'
        PROVE  /\ Stood({"memory", "process"})
               /\ job # None => job'.memory = job.memory /\ job'.process = job.process
    <3>1. "memory" \notin touched' /\ "process" \notin touched' /\ "job" \notin touched'
      BY <2>4 DEF Stood
    <3>2. Stood({"memory", "process"})
      BY <2>1, <3>1 DEF Stood
    <3>3. job # None => \A field \in {"memory", "process"} : job'[field] = job[field]
      BY <1>2, <3>1, SystemFacts DEF Fields, WalkOK
    <3> QED
      BY <3>2, <3>3
  <2>5. ASSUME Stood({"memory", "process"})', pc \in {"charge", "commit"}
        PROVE  job'.memory = memory'.limit /\ ~PerProcess(job')
    <3>1. job # None
      BY <2>5 DEF WalkOK, WalkInv
    <3>2. job.memory = memory.limit /\ ~PerProcess(job)
      BY <2>4, <2>5 DEF RoomInv
    <3> QED
      BY <2>1, <2>4, <2>5, <3>1, <3>2 DEF PerProcess
  <2>6. ASSUME Stood({"memory", "process"})', memory.used # None
        PROVE  /\ pc = "commit" => memory.limit - memory.used <= room'
               /\ pc = "judge_memory" =>
                    memory.limit - memory.used <= room' \/ memory.available <= room'
    <3>1. /\ pc = "commit" => memory.limit - memory.used <= room
          /\ pc = "judge_memory" =>
               memory.limit - memory.used <= room \/ memory.available <= room
      BY <2>4, <2>6 DEF RoomInv
    <3>2. memory.used \in Nat /\ (pc = "commit" => memory.limit \in Nat)
          /\ (pc = "judge_memory" => memory.limit \in Nat /\ memory.available \in Nat)
      BY <2>6 DEF WalkOK, WalkInv, TypeOK
    <3> QED
      BY <2>1, <2>2, <3>1, <3>2
  <2> QED
    BY <2>1, <2>3, <2>5, <2>6 DEF RoomInv
<1> QED
  BY <1>1, <1>2

LEMMA NextRoom == WalkOK /\ RoomInv /\ [Next]_vars => RoomInv'
<1> SUFFICES ASSUME WalkOK, RoomInv, [Next]_vars
             PROVE  RoomInv'
  OBVIOUS
<1>1. CASE System
  BY <1>1, SystemRoom
<1>2. CASE BeginMemory \/ BeginCpu
  <2>1. /\ UNCHANGED <<host, job, charge>> /\ room' = RoomOf(job, charge)
        /\ pc' \in {"memory_limits", "cpu_limits"} /\ RoomOf(job, charge) \in Nat
    BY <1>2, RoomFacts, NumberAssumption DEF BeginMemory, BeginCpu, Start, system, WalkOK, TypeOK
  <2>2. RoomOf(job, charge)' = RoomOf(job, charge)
    BY <2>1 DEF RoomOf
  <2> QED
    BY <2>1, <2>2 DEF RoomInv
<1>3. CASE JudgeMemory \/ JudgeCpu
  BY <1>3 DEF JudgeMemory, JudgeCpu, Answer, RoomInv
<1>4. ASSUME UNCHANGED <<host, job, charge, room, touched>>, pc # "idle",
             Stood({"memory", "process"}) =>
               /\ pc' \in {"charge", "commit"} => job.memory = memory'.limit /\ ~PerProcess(job)
               /\ pc' = "commit" /\ memory'.used # None => memory'.limit - memory'.used <= room
               /\ pc' = "judge_memory" /\ memory'.used # None =>
                    memory'.limit - memory'.used <= room \/ memory'.available <= room
      PROVE  RoomInv'
  <2>1. RoomOf(job, charge)' = RoomOf(job, charge)
    BY <1>4 DEF RoomOf
  <2>2. (PerProcess(job))' <=> PerProcess(job)
    BY <1>4 DEF PerProcess
  <2> QED
    BY <1>4, <2>1, <2>2 DEF RoomInv, Stood
<1>5. CASE UNCHANGED vars
  <2>1. UNCHANGED <<host, job, charge, room, touched, pc, memory>>
    BY <1>5 DEF vars, system, locals, history
  <2>2. RoomOf(job, charge)' = RoomOf(job, charge)
    BY <2>1 DEF RoomOf
  <2> QED
    BY <2>1, <2>2 DEF RoomInv, Stood, PerProcess
<1>6. CASE QueryCpuLimits \/ QueryRate \/ SizeRate \/ ReadAffinity
  <2>1. /\ UNCHANGED <<host, job, charge, room, touched>> /\ pc # "idle"
        /\ pc' \in {"rate", "size", "affinity", "judge_cpu"}
    BY <1>6 DEF QueryCpuLimits, QueryRate, SizeRate, ReadAffinity, Reads, Drops, system, history
  <2> QED
    BY <1>4, <2>1
<1>7. CASE QueryMemoryLimits
  <2>1. UNCHANGED <<host, job, charge, room, touched>> /\ pc # "idle"
    BY <1>7 DEF QueryMemoryLimits, system, history
  <2>2. /\ pc' \in {"charge", "judge_memory"} /\ memory'.used = None
        /\ pc' = "charge" => job.memory = memory'.limit /\ ~PerProcess(job)
    BY <1>7 DEF QueryMemoryLimits, NoMemory
  <2> QED
    BY <1>4, <2>1, <2>2
<1>8. CASE ReadCharge
  <2>1. /\ UNCHANGED <<host, job, charge, room, touched>> /\ pc = "charge" /\ pc' = "commit"
        /\ memory' = [memory EXCEPT !.used = IF Answers("violation") THEN charge ELSE None]
        /\ memory \in Readings /\ job \in JobType /\ charge \in Nat /\ memory.limit # None
    BY <1>8, NumberAssumption DEF ReadCharge, system, history, WalkOK, WalkInv, TypeOK, Readings
  <2>2. /\ memory'.limit = memory.limit
        /\ memory'.used = (IF Answers("violation") THEN charge ELSE None)
    BY <2>1 DEF Readings
  <2>3. ASSUME Stood({"memory", "process"})
        PROVE  job.memory = memory.limit /\ ~PerProcess(job) /\ memory.limit - charge <= room
    <3>1. job.memory = memory.limit /\ ~PerProcess(job)
      BY <2>1, <2>3 DEF RoomInv
    <3>2. RoomOf(job, charge) = Max0(memory.limit - charge) /\ RoomOf(job, charge) <= room
      BY <2>1, <3>1, JobRoom DEF RoomInv
    <3>3. memory.limit \in Nat /\ room \in Nat
      BY <2>1 DEF Readings, WalkOK, TypeOK
    <3> QED
      BY <2>1, <3>1, <3>2, <3>3 DEF Max0
  <2> QED
    BY <1>4, <2>1, <2>2, <2>3
<1>9. CASE ReadCommit
  <2> DEFINE a == IF "commit" \in mute THEN None ELSE AvailableCommit
  <2>1. /\ UNCHANGED <<host, job, charge, room, touched>> /\ pc = "commit" /\ pc' = "judge_memory"
        /\ memory' = Paired(memory, a)
        /\ memory \in Readings /\ job \in JobType /\ charge \in Nat /\ memory.limit # None
        /\ job # None /\ memory.limit \in Nat
    BY <1>9, NumberAssumption DEF ReadCommit, system, history, WalkOK, WalkInv, TypeOK, Readings
  <2>2. AvailableCommit \in Nat
    BY <2>1, JobFacts, CoresFacts DEF AvailableCommit, Max0, WalkOK, TypeOK
  <2>3. a \in Nat \cup {None}
    BY <2>2
  <2>4. ASSUME Stood({"memory", "process"}), memory'.used # None
        PROVE  memory'.limit - memory'.used <= room \/ memory'.available <= room
    <3>1. job.memory = memory.limit /\ ~PerProcess(job)
      BY <2>1, <2>4 DEF RoomInv
    <3>2. RoomOf(job, charge) = Max0(memory.limit - charge) /\ RoomOf(job, charge) <= room
      BY <2>1, <3>1, JobRoom DEF RoomInv
    <3>3. CASE a = None
      <4>1. memory'.limit = memory.limit /\ memory'.used = memory.used
        BY <2>1, <2>3, <3>3, PairedFacts
      <4> QED
        BY <2>1, <2>4, <4>1 DEF RoomInv
    <3>4. CASE a # None
      <4>1. memory'.available = a /\ a = AvailableCommit
        BY <2>1, <2>3, <3>4, PairedFacts
      <4>2. AvailableCommit = Max0(memory.limit - charge)
        BY <2>1, <3>1 DEF AvailableCommit
      <4> QED
        BY <3>2, <4>1, <4>2
    <3> QED
      BY <3>3, <3>4
  <2> QED
    BY <1>4, <2>1, <2>4
<1> QED
  BY <1>1, <1>2, <1>3, <1>5, <1>6, <1>7, <1>8, <1>9 DEF Next, Reader

----------------------------------------------------------------------------
(* Limits that stood, and queries that failed all call long.               *)

LEMMA SystemKept == WalkOK /\ KeptInv /\ System => KeptInv'
<1> SUFFICES ASSUME WalkOK, KeptInv, System, job' # None, "job" \notin touched'
             PROVE  MemoryKept' /\ QuotaKept' /\ SetKept' /\ HiddenKept'
  BY DEF KeptInv
<1>1. UNCHANGED <<host, pc, machine_cpus, memory, flagged, share, cpu>> /\ hidden' \subseteq hidden
  BY SystemFacts DEF WalkOK
<1>2. CASE pc = "idle"
  BY <1>1, <1>2 DEF MemoryKept, QuotaKept, SetKept, HiddenKept, Judged
<1>3. CASE pc # "idle"
  <2>1. /\ touched \subseteq touched' /\ job # None
        /\ \A field \in Fields \ touched' : job'[field] = job[field]
    BY <1>3, SystemFacts DEF WalkOK
  <2>2. MemoryKept /\ QuotaKept /\ SetKept /\ HiddenKept
    BY <2>1 DEF KeptInv
  <2>3. MemoryKept'
    BY <1>1, <2>1, <2>2 DEF MemoryKept, Judged, Fields
  <2>4. "control" \notin touched' => job'.control = job.control /\ "control" \notin touched
    BY <2>1 DEF Fields
  <2>5. "affinity" \notin touched' => job'.affinity = job.affinity /\ "affinity" \notin touched
    BY <2>1 DEF Fields
  <2>6. QuotaKept'
    BY <1>1, <2>2, <2>4 DEF QuotaKept, QuotaOf, Refused, Cores
  <2>7. SetKept'
    BY <1>1, <2>2, <2>5 DEF SetKept, SetOf, Refused
  <2>8. HiddenKept'
    BY <1>1, <2>2, <2>5 DEF HiddenKept, Refused
  <2> QED
    BY <2>3, <2>6, <2>7, <2>8
<1> QED
  BY <1>2, <1>3

LEMMA MemoryKeptStep == WalkOK /\ KeptInv /\ (QueryMemoryLimits \/ ReadCharge \/ ReadCommit) => KeptInv'
<1> SUFFICES ASSUME WalkOK, KeptInv, QueryMemoryLimits \/ ReadCharge \/ ReadCommit,
                    job' # None, "job" \notin touched'
             PROVE  MemoryKept' /\ QuotaKept' /\ SetKept' /\ HiddenKept'
  BY DEF KeptInv
<1>1. /\ UNCHANGED <<job, mute, touched, hidden>> /\ job \in JobType /\ pc' \in Judged /\ charge \in Nat
      /\ memory \in Readings /\ hidden \subseteq mute
  BY NumberAssumption DEF QueryMemoryLimits, ReadCharge, ReadCommit, system, history, WalkOK, TypeOK,
                          Readings, Judged
<1>2. QuotaKept' /\ SetKept' /\ HiddenKept'
  BY <1>1 DEF QuotaKept, SetKept, HiddenKept, Judged
<1>3. CASE QueryMemoryLimits
  <2>1. /\ job.memory \in Nat \cup {None} /\ job.process \in Nat \cup {None} /\ job # None
    BY <1>1, JobFacts
  <2>2. CASE ~Answers("limits")
    <3>1. memory' = [NoMemory EXCEPT !.unreadable = (job # None)]
      BY <1>3, <2>2 DEF QueryMemoryLimits
    <3>2. memory'.unreadable = TRUE
      BY <2>1, <3>1 DEF NoMemory
    <3> QED
      BY <1>1, <1>2, <3>2 DEF MemoryKept
  <2>3. CASE Answers("limits")
    <3>1. "limits" \notin hidden
      BY <1>1, <2>3 DEF Answers
    <3>2. CASE PerProcess(job)
      <4>1. memory'.limit = job.process
        BY <1>3, <2>3, <3>2 DEF QueryMemoryLimits, NoMemory
      <4>2. \A field \in {"memory", "process"} : job[field] # None =>
              memory'.limit # None /\ memory'.limit <= job[field]
        BY <2>1, <3>2, <4>1 DEF PerProcess
      <4> QED
        BY <1>1, <1>2, <3>1, <4>2 DEF MemoryKept
    <3>3. CASE ~PerProcess(job)
      <4>1. memory'.limit = job.memory
        BY <1>3, <2>3, <3>3 DEF QueryMemoryLimits, NoMemory
      <4>2. \A field \in {"memory", "process"} : job[field] # None =>
              memory'.limit # None /\ memory'.limit <= job[field]
        BY <2>1, <3>3, <4>1 DEF PerProcess
      <4> QED
        BY <1>1, <1>2, <3>1, <4>2 DEF MemoryKept
    <3> QED
      BY <3>2, <3>3
  <2> QED
    BY <2>2, <2>3
<1>4. CASE ReadCharge \/ ReadCommit
  <2>1. MemoryKept /\ pc \in Judged
    BY <1>1, <1>4 DEF KeptInv, ReadCharge, ReadCommit, Judged
  <2>2. memory'.limit = memory.limit /\ memory'.unreadable = memory.unreadable
    <3>1. CASE ReadCharge
      BY <1>1, <3>1 DEF ReadCharge, Readings
    <3>2. CASE ReadCommit
      <4> DEFINE a == IF "commit" \in mute THEN None ELSE AvailableCommit
      <4>1. memory' = Paired(memory, a) /\ memory.limit \in Nat /\ a \in Nat \cup {None}
        BY <1>1, <3>2, JobFacts, CoresFacts
        DEF ReadCommit, AvailableCommit, Max0, WalkOK, WalkInv, TypeOK
      <4> QED
        BY <1>1, <4>1, PairedFacts
    <3> QED
      BY <1>4, <3>1, <3>2
  <2> QED
    BY <1>1, <1>2, <2>1, <2>2 DEF MemoryKept
<1> QED
  BY <1>3, <1>4

LEMMA CpuKeptStep == WalkOK /\ KeptInv /\ (QueryCpuLimits \/ QueryRate \/ SizeRate \/ ReadAffinity) => KeptInv'
<1> SUFFICES ASSUME WalkOK, KeptInv, QueryCpuLimits \/ QueryRate \/ SizeRate \/ ReadAffinity,
                    job' # None, "job" \notin touched'
             PROVE  MemoryKept' /\ QuotaKept' /\ SetKept' /\ HiddenKept'
  BY DEF KeptInv
<1>1. /\ UNCHANGED <<host, job, mute, touched, hidden>> /\ job \in JobType
      /\ pc' \in {"rate", "size", "affinity", "judge_cpu"}
      /\ hidden \subseteq mute /\ QuotaKept /\ SetKept /\ HiddenKept /\ cpu \in CpuReadings
  BY DEF QueryCpuLimits, QueryRate, SizeRate, ReadAffinity, Reads, Drops, system, history, WalkOK, TypeOK,
         KeptInv, CpuReadings
<1>2. MemoryKept'
  BY <1>1 DEF MemoryKept, Judged
<1>3. QuotaOf(job)' = QuotaOf(job) /\ SetOf(job)' = SetOf(job) /\ RateCap(job.control)' = RateCap(job.control)
  BY <1>1 DEF QuotaOf, SetOf, RateCap, Cores
<1>4. ASSUME NEW why \in {"unreadable", "unconvertible"}, Drops(why)
      PROVE  MemoryKept' /\ QuotaKept' /\ SetKept' /\ HiddenKept'
  <2>1. Refused' /\ pc' = "judge_cpu"
    BY <1>4, DropsFacts
  <2> QED
    BY <1>2, <2>1 DEF QuotaKept, SetKept, HiddenKept
<1>5. CASE QueryCpuLimits
  <2>1. CASE Drops("unreadable")
    BY <1>4, <2>1
  <2>2. CASE Answers("limits") /\ Reads("rate") /\ flagged' = (job.affinity # None)
    BY <1>1, <1>2, <2>2 DEF Answers, Reads, QuotaKept, SetKept, HiddenKept
  <2> QED
    BY <1>1, <1>5, <2>1, <2>2 DEF QueryCpuLimits
<1>6. CASE QueryRate
  <2>1. CASE Drops("unreadable")
    BY <1>4, <2>1
  <2>2. CASE Answers("rate") /\ Reads("size") /\ share' = RateCap(job.control)
    <3>1. pc = "rate" /\ flagged' = flagged /\ Refused' = Refused
      BY <1>6, <2>2 DEF QueryRate, Reads, Refused
    <3>2. "rate" \notin hidden
      BY <1>1, <2>2 DEF Answers
    <3> QED
      BY <1>1, <1>2, <1>3, <2>2, <3>1, <3>2 DEF Reads, QuotaKept, SetKept, HiddenKept
  <2> QED
    BY <1>6, <2>1, <2>2 DEF QueryRate, RateSilent
<1>7. CASE SizeRate
  <2>1. CASE Drops("unconvertible")
    BY <1>4, <2>1
  <2>2. CASE /\ share = None \/ CountCores # None
             /\ cpu' = [cpu EXCEPT !.quota = IF share = None THEN None ELSE <<share * CountCores, Scale>>]
             /\ pc' = IF flagged THEN "affinity" ELSE "judge_cpu"
    <3>1. pc = "size" /\ flagged' = flagged /\ cpu = NoCpu
      BY <1>7 DEF SizeRate, WalkOK, WalkInv
    <3>2. /\ cpu'.quota = (IF share = None THEN None ELSE <<share * CountCores, Scale>>)
          /\ cpu'.cpu_set = None /\ (Refused' <=> FALSE) /\ (Refused <=> FALSE)
      BY <2>2, <3>1 DEF NoCpu, Refused
    <3>3. share # None => CountCores = Cores
      BY <2>2, SizeFacts DEF WalkOK
    <3>4. QuotaKept'
      BY <1>1, <1>3, <2>2, <3>1, <3>2, <3>3 DEF QuotaKept, QuotaOf
    <3>5. SetKept'
      BY <1>1, <1>3, <2>2, <3>1, <3>2 DEF SetKept, SetOf
    <3>6. HiddenKept'
      BY <1>1, <2>2, <3>1, <3>2 DEF HiddenKept, SetKept
    <3> QED
      BY <1>2, <3>4, <3>5, <3>6
  <2> QED
    BY <1>7, <2>1, <2>2 DEF SizeRate
<1>8. CASE ReadAffinity
  <2>1. CASE Drops("unreadable")
    BY <1>4, <2>1
  <2>2. CASE /\ Answers("affinity") /\ AffinityCores > 0
             /\ cpu' = [cpu EXCEPT !.cpu_set = <<AffinityCores, 1>>]
             /\ pc' = "judge_cpu"
    <3>1. pc = "affinity"
      BY <1>8 DEF ReadAffinity
    <3>2. /\ cpu'.quota = cpu.quota /\ cpu'.cpu_set = <<AffinityCores, 1>> /\ (Refused' <=> Refused)
      BY <1>1, <2>2 DEF CpuReadings, Refused
    <3>3. "affinity" \notin hidden
      BY <1>1, <2>2 DEF Answers
    <3>4. "affinity" \notin touched => job.affinity # None /\ SetOf(job) = <<AffinityCores, 1>>
      BY <1>1, <3>1 DEF SetKept, SetOf, AffinityCores
    <3>5. QuotaKept'
      BY <1>1, <1>3, <2>2, <3>1, <3>2 DEF QuotaKept
    <3>6. SetKept'
      BY <1>1, <1>3, <2>2, <3>2, <3>4 DEF SetKept
    <3>7. HiddenKept'
      BY <1>1, <2>2, <3>1, <3>2, <3>3 DEF HiddenKept
    <3> QED
      BY <1>2, <3>5, <3>6, <3>7
  <2> QED
    BY <1>8, <2>1, <2>2 DEF ReadAffinity
<1> QED
  BY <1>5, <1>6, <1>7, <1>8

LEMMA NextKept == WalkOK /\ KeptInv /\ [Next]_vars => KeptInv'
<1> SUFFICES ASSUME WalkOK, KeptInv, [Next]_vars
             PROVE  KeptInv'
  OBVIOUS
<1>1. CASE BeginMemory \/ BeginCpu \/ JudgeMemory \/ JudgeCpu
  <2>1. pc' \in {"memory_limits", "cpu_limits", "idle"}
    BY <1>1 DEF BeginMemory, BeginCpu, JudgeMemory, JudgeCpu, Start, Answer
  <2> QED
    BY <2>1 DEF KeptInv, MemoryKept, QuotaKept, SetKept, HiddenKept, Judged
<1>2. CASE UNCHANGED vars
  <2>1. UNCHANGED <<host, job, pc, memory, flagged, share, cpu, touched, hidden>>
    BY <1>2 DEF vars, system, locals, history
  <2> QED
    BY <2>1 DEF KeptInv, MemoryKept, QuotaKept, SetKept, HiddenKept, QuotaOf, SetOf, Refused, Cores
<1> QED
  BY <1>1, <1>2, SystemKept, MemoryKeptStep, CpuKeptStep DEF Next, Reader

----------------------------------------------------------------------------
(* A call during which nothing moves.                                      *)

LEMMA QuietFrame ==
    ASSUME UNCHANGED <<host, job, charge, mute>>
    PROVE  /\ MemoryNow' = MemoryNow /\ CountCores' = CountCores /\ UsedNow' = UsedNow
           /\ UnsizedNow' <=> UnsizedNow
           /\ SilentNow' <=> SilentNow
           /\ \A call \in Calls : Answers(call)' <=> Answers(call)
<1>1. /\ CountCores' = CountCores /\ UsedNow' = UsedNow /\ CommitNow' = CommitNow
      /\ \A call \in Calls : Answers(call)' <=> Answers(call)
  BY DEF CountCores, Cores, UsedNow, CommitNow, Answers, AvailableCommit
<1>2. MemoryNow' = MemoryNow
  BY <1>1 DEF MemoryNow, Calls
<1>3. UnsizedNow' <=> UnsizedNow
  BY <1>1 DEF UnsizedNow
<1>4. SilentNow' <=> SilentNow
  BY <1>3 DEF SilentNow, AffinityCores
<1> QED
  BY <1>1, <1>2, <1>3, <1>4

LEMMA MemoryQuiet ==
    WalkOK /\ RoomInv /\ QuietInv /\ (QueryMemoryLimits \/ ReadCharge \/ ReadCommit) => QuietInv'
<1> SUFFICES ASSUME WalkOK, RoomInv, QuietInv, QueryMemoryLimits \/ ReadCharge \/ ReadCommit, touched' = {}
             PROVE  QuietInv'
  BY DEF QuietInv
<1>1. /\ UNCHANGED <<host, job, charge, mute, touched, hidden>> /\ pc' \in Judged /\ touched = {} /\ pc # "idle"
      /\ memory \in Readings
  BY DEF QueryMemoryLimits, ReadCharge, ReadCommit, system, history, WalkOK, TypeOK, Readings, Judged
<1>2. /\ MemoryNow' = MemoryNow /\ UsedNow' = UsedNow
      /\ Answers("limits")' <=> Answers("limits")
  BY <1>1, QuietFrame DEF Calls
<1>3. /\ hidden = mute
      /\ pc \in {"charge", "commit"} => /\ Answers("limits") /\ job.memory = memory.limit /\ ~PerProcess(job)
                                        /\ memory.limit # None /\ memory.available = None
                                        /\ ~memory.unreadable /\ ~memory.usage_unreadable
      /\ pc = "commit" => memory.used = UsedNow
  BY <1>1 DEF QuietInv, WalkOK, WalkInv, RoomInv, Stood
<1>4. ASSUME pc' \in {"charge", "commit"} => Answers("limits"),
             pc' = "commit" => memory'.used = UsedNow,
             pc' = "judge_memory" => memory' = MemoryNow
      PROVE  QuietInv'
  BY <1>1, <1>2, <1>3, <1>4 DEF QuietInv, Judged, CpuSteps
<1>5. CASE QueryMemoryLimits
  <2>1. CASE ~Answers("limits")
    <3>1. memory' = MemoryNow /\ pc' = "judge_memory"
      BY <1>5, <2>1 DEF QueryMemoryLimits, MemoryNow
    <3> QED
      BY <1>4, <3>1
  <2>2. CASE Answers("limits") /\ PerProcess(job)
    <3>1. memory' = MemoryNow /\ pc' = "judge_memory"
      BY <1>5, <2>2 DEF QueryMemoryLimits, MemoryNow
    <3> QED
      BY <1>4, <3>1
  <2>3. CASE Answers("limits") /\ ~PerProcess(job)
    <3>1. memory' = [NoMemory EXCEPT !.limit = job.memory]
          /\ pc' = IF job.memory = None THEN "judge_memory" ELSE "charge"
      BY <1>5, <2>3 DEF QueryMemoryLimits
    <3>2. job.memory = None => memory' = NoMemory
      BY <3>1 DEF NoMemory
    <3>3. job.memory = None => MemoryNow = NoMemory
      BY <2>3 DEF MemoryNow
    <3> QED
      BY <1>4, <2>3, <3>1, <3>2, <3>3
  <2> QED
    BY <2>1, <2>2, <2>3
<1>6. CASE ReadCharge
  <2>1. /\ memory' = [memory EXCEPT !.used = UsedNow]
        /\ pc' = "commit" /\ pc = "charge"
    BY <1>6 DEF ReadCharge, UsedNow
  <2>2. memory'.used = UsedNow
    BY <1>1, <2>1 DEF Readings
  <2> QED
    BY <1>3, <1>4, <2>1, <2>2
<1>7. CASE ReadCommit
  <2>1. memory' = Paired(memory, CommitNow) /\ pc' = "judge_memory" /\ pc = "commit"
    BY <1>7 DEF ReadCommit, CommitNow
  <2>2. memory = [limit |-> job.memory, used |-> UsedNow, available |-> None,
                  unreadable |-> FALSE, usage_unreadable |-> FALSE]
    BY <1>1, <1>3, <2>1 DEF Readings
  <2>3. memory = [NoMemory EXCEPT !.limit = job.memory, !.used = UsedNow]
    <3> DEFINE e == [NoMemory EXCEPT !.limit = job.memory, !.used = UsedNow]
    <3>1. e \in [limit : {job.memory}, used : {UsedNow}, available : {None},
                 unreadable : {FALSE}, usage_unreadable : {FALSE}]
      BY DEF NoMemory
    <3> HIDE DEF e
    <3>2. e = [limit |-> job.memory, used |-> UsedNow, available |-> None,
               unreadable |-> FALSE, usage_unreadable |-> FALSE]
      BY <3>1
    <3>3. memory = e
      BY <2>2, <3>2
    <3> QED
      BY <3>3 DEF e
  <2>4. job.memory # None
    BY <1>3, <2>1
  <2>5. MemoryNow = Paired(memory, CommitNow)
    BY <1>3, <2>1, <2>3, <2>4 DEF MemoryNow
  <2> QED
    BY <1>4, <2>1, <2>5
<1> QED
  BY <1>5, <1>6, <1>7

LEMMA CpuQuiet ==
    WalkOK /\ KeptInv /\ QuietInv /\ (QueryCpuLimits \/ QueryRate \/ SizeRate \/ ReadAffinity) => QuietInv'
<1> SUFFICES ASSUME WalkOK, KeptInv, QuietInv, QueryCpuLimits \/ QueryRate \/ SizeRate \/ ReadAffinity,
                    touched' = {}
             PROVE  QuietInv'
  BY DEF QuietInv
<1>1. /\ UNCHANGED <<host, job, charge, mute, machine_cpus, touched, hidden>>
      /\ touched = {} /\ pc \in {"cpu_limits", "rate", "size", "affinity"}
      /\ pc' \in {"rate", "size", "affinity", "judge_cpu"} /\ cpu \in CpuReadings
  BY DEF QueryCpuLimits, QueryRate, SizeRate, ReadAffinity, Reads, Drops, system, history, WalkOK, TypeOK,
         CpuReadings
<1>2. /\ CountCores' = CountCores
      /\ UnsizedNow' <=> UnsizedNow
      /\ SilentNow' <=> SilentNow
      /\ Answers("limits")' <=> Answers("limits")
      /\ Answers("rate")' <=> Answers("rate")
  BY <1>1, QuietFrame DEF Calls
<1>3. /\ hidden = mute /\ machine_cpus = CountCores
      /\ pc # "cpu_limits" => job # None /\ Answers("limits")
      /\ pc \in {"size", "affinity"} => Answers("rate")
      /\ pc = "affinity" => ~UnsizedNow
      /\ pc # "affinity" => cpu = NoCpu
      /\ pc = "affinity" => ~cpu.unreadable /\ ~cpu.unconvertible
  BY <1>1 DEF QuietInv, WalkOK, WalkInv, CpuSteps, Refused
<1>4. job # None => /\ pc = "size" => share = RateCap(job.control)
                    /\ pc \in {"size", "affinity"} => flagged = (job.affinity # None)
                    /\ pc = "affinity" => flagged
  BY <1>1 DEF KeptInv, QuotaKept, SetKept
<1>5. ASSUME pc' \in {"rate", "size", "affinity"} => Answers("limits"),
             pc' \in {"size", "affinity"} => Answers("rate"),
             pc' = "affinity" => ~UnsizedNow,
             pc' = "judge_cpu" => /\ job = None => cpu' = NoCpu
                                  /\ job # None => /\ cpu'.unreadable <=> SilentNow
                                                   /\ cpu'.unconvertible <=> ~SilentNow /\ UnsizedNow
      PROVE  QuietInv'
  BY <1>1, <1>2, <1>3, <1>5 DEF QuietInv, CpuSteps
<1>6. CASE QueryCpuLimits
  <2>1. CASE job = None /\ Reads("judge_cpu")
    BY <1>3, <1>5, <1>6, <2>1 DEF Reads, QueryCpuLimits
  <2>2. CASE job # None /\ ~Answers("limits") /\ Drops("unreadable")
    <3>1. pc' = "judge_cpu" /\ cpu'.unreadable /\ ~cpu'.unconvertible
      BY <2>2, DropsFacts
    <3>2. SilentNow
      BY <2>2 DEF Answers, SilentNow
    <3> QED
      BY <1>5, <2>2, <3>1, <3>2
  <2>3. CASE Answers("limits") /\ Reads("rate")
    BY <1>5, <2>3 DEF Reads
  <2> QED
    BY <1>6, <2>1, <2>2, <2>3 DEF QueryCpuLimits
<1>7. CASE QueryRate
  <2>1. CASE ~Answers("rate") /\ Drops("unreadable")
    <3>1. pc' = "judge_cpu" /\ cpu'.unreadable /\ ~cpu'.unconvertible
      BY <2>1, DropsFacts
    <3>2. SilentNow /\ job # None
      BY <1>3, <1>7, <2>1 DEF Answers, SilentNow, QueryRate
    <3> QED
      BY <1>5, <3>1, <3>2
  <2>2. CASE Answers("rate") /\ Reads("size")
    BY <1>3, <1>5, <1>7, <2>2 DEF Reads, QueryRate
  <2> QED
    BY <1>7, <2>1, <2>2 DEF QueryRate, RateSilent
<1>8. CASE SizeRate
  <2>1. /\ pc = "size" /\ job # None /\ Answers("limits") /\ Answers("rate") /\ cpu = NoCpu
        /\ share = RateCap(job.control) /\ flagged = (job.affinity # None)
    BY <1>3, <1>4, <1>8 DEF SizeRate
  <2>2. CASE share # None /\ CountCores = None /\ Drops("unconvertible")
    <3>1. pc' = "judge_cpu" /\ ~cpu'.unreadable /\ cpu'.unconvertible
      BY <2>2, DropsFacts
    <3>2. UnsizedNow /\ ~SilentNow
      BY <2>1, <2>2 DEF Answers, SilentNow, UnsizedNow
    <3> QED
      BY <1>5, <2>1, <3>1, <3>2
  <2>3. CASE /\ share = None \/ CountCores # None
             /\ cpu' = [cpu EXCEPT !.quota = IF share = None THEN None ELSE <<share * CountCores, Scale>>]
             /\ pc' = IF flagged THEN "affinity" ELSE "judge_cpu"
    <3>1. ~UnsizedNow
      BY <2>1, <2>3 DEF UnsizedNow
    <3>2. ~flagged => ~SilentNow
      BY <2>1 DEF Answers, SilentNow
    <3>3. ~cpu'.unreadable /\ ~cpu'.unconvertible
      BY <2>1, <2>3 DEF NoCpu
    <3>4. pc' = "affinity" \/ (pc' = "judge_cpu" /\ ~flagged)
      BY <2>3
    <3> QED
      BY <1>5, <2>1, <3>1, <3>2, <3>3, <3>4
  <2> QED
    BY <1>8, <2>2, <2>3 DEF SizeRate
<1>9. CASE ReadAffinity
  <2>1. /\ pc = "affinity" /\ job # None /\ ~UnsizedNow /\ job.affinity # None
        /\ Answers("limits") /\ Answers("rate") /\ ~cpu.unreadable /\ ~cpu.unconvertible
    BY <1>3, <1>4, <1>9 DEF ReadAffinity
  <2>2. CASE (~Answers("affinity") \/ AffinityCores = 0) /\ Drops("unreadable")
    <3>1. pc' = "judge_cpu" /\ cpu'.unreadable /\ ~cpu'.unconvertible
      BY <2>2, DropsFacts
    <3>2. SilentNow
      BY <2>1, <2>2 DEF Answers, SilentNow
    <3> QED
      BY <1>5, <2>1, <3>1, <3>2
  <2>3. CASE /\ Answers("affinity") /\ AffinityCores > 0
             /\ cpu' = [cpu EXCEPT !.cpu_set = <<AffinityCores, 1>>]
             /\ pc' = "judge_cpu"
    <3>1. ~SilentNow
      BY <2>1, <2>3 DEF Answers, SilentNow
    <3>2. cpu'.unreadable = cpu.unreadable /\ cpu'.unconvertible = cpu.unconvertible
      BY <1>1, <2>3 DEF CpuReadings
    <3> QED
      BY <1>5, <2>1, <2>3, <3>1, <3>2
  <2> QED
    BY <1>9, <2>2, <2>3 DEF ReadAffinity
<1> QED
  BY <1>6, <1>7, <1>8, <1>9

LEMMA NextQuiet == WalkOK /\ RoomInv /\ KeptInv /\ QuietInv /\ [Next]_vars => QuietInv'
<1> SUFFICES ASSUME WalkOK, RoomInv, KeptInv, QuietInv, [Next]_vars
             PROVE  QuietInv'
  OBVIOUS
<1>1. CASE System
  <2>1. pc' = pc /\ (pc # "idle" => touched' # {})
    BY <1>1, SystemFacts DEF WalkOK
  <2> QED
    BY <2>1 DEF QuietInv
<1>2. CASE BeginMemory
  <2>1. pc' = "memory_limits" /\ hidden' = mute /\ mute' = mute
    BY <1>2 DEF BeginMemory, Start, system
  <2> QED
    BY <2>1 DEF QuietInv, CpuSteps
<1>3. CASE BeginCpu
  <2>1. pc' = "cpu_limits" /\ hidden' = mute /\ machine_cpus' = CountCores
        /\ UNCHANGED <<host, job, charge, mute>>
    BY <1>3 DEF BeginCpu, Start, system
  <2>2. CountCores' = CountCores
    BY <2>1, QuietFrame
  <2> QED
    BY <2>1, <2>2 DEF QuietInv, CpuSteps
<1>4. CASE JudgeMemory \/ JudgeCpu
  BY <1>4 DEF JudgeMemory, JudgeCpu, Answer, QuietInv
<1>5. CASE UNCHANGED vars
  <2>1. UNCHANGED <<host, job, charge, mute, pc, machine_cpus, memory, cpu, touched, hidden>>
    BY <1>5 DEF vars, system, locals, history
  <2>2. /\ MemoryNow' = MemoryNow /\ CountCores' = CountCores /\ UsedNow' = UsedNow
        /\ UnsizedNow' <=> UnsizedNow
        /\ SilentNow' <=> SilentNow
        /\ Answers("limits")' <=> Answers("limits")
        /\ Answers("rate")' <=> Answers("rate")
    BY <2>1, QuietFrame DEF Calls
  <2> QED
    BY <2>1, <2>2 DEF QuietInv
<1> QED
  BY <1>1, <1>2, <1>3, <1>4, <1>5, MemoryQuiet, CpuQuiet DEF Next, Reader

\* Nothing is held yet when no call has begun.
LEMMA InitInv == Init => IInv
<1> SUFFICES ASSUME Init
             PROVE  IInv
  OBVIOUS
<1>1. WalkOK /\ pc = "idle"
  BY InitWalk DEF Init
<1> QED
  BY <1>1 DEF WalkOK, IInv, RoomInv, KeptInv, MemoryKept, QuotaKept, SetKept, HiddenKept, QuietInv, Judged

LEMMA NextInv == IInv /\ [Next]_vars => IInv'
<1> SUFFICES ASSUME IInv, [Next]_vars
             PROVE  IInv'
  OBVIOUS
<1>1. WalkOK /\ RoomInv /\ KeptInv /\ QuietInv
  BY DEF IInv, WalkOK
<1>2. WalkOK' /\ RoomInv' /\ KeptInv' /\ QuietInv'
  BY <1>1, NextWalk, NextRoom, NextKept, NextQuiet
<1> QED
  BY <1>2 DEF IInv, WalkOK

\* The inductive invariant, and with it the types, holds of every machine, every
\* job and every order in which limits, calls and failures come.
THEOREM Invariance == Spec => []IInv
BY InitInv, NextInv, PTL DEF Spec

----------------------------------------------------------------------------
(* What the calls promise, from the invariant.                             *)

LEMMA Returning ==
    ASSUME [Next]_vars, WalkOK
    PROVE  /\ ReturnsMemory => JudgeMemory
           /\ ReturnsCpu => JudgeCpu
<1>1. ASSUME pc' # pc, pc \in {"judge_memory", "judge_cpu"}
      PROVE  JudgeMemory \/ JudgeCpu
  <2>1. ~System /\ ~UNCHANGED vars
    BY <1>1, SystemFacts DEF WalkOK, vars
  <2> QED
    BY <1>1, <2>1 DEF Next, Reader, BeginMemory, BeginCpu, Start, QueryMemoryLimits, ReadCharge, ReadCommit,
                      QueryCpuLimits, QueryRate, SizeRate, ReadAffinity
<1> QED
  BY <1>1 DEF ReturnsMemory, ReturnsCpu, JudgeMemory, JudgeCpu

\* No call returns more room than the job had at some moment of it.
THEOREM Room == Spec => RoomNeverOverpromised
<1>1. IInv /\ [Next]_vars =>
        (ReturnsMemory /\ reply'.budget # None /\ Stood({"memory", "process"}) => reply'.budget.available <= room)
  <2> SUFFICES ASSUME IInv, [Next]_vars, ReturnsMemory, reply'.budget # None, Stood({"memory", "process"})
               PROVE  reply'.budget.available <= room
    OBVIOUS
  <2>1. WalkOK /\ RoomInv
    BY DEF IInv, WalkOK
  <2>2. JudgeMemory /\ pc = "judge_memory" /\ room \in Nat
    BY <2>1, Returning DEF ReturnsMemory, WalkOK, TypeOK
  <2>3. /\ memory.limit \in Nat /\ memory.used \in Nat /\ memory.available \in Nat
        /\ reply'.budget = Reconcile(memory.limit, memory.used, memory.available)
    BY <2>1, <2>2, JudgeMemoryFacts
  <2>4. reply'.budget.available = AtMost(memory.available, memory.limit - AtMost(memory.used, memory.limit))
    BY <2>3, ReconcileFacts
  <2>5. memory.limit - memory.used <= room \/ memory.available <= room
    BY <2>1, <2>2, <2>3, NumberAssumption DEF RoomInv
  <2> QED
    BY <2>2, <2>3, <2>4, <2>5 DEF AtMost
<1> QED
  BY <1>1, Invariance, PTL DEF Spec, RoomNeverOverpromised

\* The three numbers of a budget agree, and its limit is below the machine.
THEOREM Coherent == Spec => BudgetCoherent
<1>1. IInv /\ [Next]_vars =>
        (ReturnsMemory /\ reply'.budget # None =>
           /\ reply'.budget.used + reply'.budget.available <= reply'.budget.limit
           /\ host.ceiling # None /\ reply'.budget.limit < host.ceiling)
  <2> SUFFICES ASSUME IInv, [Next]_vars, ReturnsMemory, reply'.budget # None
               PROVE  /\ reply'.budget.used + reply'.budget.available <= reply'.budget.limit
                      /\ host.ceiling # None /\ reply'.budget.limit < host.ceiling
    OBVIOUS
  <2>1. WalkOK
    BY DEF IInv, WalkOK
  <2>2. JudgeMemory
    BY <2>1, Returning
  <2>3. /\ memory.limit \in Nat /\ memory.used \in Nat /\ memory.available \in Nat
        /\ reply'.budget = Reconcile(memory.limit, memory.used, memory.available)
        /\ host.ceiling # None /\ memory.limit < host.ceiling
    BY <2>1, <2>2, JudgeMemoryFacts
  <2> QED
    BY <2>3, ReconcileFacts
<1> QED
  BY <1>1, Invariance, PTL DEF Spec, BudgetCoherent

\* A call that refuses the restrictions returns none and says which of two reasons.
LEMMA RefusedFacts ==
    ASSUME WalkOK
    PROVE  /\ cpu.unreadable => CpuNotices = {"CPU_LIMIT_UNREADABLE"} /\ Candidates = {}
           /\ cpu.unconvertible => CpuNotices = {"MACHINE_CPU_COUNT_UNKNOWN"} /\ Candidates = {}
<1>1. Refused => cpu.quota = None /\ cpu.cpu_set = None /\ cpu.unreadable # cpu.unconvertible
  BY DEF WalkOK, WalkInv
<1>2. Refused => Candidates = {}
  BY <1>1 DEF Candidates
<1>3. cpu.unconvertible => ~cpu.unreadable
  BY <1>1 DEF Refused
<1> QED
  BY <1>2, <1>3 DEF Refused, CpuNotices

\* A quota or a set that is read is at least as loose as the answer, or covers
\* the machine.
LEMMA LooserFacts ==
    ASSUME WalkOK, JudgeCpu, NEW x \in {cpu.quota, cpu.cpu_set}, x # None
    PROVE  \/ reply'.cores # None /\ ~Less(x, reply'.cores)
           \/ WholeMachine(x)
<1>1. CASE CoversMachine(x)
  <2>1. machine_cpus # None /\ machine_cpus \in {None, Cores}
    BY <1>1 DEF CoversMachine, JudgeCpu, WalkOK, WalkInv, CpuSteps
  <2> QED
    BY <1>1, <2>1 DEF CoversMachine, WholeMachine
<1>2. CASE ~CoversMachine(x)
  <2>1. x \in Candidates
    BY <1>2 DEF Candidates
  <2>2. reply'.cores = Tightest /\ Tightest # None /\ ~Less(x, Tightest)
    BY <2>1, JudgeCpuFacts, TightestFacts DEF WalkOK
  <2> QED
    BY <2>2
<1> QED
  BY <1>1, <1>2

\* What is read of a job that nobody touched is what it grants.
LEMMA GrantedFacts ==
    ASSUME WalkOK, job # None
    PROVE  /\ "control" \in Granting <=> RateCap(job.control) # None
           /\ "affinity" \in Granting <=> job.affinity # None
           /\ Granting \subseteq {"control", "affinity"}
           /\ "control" \in Granting => QuotaOf(job) = Granted("control") /\ QuotaOf(job) # None
           /\ "affinity" \in Granting => SetOf(job) = Granted("affinity") /\ SetOf(job) # None
           /\ "control" \in Granting => Granted("control") # <<0, 1>>
           /\ "affinity" \in Granting => (Granted("affinity") = <<0, 1>> <=> AffinityCores = 0)
<1>1. /\ job \in JobType /\ job.control \in Limits["control"] /\ Cores \in Nat \ {0}
      /\ job.affinity # None => Cardinality(Processors(job.affinity)) \in Nat
  BY JobFacts, CoresFacts DEF WalkOK, TypeOK
<1>2. RateCap(job.control) = RateOf(job.control) /\ RateOf(job.control) \in (Nat \ {0}) \cup {None}
  BY <1>1, RateFacts
<1>3. /\ "control" \in Granting <=> RateCap(job.control) # None
      /\ "affinity" \in Granting <=> job.affinity # None
      /\ Granting \subseteq {"control", "affinity"}
  BY <1>2 DEF Granting
<1>4. ASSUME "control" \in Granting
      PROVE  QuotaOf(job) = Granted("control") /\ QuotaOf(job) # None /\ Granted("control") # <<0, 1>>
  <2>1. RateOf(job.control) \in Nat \ {0} /\ RateOf(job.control) # None
    BY <1>2, <1>3, <1>4
  <2>2. RateOf(job.control) * Cores \in Nat \ {0}
    BY <1>1, <2>1
  <2>3. QuotaOf(job) = Granted("control") /\ Granted("control") = <<RateOf(job.control) * Cores, Scale>>
    BY <1>2, <2>1 DEF QuotaOf, Granted
  <2>4. Granted("control") \in Fractions
    BY <2>2, <2>3, NumberAssumption DEF Fractions
  <2>5. Granted("control") # <<0, 1>>
    BY <2>2, <2>3
  <2> QED
    BY <2>3, <2>4, <2>5, NumberAssumption
<1>5. ASSUME "affinity" \in Granting
      PROVE  /\ SetOf(job) = Granted("affinity") /\ SetOf(job) # None
             /\ Granted("affinity") = <<0, 1>> <=> AffinityCores = 0
  <2>1. job.affinity # None /\ Cardinality(Processors(job.affinity)) \in Nat
    BY <1>1, <1>3, <1>5
  <2>2. /\ Granted("affinity") = <<AffinityCores, 1>> /\ SetOf(job) = Granted("affinity") /\ AffinityCores \in Nat
    BY <2>1 DEF Granted, SetOf, AffinityCores
  <2>3. SetOf(job) \in Fractions
    BY <2>2, NumberAssumption DEF Fractions
  <2> QED
    BY <2>2, <2>3, NumberAssumption
<1> QED
  BY <1>3, <1>4, <1>5

\* A limit of the immediate job that stood all call long binds the answer.
THEOREM Looser == Spec => NeverLooser
<1>1. IInv /\ [Next]_vars =>
        (ReturnsMemory /\ job # None =>
            \A field \in {"memory", "process"} : job[field] # None /\ Stood({field}) =>
              \/ reply'.budget # None /\ reply'.budget.limit <= job[field]
              \/ /\ reply'.budget = None /\ reply'.notices # {}
                 /\ "MEMORY_LIMIT_COVERS_MACHINE" \in reply'.notices => job[field] >= host.ceiling)
  <2> SUFFICES ASSUME IInv, [Next]_vars, ReturnsMemory, job # None,
                      NEW field \in {"memory", "process"}, job[field] # None, Stood({field})
               PROVE  \/ reply'.budget # None /\ reply'.budget.limit <= job[field]
                      \/ /\ reply'.budget = None /\ reply'.notices # {}
                         /\ "MEMORY_LIMIT_COVERS_MACHINE" \in reply'.notices => job[field] >= host.ceiling
    OBVIOUS
  <2>1. WalkOK /\ KeptInv
    BY DEF IInv, WalkOK
  <2>2. JudgeMemory /\ pc = "judge_memory"
    BY <2>1, Returning DEF ReturnsMemory
  <2>3. memory.unreadable \/ (memory.limit # None /\ memory.limit <= job[field])
    BY <2>1, <2>2 DEF KeptInv, MemoryKept, Stood, Judged
  <2>4. /\ memory.unreadable => memory.limit = None
        /\ job[field] \in Nat
        /\ memory.limit \in Nat \cup {None}
        /\ host.ceiling \in Nat \cup {None}
    BY <2>1, <2>2, JobFacts, CoresFacts DEF WalkOK, WalkInv, TypeOK
  <2>5. CASE memory.unreadable
    BY <2>1, <2>2, <2>4, <2>5, RejectionFacts, JudgeMemoryFacts
  <2>6. CASE memory.limit # None /\ memory.limit <= job[field]
    <3>1. CASE MemoryRejection = {}
      <4>1. /\ memory.limit \in Nat /\ memory.used \in Nat /\ memory.available \in Nat /\ reply'.budget # None
            /\ reply'.budget = Reconcile(memory.limit, memory.used, memory.available)
        BY <2>1, <2>2, <2>6, <3>1, JudgeMemoryFacts
      <4> QED
        BY <2>6, <4>1, ReconcileFacts
    <3>2. CASE MemoryRejection # {}
      <4>1. reply'.budget = None /\ reply'.notices = MemoryRejection
        BY <2>1, <2>2, <3>2, JudgeMemoryFacts
      <4>2. "MEMORY_LIMIT_COVERS_MACHINE" \in MemoryRejection => host.ceiling # None /\ memory.limit >= host.ceiling
        BY <2>4, <2>6, RejectionFacts
      <4> QED
        BY <2>4, <2>6, <3>2, <4>1, <4>2
    <3> QED
      BY <3>1, <3>2
  <2> QED
    BY <2>3, <2>5, <2>6
<1>2. IInv /\ [Next]_vars =>
        (ReturnsCpu /\ job # None =>
            \A field \in Granting : Stood({field}) =>
              \/ reply'.cores # None /\ ~Less(Granted(field), reply'.cores)
              \/ WholeMachine(Granted(field))
              \/ reply'.notices \cap CpuRefused # {})
  <2> SUFFICES ASSUME IInv, [Next]_vars, ReturnsCpu, job # None, NEW field \in Granting, Stood({field})
               PROVE  \/ reply'.cores # None /\ ~Less(Granted(field), reply'.cores)
                      \/ WholeMachine(Granted(field))
                      \/ reply'.notices \cap CpuRefused # {}
    OBVIOUS
  <2>1. WalkOK /\ KeptInv
    BY DEF IInv, WalkOK
  <2>2. JudgeCpu /\ pc = "judge_cpu"
    BY <2>1, Returning DEF ReturnsCpu
  <2>3. CASE Refused
    <3>1. reply'.notices = CpuNotices
      BY <2>1, <2>2, JudgeCpuFacts
    <3>2. CpuNotices \in {{"CPU_LIMIT_UNREADABLE"}, {"MACHINE_CPU_COUNT_UNKNOWN"}}
      BY <2>1, <2>3, RefusedFacts DEF Refused
    <3> QED
      BY <3>1, <3>2 DEF CpuRefused
  <2>4. CASE ~Refused
    <3>1. /\ field \in {"control", "affinity"}
          /\ "control" \in Granting => QuotaOf(job) = Granted("control") /\ QuotaOf(job) # None
          /\ "affinity" \in Granting => SetOf(job) = Granted("affinity") /\ SetOf(job) # None
      BY <2>1, GrantedFacts
    <3>2. Granted(field) \in {cpu.quota, cpu.cpu_set} /\ Granted(field) # None
      <4>1. CASE field = "control"
        BY <2>1, <2>2, <2>4, <3>1, <4>1 DEF KeptInv, QuotaKept, Stood
      <4>2. CASE field = "affinity"
        BY <2>1, <2>2, <2>4, <3>1, <4>2 DEF KeptInv, SetKept, Stood
      <4> QED
        BY <3>1, <4>1, <4>2
    <3> HIDE DEF Granted
    <3> QED
      BY <2>1, <2>2, <3>2, LooserFacts
  <2> QED
    BY <2>3, <2>4
<1> QED
  BY <1>1, <1>2, Invariance, PTL DEF Spec, NeverLooser

\* While a query fails for a whole call in one job, the call reports no limit
\* that this query could have tightened.
THEOREM UnreadableNothing == Spec => UnreadableReportsNothing
<1>1. IInv /\ [Next]_vars =>
        (ReturnsMemory /\ job # None /\ Stood({}) /\ "limits" \in hidden => reply'.budget = None)
  <2> SUFFICES ASSUME IInv, [Next]_vars, ReturnsMemory, job # None, Stood({}), "limits" \in hidden
               PROVE  reply'.budget = None
    OBVIOUS
  <2>1. WalkOK /\ KeptInv
    BY DEF IInv, WalkOK
  <2>2. JudgeMemory /\ pc = "judge_memory"
    BY <2>1, Returning DEF ReturnsMemory
  <2>3. memory.unreadable /\ memory.limit = None
    BY <2>1, <2>2 DEF KeptInv, MemoryKept, Stood, Judged, WalkOK, WalkInv
  <2> QED
    BY <2>1, <2>2, <2>3, JudgeMemoryFacts
<1>2. IInv /\ [Next]_vars =>
        (/\ ReturnsCpu /\ job # None /\ Stood({"affinity"})
         /\ \/ {"limits", "rate"} \cap hidden # {}
            \/ "affinity" \in hidden /\ job.affinity # None
         => reply'.cores = None)
  <2> SUFFICES ASSUME IInv, [Next]_vars, ReturnsCpu, job # None, Stood({"affinity"}),
                      \/ {"limits", "rate"} \cap hidden # {}
                      \/ "affinity" \in hidden /\ job.affinity # None
               PROVE  reply'.cores = None
    OBVIOUS
  <2>1. WalkOK /\ KeptInv
    BY DEF IInv, WalkOK
  <2>2. JudgeCpu /\ pc = "judge_cpu"
    BY <2>1, Returning DEF ReturnsCpu
  <2>3. Refused
    BY <2>1, <2>2 DEF KeptInv, HiddenKept, Stood
  <2>4. Candidates = {}
    BY <2>1, <2>3, RefusedFacts DEF Refused
  <2> QED
    BY <2>1, <2>2, <2>4, JudgeCpuFacts
<1> QED
  BY <1>1, <1>2, Invariance, PTL DEF Spec, UnreadableReportsNothing

----------------------------------------------------------------------------
(* Exactness.                                                              *)

\* What ExactMemory asks of an answer, case by case.
LEMMA ExactMemoryCases ==
    ASSUME NEW r
    PROVE  LET limits == {job.memory, job.process} \ {None}
               used == AtMost(charge, job.memory)
           IN  /\ job # None /\ "limits" \in mute =>
                    (ExactMemory(r) <=> r.notices = {"MEMORY_LIMIT_UNREADABLE"} /\ r.budget = None)
               /\ ~(job # None /\ "limits" \in mute) /\ (job = None \/ limits = {}) =>
                    (ExactMemory(r) <=> r.notices = {} /\ r.budget = None)
               /\ job # None /\ "limits" \notin mute /\ limits # {} /\ host.ceiling = None =>
                    (ExactMemory(r) <=> r.notices = {"MACHINE_MEMORY_UNKNOWN"} /\ r.budget = None)
               /\ job # None /\ "limits" \notin mute /\ limits # {} /\ host.ceiling # None =>
                    (ExactMemory(r) <=>
                       IF \A l \in limits : l >= host.ceiling
                       THEN r.notices = {"MEMORY_LIMIT_COVERS_MACHINE"} /\ r.budget = None
                       ELSE IF job.memory = None \/ \E l \in limits : l < job.memory
                            THEN r.notices = {"MEMORY_USAGE_UNAVAILABLE"} /\ r.budget = None
                       ELSE IF {"violation", "commit"} \subseteq mute
                            THEN r.notices = {"MEMORY_USAGE_UNREADABLE"} /\ r.budget = None
                       ELSE r.notices = {} /\ r.budget = [limit |-> job.memory, used |-> used,
                                                          available |-> job.memory - used])
BY Zenon DEF ExactMemory

\* The figures of a job with a limit of its own that nothing moves, whichever of
\* them are read.
LEMMA FiguresFacts ==
    ASSUME TypeOK, job # None, job.memory # None, "limits" \notin mute, ~PerProcess(job), memory = MemoryNow
    PROVE  /\ memory.limit = job.memory
           /\ memory.usage_unreadable <=> {"violation", "commit"} \subseteq mute
           /\ ~({"violation", "commit"} \subseteq mute) =>
                /\ memory.used \in Nat /\ memory.available \in Nat /\ memory.used # None
                /\ AtMost(memory.used, job.memory) = AtMost(charge, job.memory)
                /\ memory.available >= job.memory - AtMost(charge, job.memory)
<1> DEFINE m == [NoMemory EXCEPT !.limit = job.memory, !.used = UsedNow]
<1>1. /\ job.memory \in Nat /\ charge \in Nat /\ None \notin Int
  BY JobFacts, NumberAssumption DEF TypeOK
<1>2. /\ UsedNow = IF "violation" \in mute THEN None ELSE charge
      /\ CommitNow = IF "commit" \in mute THEN None ELSE Max0(job.memory - charge)
  BY DEF UsedNow, CommitNow, AvailableCommit, Answers
<1>3. UsedNow \in Nat \cup {None} /\ CommitNow \in Nat \cup {None}
  BY <1>1, <1>2 DEF Max0
<1>4. /\ m \in Readings /\ m.limit = job.memory /\ m.used = UsedNow
  BY <1>1, <1>3 DEF NoMemory, Readings
<1>5. memory = Paired(m, CommitNow)
  BY DEF MemoryNow, Answers
<1> HIDE DEF m
<1>6. /\ memory.limit = job.memory
      /\ memory.used = (IF UsedNow = None /\ CommitNow # None THEN Max0(job.memory - CommitNow) ELSE UsedNow)
      /\ memory.available = (IF CommitNow = None /\ UsedNow # None THEN Max0(job.memory - UsedNow) ELSE CommitNow)
      /\ memory.usage_unreadable = (UsedNow = None /\ CommitNow = None)
  BY <1>1, <1>3, <1>4, <1>5, PairedFacts
<1>7. Max0(job.memory - charge) \in Nat /\ Max0(job.memory - charge) = job.memory - AtMost(charge, job.memory)
  BY <1>1 DEF Max0, AtMost
<1>8. Max0(job.memory - Max0(job.memory - charge)) = AtMost(charge, job.memory)
      /\ AtMost(charge, job.memory) \in Nat
      /\ AtMost(AtMost(charge, job.memory), job.memory) = AtMost(charge, job.memory)
  BY <1>1 DEF Max0, AtMost
<1>9. memory.usage_unreadable <=> {"violation", "commit"} \subseteq mute
  <2>1. UsedNow = None <=> "violation" \in mute
    BY <1>1, <1>2
  <2>2. CommitNow = None <=> "commit" \in mute
    BY <1>1, <1>2, <1>7
  <2>3. memory.usage_unreadable <=> UsedNow = None /\ CommitNow = None
    BY <1>6
  <2> QED
    BY <2>1, <2>2, <2>3
<1>10. CASE "violation" \notin mute
  <2>1. UsedNow = charge /\ UsedNow # None
    BY <1>1, <1>2, <1>10
  <2>2. memory.used = charge /\ memory.available = Max0(job.memory - charge)
    BY <1>2, <1>6, <2>1
  <2> QED
    BY <1>1, <1>6, <1>7, <1>9, <2>1, <2>2
<1>11. CASE "violation" \in mute /\ "commit" \notin mute
  <2>1. UsedNow = None /\ CommitNow = Max0(job.memory - charge) /\ CommitNow # None
    BY <1>1, <1>2, <1>7, <1>11
  <2>2. memory.used = AtMost(charge, job.memory) /\ memory.available = Max0(job.memory - charge)
    BY <1>6, <1>8, <2>1
  <2> QED
    BY <1>1, <1>6, <1>7, <1>8, <1>9, <2>2
<1> QED
  BY <1>6, <1>9, <1>10, <1>11

LEMMA ExactMemoryHere ==
    ASSUME WalkOK, QuietInv, JudgeMemory, touched = {}
    PROVE  ExactMemory(reply')
<1> DEFINE limits == {job.memory, job.process} \ {None}
           used == AtMost(charge, job.memory)
<1>1. /\ memory = MemoryNow
      /\ memory.unreadable => memory.limit = None
      /\ host.ceiling \in (Nat \ {0}) \cup {None} /\ charge \in Nat
      /\ NoMemory.unreadable = FALSE /\ NoMemory.limit = None
  BY CoresFacts, NumberAssumption DEF JudgeMemory, QuietInv, WalkOK, WalkInv, TypeOK, NoMemory
<1>2. /\ reply'.notices = MemoryRejection
      /\ MemoryRejection # {} \/ memory.limit = None => reply'.budget = None
  BY JudgeMemoryFacts
<1>3. CASE job # None /\ "limits" \in mute
  <2>1. memory.unreadable
    BY <1>1, <1>3 DEF MemoryNow, Answers, NoMemory
  <2>2. MemoryRejection = {"MEMORY_LIMIT_UNREADABLE"}
    BY <1>1, <2>1, RejectionFacts
  <2> QED
    BY <1>2, <1>3, <2>2, ExactMemoryCases
<1>4. CASE ~(job # None /\ "limits" \in mute) /\ (job = None \/ limits = {})
  <2>1. ~memory.unreadable /\ memory.limit = None
    <3>1. CASE job = None
      BY <1>1, <3>1 DEF MemoryNow, Answers, NoMemory
    <3>2. CASE job # None
      BY <1>1, <1>4, <3>2 DEF MemoryNow, Answers, NoMemory, PerProcess
    <3> QED
      BY <3>1, <3>2
  <2>2. MemoryRejection = {}
    BY <1>1, <2>1, RejectionFacts
  <2> QED
    BY <1>2, <1>4, <2>1, <2>2, ExactMemoryCases
<1>5. CASE job # None /\ "limits" \notin mute /\ limits # {}
  <2>1. /\ job.memory \in Nat \cup {None} /\ job.process \in Nat \cup {None} /\ None \notin Int
    BY <1>5, JobFacts, NumberAssumption DEF WalkOK, TypeOK
  <2>2. memory.limit # None /\ memory.limit = (IF PerProcess(job) THEN job.process ELSE job.memory)
    <3>1. CASE PerProcess(job)
      BY <1>1, <1>5, <3>1 DEF MemoryNow, Answers, NoMemory, PerProcess
    <3>2. CASE ~PerProcess(job)
      <4>1. job.memory # None
        BY <1>5, <3>2 DEF PerProcess
      <4> QED
        BY <1>1, <1>5, <3>2, <4>1, FiguresFacts DEF WalkOK
    <3> QED
      BY <3>1, <3>2
  <2>3. CASE host.ceiling = None
    <3>1. MemoryRejection = {"MACHINE_MEMORY_UNKNOWN"}
      BY <1>1, <2>2, <2>3, RejectionFacts
    <3> QED
      BY <1>2, <1>5, <2>3, <3>1, ExactMemoryCases
  <2>4. CASE host.ceiling # None
    <3>1. MemoryRejection =
            IF memory.limit >= host.ceiling THEN {"MEMORY_LIMIT_COVERS_MACHINE"}
            ELSE IF memory.usage_unreadable THEN {"MEMORY_USAGE_UNREADABLE"}
            ELSE IF memory.used = None THEN {"MEMORY_USAGE_UNAVAILABLE"} ELSE {}
      BY <1>1, <2>2, <2>4, RejectionFacts
    <3>2. ExactMemory(reply') <=>
            IF \A l \in limits : l >= host.ceiling
            THEN reply'.notices = {"MEMORY_LIMIT_COVERS_MACHINE"} /\ reply'.budget = None
            ELSE IF job.memory = None \/ \E l \in limits : l < job.memory
                 THEN reply'.notices = {"MEMORY_USAGE_UNAVAILABLE"} /\ reply'.budget = None
            ELSE IF {"violation", "commit"} \subseteq mute
                 THEN reply'.notices = {"MEMORY_USAGE_UNREADABLE"} /\ reply'.budget = None
            ELSE reply'.notices = {} /\ reply'.budget = [limit |-> job.memory, used |-> used,
                                                         available |-> job.memory - used]
      BY <1>5, <2>4, ExactMemoryCases
    <3>3. host.ceiling \in Nat
      BY <1>1, <2>4
    <3>4. memory.limit >= host.ceiling <=> \A l \in limits : l >= host.ceiling
      BY <2>1, <2>2, <3>3 DEF PerProcess
    <3>5. (job.memory = None \/ \E l \in limits : l < job.memory) <=> PerProcess(job)
      BY <1>5, <2>1 DEF PerProcess
    <3>6. CASE memory.limit >= host.ceiling
      BY <1>2, <3>1, <3>2, <3>4, <3>6
    <3>7. CASE ~(memory.limit >= host.ceiling) /\ PerProcess(job)
      <4>1. ~memory.usage_unreadable /\ memory.used = None
        BY <1>1, <1>5, <3>7 DEF MemoryNow, Answers, NoMemory
      <4> QED
        BY <1>2, <3>1, <3>2, <3>4, <3>5, <3>7, <4>1
    <3>8. CASE ~(memory.limit >= host.ceiling) /\ ~PerProcess(job)
      <4>1. job.memory # None /\ job.memory \in Nat
        BY <1>5, <2>1, <3>8 DEF PerProcess
      <4>2. /\ memory.limit = job.memory
            /\ memory.usage_unreadable <=> {"violation", "commit"} \subseteq mute
            /\ ~({"violation", "commit"} \subseteq mute) =>
                 /\ memory.used \in Nat /\ memory.available \in Nat /\ memory.used # None
                 /\ AtMost(memory.used, job.memory) = used
                 /\ memory.available >= job.memory - used
        BY <1>1, <1>5, <3>8, <4>1, FiguresFacts DEF WalkOK
      <4>3. CASE {"violation", "commit"} \subseteq mute
        BY <1>2, <3>1, <3>2, <3>4, <3>5, <3>8, <4>2, <4>3
      <4>4. CASE ~({"violation", "commit"} \subseteq mute)
        <5>1. MemoryRejection = {} /\ used \in Nat
          BY <1>1, <3>1, <3>8, <4>1, <4>2, <4>4 DEF AtMost
        <5>2. reply'.budget = Reconcile(job.memory, memory.used, memory.available)
          BY <2>2, <4>2, <5>1, JudgeMemoryFacts
        <5>3. /\ reply'.budget \in Budgets /\ reply'.budget.limit = job.memory /\ reply'.budget.used = used
              /\ reply'.budget.available = AtMost(memory.available, job.memory - used)
          BY <4>1, <4>2, <4>4, <5>2, ReconcileFacts
        <5>4. reply'.budget.available = job.memory - used
          BY <4>1, <4>2, <4>4, <5>1, <5>3 DEF AtMost
        <5>5. reply'.budget = [limit |-> job.memory, used |-> used, available |-> job.memory - used]
          BY <5>3, <5>4 DEF Budgets
        <5> HIDE DEF used
        <5> QED
          BY <1>2, <3>2, <3>4, <3>5, <3>8, <4>4, <5>1, <5>5
      <4> QED
        BY <4>3, <4>4
    <3> QED
      BY <3>6, <3>7, <3>8
  <2> QED
    BY <2>3, <2>4
<1> QED
  BY <1>3, <1>4, <1>5

\* What ExactCpu asks of an answer, case by case.
LEMMA ExactCpuCases ==
    ASSUME NEW r
    PROVE  LET granted == {Granted(field) : field \in Granting}
               binding == {x \in granted : CountCores = None \/ ~WholeMachine(x)}
               silent == {"limits", "rate"} \cap mute # {}
               unsized == "control" \in Granting /\ CountCores = None
               uncounted == "affinity" \in Granting /\ ("affinity" \in mute \/ <<0, 1>> \in granted)
           IN  /\ job = None => (ExactCpu(r) <=> r.notices = {} /\ r.cores = None)
               /\ job # None /\ (silent \/ (~unsized /\ uncounted)) =>
                    (ExactCpu(r) <=> r.notices = {"CPU_LIMIT_UNREADABLE"} /\ r.cores = None)
               /\ job # None /\ ~silent /\ unsized =>
                    (ExactCpu(r) <=> r.notices = {"MACHINE_CPU_COUNT_UNKNOWN"} /\ r.cores = None)
               /\ job # None /\ ~silent /\ ~unsized /\ ~uncounted =>
                    (ExactCpu(r) <=>
                       /\ binding = {} <=> r.cores = None
                       /\ binding # {} => r.cores \in binding /\ \A x \in binding : ~Less(x, r.cores)
                       /\ \A field \in {"control", "affinity"} :
                            Covering(field) \in r.notices <=> field \in Granting /\ Granted(field) \notin binding)
<1> DEFINE granted == {Granted(field) : field \in Granting}
           silent == {"limits", "rate"} \cap mute # {}
           unsized == "control" \in Granting /\ CountCores = None
           uncounted == "affinity" \in Granting /\ ("affinity" \in mute \/ <<0, 1>> \in granted)
           refused == CASE silent -> {"CPU_LIMIT_UNREADABLE"}
                        [] OTHER -> IF unsized THEN {"MACHINE_CPU_COUNT_UNKNOWN"}
                                    ELSE IF uncounted THEN {"CPU_LIMIT_UNREADABLE"} ELSE {}
<1>1. refused = IF silent THEN {"CPU_LIMIT_UNREADABLE"}
                ELSE IF unsized THEN {"MACHINE_CPU_COUNT_UNKNOWN"}
                ELSE IF uncounted THEN {"CPU_LIMIT_UNREADABLE"} ELSE {}
  BY Zenon
<1>2. ExactCpu(r) <=>
        LET binding == {x \in granted : CountCores = None \/ ~WholeMachine(x)}
        IN  IF job = None THEN r.notices = {} /\ r.cores = None
            ELSE IF refused # {} THEN r.notices = refused /\ r.cores = None
            ELSE /\ binding = {} <=> r.cores = None
                 /\ binding # {} => r.cores \in binding /\ \A x \in binding : ~Less(x, r.cores)
                 /\ \A field \in {"control", "affinity"} :
                      Covering(field) \in r.notices <=> field \in Granting /\ Granted(field) \notin binding
  BY DEF ExactCpu
<1> HIDE DEF refused
<1> QED
  BY <1>1, <1>2

\* Of a job that nothing moves, the quota and the set are what it grants, unless
\* a query says why they are not told.
LEMMA ExactCpuHere ==
    ASSUME WalkOK, KeptInv, QuietInv, JudgeCpu, touched = {}
    PROVE  ExactCpu(reply')
<1> DEFINE granted == {Granted(field) : field \in Granting}
           binding == {x \in granted : CountCores = None \/ ~WholeMachine(x)}
           silent == {"limits", "rate"} \cap mute # {}
           unsized == "control" \in Granting /\ CountCores = None
           uncounted == "affinity" \in Granting /\ ("affinity" \in mute \/ <<0, 1>> \in granted)
<1>1. /\ pc = "judge_cpu" /\ machine_cpus = CountCores /\ CountCores \in {None, Cores}
      /\ Cores # None
      /\ reply'.notices = CpuNotices /\ reply'.cores = (IF Candidates = {} THEN None ELSE Tightest)
      /\ job = None => cpu = NoCpu
      /\ job # None => /\ cpu.unreadable <=> SilentNow
                       /\ cpu.unconvertible <=> ~SilentNow /\ UnsizedNow
  BY CoresFacts, JudgeCpuFacts, NumberAssumption DEF JudgeCpu, QuietInv, CpuSteps, WalkOK, TypeOK
<1>2. CASE job = None
  <2>1. /\ cpu.quota = None /\ cpu.cpu_set = None /\ ~cpu.unreadable /\ ~cpu.unconvertible
    BY <1>1, <1>2 DEF NoCpu
  <2>2. CpuNotices = {} /\ Candidates = {}
    BY <2>1 DEF CpuNotices, Candidates
  <2> QED
    BY <1>1, <1>2, <2>2, ExactCpuCases
<1>3. CASE job # None
  <2>1. /\ "control" \in Granting <=> RateCap(job.control) # None
        /\ "affinity" \in Granting <=> job.affinity # None
        /\ Granting \subseteq {"control", "affinity"}
        /\ "control" \in Granting => QuotaOf(job) = Granted("control") /\ QuotaOf(job) # None
        /\ "affinity" \in Granting => SetOf(job) = Granted("affinity") /\ SetOf(job) # None
        /\ "control" \in Granting => Granted("control") # <<0, 1>>
        /\ "affinity" \in Granting => (Granted("affinity") = <<0, 1>> <=> AffinityCores = 0)
    BY <1>3, GrantedFacts
  <2> HIDE DEF Granted
  <2>2. unsized <=> UnsizedNow
    BY <2>1 DEF UnsizedNow
  <2>3. "affinity" \in Granting => (<<0, 1>> \in granted <=> AffinityCores = 0)
    BY <2>1
  <2>4. SilentNow <=> silent \/ (~unsized /\ uncounted)
    BY <2>1, <2>2, <2>3 DEF SilentNow
  <2>5. CASE silent \/ (~unsized /\ uncounted)
    <3>1. CpuNotices = {"CPU_LIMIT_UNREADABLE"} /\ Candidates = {}
      BY <1>1, <1>3, <2>4, <2>5, RefusedFacts
    <3> QED
      BY <1>1, <1>3, <2>5, <3>1, ExactCpuCases
  <2>6. CASE ~silent /\ unsized
    <3>1. CpuNotices = {"MACHINE_CPU_COUNT_UNKNOWN"} /\ Candidates = {}
      BY <1>1, <1>3, <2>2, <2>4, <2>6, RefusedFacts
    <3> QED
      BY <1>1, <1>3, <2>6, <3>1, ExactCpuCases
  <2>7. CASE ~silent /\ ~unsized /\ ~uncounted
    <3>1. ~cpu.unreadable /\ ~cpu.unconvertible /\ ~Refused
      BY <1>1, <1>3, <2>2, <2>4, <2>7 DEF Refused
    <3>2. /\ cpu.quota = (IF "control" \in Granting THEN Granted("control") ELSE None)
          /\ cpu.cpu_set = (IF "affinity" \in Granting THEN Granted("affinity") ELSE None)
          /\ cpu.quota # None <=> "control" \in Granting
          /\ cpu.cpu_set # None <=> "affinity" \in Granting
      <4>1. cpu.quota = QuotaOf(job) /\ cpu.cpu_set = SetOf(job)
        BY <1>1, <1>3, <3>1 DEF KeptInv, QuotaKept, SetKept
      <4> QED
        BY <2>1, <4>1 DEF QuotaOf, SetOf
    <3>3. \A x : CoversMachine(x) <=> ~(CountCores = None \/ ~WholeMachine(x))
      BY <1>1 DEF CoversMachine, WholeMachine
    <3>4. \A x : x \in binding <=> x \in granted /\ ~CoversMachine(x)
      BY <3>3
    <3>5. \A x : x \in granted <=> x \in {cpu.quota, cpu.cpu_set} /\ x # None
      BY <2>1, <3>2
    <3>6. binding = Candidates
      BY <3>4, <3>5 DEF Candidates
    <3>7. Candidates # {} => /\ reply'.cores = Tightest /\ Tightest # None /\ Tightest \in Candidates
                             /\ \A y \in Candidates : ~Less(y, Tightest)
      BY <1>1, TightestFacts DEF WalkOK
    <3>8. \A field \in {"control", "affinity"} :
            Covering(field) \in CpuNotices <=> field \in Granting /\ CoversMachine(Granted(field))
      <4>1. "CPU_QUOTA_COVERS_MACHINE" \in CpuNotices <=> cpu.quota # None /\ CoversMachine(cpu.quota)
        BY <3>1 DEF CpuNotices
      <4>2. "CPU_SET_COVERS_MACHINE" \in CpuNotices <=> cpu.cpu_set # None /\ CoversMachine(cpu.cpu_set)
        BY <3>1 DEF CpuNotices
      <4> QED
        BY <3>2, <4>1, <4>2 DEF Covering
    <3>9. \A field \in Granting : Granted(field) \notin binding <=> CoversMachine(Granted(field))
      BY <3>4
    <3>10. /\ binding = {} <=> reply'.cores = None
           /\ binding # {} => reply'.cores \in binding /\ \A x \in binding : ~Less(x, reply'.cores)
      BY <1>1, <3>6, <3>7
    <3>11. \A field \in {"control", "affinity"} :
             Covering(field) \in reply'.notices <=> field \in Granting /\ Granted(field) \notin binding
      BY <1>1, <3>8, <3>9
    <3> QED
      BY <1>3, <2>7, <3>10, <3>11, ExactCpuCases
  <2> QED
    BY <2>5, <2>6, <2>7
<1> QED
  BY <1>2, <1>3

\* A call during which nothing moved answers with exactly what the job says.
THEOREM Exact == Spec => QuietExact
<1>1. IInv /\ [Next]_vars =>
        (touched = {} => /\ ReturnsMemory => ExactMemory(reply')
                         /\ ReturnsCpu => ExactCpu(reply'))
  BY Returning, ExactMemoryHere, ExactCpuHere DEF IInv, WalkOK
<1> QED
  BY <1>1, Invariance, PTL DEF Spec, QuietExact

=============================================================================
