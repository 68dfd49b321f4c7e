----------------------------- MODULE WindowsJob -----------------------------
(***************************************************************************)
(* get_memory_budget() and get_cpu_limit() on Windows: several queries of  *)
(* the job that holds this process, each a step, against an owner who sets *)
(* and lifts limits, processes that commit and free memory, queries that   *)
(* fail, and a process that is put into a job nested in the one it is in.  *)
(*                                                                         *)
(* Only the immediate job answers, so that one is the whole state: a job   *)
(* around it can be neither read nor told from none.                       *)
(***************************************************************************)
EXTENDS Integers, Sequences, FiniteSets

\* The processors of each group, by number.
Grouped(groups) == /\ groups \in Seq(SUBSET Nat)
                   /\ \A g \in DOMAIN groups : IsFiniteSet(groups[g])

CONSTANTS
    Limits,      \* Limits[field]: what a field of a job may be set to
    Jobs,        \* the jobs the process may be in, or be put into, as they are then
    Hosts,       \* the machines: [ceiling, headroom, groups, here]
    Flaky,       \* the calls to the system that may stop answering
    MaxCommit,   \* bound: the memory a job ever holds
    MaxChanges,  \* bound: limits set, assignments and calls that start or stop failing
    Scale,       \* _RATE_SCALE
    None

\* The calls: four job information classes, ProcessAppMemoryInfo and
\* GetActiveProcessorCount.
Calls == {"limits", "rate", "affinity", "violation", "commit", "count"}

\* A job: its memory limits, its rate control, and its affinity, one set of
\* processors per group, or None where the flag of a field is clear.
Fields == {"memory", "process", "control", "affinity"}
JobType == [memory : Limits["memory"], process : Limits["process"],
            control : Limits["control"], affinity : Limits["affinity"]]

\* JOBOBJECT_CPU_RATE_CONTROL_INFORMATION: the flags and the two words of the
\* union.
Word == 65536
Controls == [flags : SUBSET {"enable", "hard", "range", "weight"}, low : 0..Word - 1, high : 0..Word - 1]

\* "The kernel refuses to store a rate of zero", and one of more than Scale,
\* which leaves the high word of a hard cap clear.
Stored(c) ==
    /\ c \in Controls
    /\ {"enable", "range"} \subseteq c.flags => c.high > 0
    /\ {"enable", "hard"} \subseteq c.flags /\ "range" \notin c.flags => c.low > 0 /\ c.high = 0

\* What the calls return: numbers of cores, and budgets.
Fractions == Nat \X {1, Scale}
Budgets == [limit : Nat, used : Nat, available : Nat]

ASSUME LimitAssumption ==
    /\ DOMAIN Limits = Fields
    /\ Limits["memory"] \cup Limits["process"] \subseteq Nat \cup {None}
    /\ \A c \in Limits["control"] : Stored(c)
    /\ \A a \in Limits["affinity"] : a = None \/ Grouped(a)
    /\ Jobs \subseteq JobType
ASSUME HostAssumption ==
    \A h \in Hosts : /\ h.ceiling \in (Nat \ {0}) \cup {None}
                     /\ h.headroom \in Nat
                     /\ Grouped(h.groups)
                     /\ h.here \in DOMAIN h.groups /\ h.groups[h.here] # {}
ASSUME NumberAssumption == /\ Flaky \subseteq Calls
                           /\ MaxCommit \in Nat /\ MaxChanges \in Nat
                           /\ Scale \in Nat \ {0}
                           /\ None \notin Int /\ None \notin JobType
                           /\ None \notin Fractions /\ None \notin Budgets

VARIABLES
    host,          \* the machine
    job,           \* the immediate job of this process, or None
    charge,        \* JobMemory: what its processes have committed
    mute,          \* the calls that fail
    changes,       \* changes so far
    pc,            \* the step the call is at
    machine_cpus,  \* the cores _evaluate_cpu_limit was given
    memory,        \* the RawMemory so far
    flagged,       \* whether the limits read said that there is an affinity
    share,         \* the rate read, in parts of Scale, or None
    cpu,           \* the RawCpu so far
    reply,         \* what the call returned, until the next one begins
    touched,       \* history: what has changed since the call began
    hidden,        \* history: the calls that failed all that time
    room           \* history: the most room the job has had since then

system == <<host, job, charge, mute, changes>>
locals == <<machine_cpus, memory, flagged, share, cpu>>
history == <<touched, hidden, room>>
vars == <<system, pc, locals, reply, history>>

Max0(n) == IF n < 0 THEN 0 ELSE n
AtMost(n, cap) == IF n < cap THEN n ELSE cap
Larger(m, n) == IF m < n THEN n ELSE m

Processors(groups) == UNION {{g} \X groups[g] : g \in DOMAIN groups}
Cores == Cardinality(Processors(host.groups))

----------------------------------------------------------------------------
(* The system.                                                             *)

\* What may still be committed under the limits of the job, by a process that
\* has committed nothing yet.
RoomOf(j, committed) ==
    LET left == IF j = None \/ j.memory = None THEN host.headroom ELSE Max0(j.memory - committed)
    IN  IF j = None \/ j.process = None THEN left ELSE AtMost(left, j.process)

Observe(what) ==
    /\ touched' = IF pc = "idle" THEN {} ELSE touched \cup {what}
    /\ hidden' = hidden \cap mute'
    /\ room' = IF pc = "idle" THEN 0 ELSE Larger(room, RoomOf(job', charge'))
    /\ UNCHANGED <<host, pc, locals, reply>>

Count == changes < MaxChanges /\ changes' = changes + 1

\* The owner of the job sets or lifts a limit, also one below what is committed.
SetLimit(field, value) ==
    /\ job # None
    /\ value # job[field]
    /\ job' = [job EXCEPT ![field] = value]
    /\ Count
    /\ UNCHANGED <<charge, mute>>
    /\ Observe(field)

\* AssignProcessToJobObject: from no job into one, or into one nested in it.
Assign(j, committed) ==
    /\ job # None => committed <= charge
    /\ j.memory # None => committed <= j.memory
    /\ job' = j
    /\ charge' = committed
    /\ Count
    /\ UNCHANGED mute
    /\ Observe("job")

\* The processes of the job commit, within its limit, or free memory.
Commit(committed) ==
    /\ job # None
    /\ committed # charge
    /\ job.memory # None /\ committed > charge => committed <= job.memory
    /\ charge' = committed
    /\ UNCHANGED <<job, mute, changes>>
    /\ Observe("charge")

Flip(call) ==
    /\ mute' = IF call \in mute THEN mute \ {call} ELSE mute \cup {call}
    /\ Count
    /\ UNCHANGED <<job, charge>>
    /\ Observe("calls")

System == \/ \E field \in Fields : \E value \in Limits[field] : SetLimit(field, value)
          \/ \E j \in Jobs, committed \in 0..MaxCommit : Assign(j, committed)
          \/ \E committed \in 0..MaxCommit : Commit(committed)
          \/ \E call \in Flaky : Flip(call)

\* A query of the job: outside one, every information class fails.
Answers(call) == job # None /\ call \notin mute

\* AvailableCommit: the distance to the limit of the immediate job, or, without
\* one, the headroom of the machine.  It is blind to a per-process limit.
AvailableCommit == IF job = None \/ job.memory = None THEN host.headroom ELSE Max0(job.memory - charge)

----------------------------------------------------------------------------
(* read_memory() and _evaluate_memory().                                   *)

NoMemory == [limit |-> None, used |-> None, available |-> None,
             unreadable |-> FALSE, usage_unreadable |-> FALSE]
NoCpu == [quota |-> None, cpu_set |-> None, unreadable |-> FALSE, unconvertible |-> FALSE]
Pending == [notices |-> {"pending"}, budget |-> None, cores |-> None]

Start(step) ==
    /\ pc = "idle"
    /\ pc' = step
    /\ reply' = Pending
    /\ touched' = {}
    /\ hidden' = mute
    /\ room' = RoomOf(job, charge)
    /\ UNCHANGED system

BeginMemory == Start("memory_limits") /\ UNCHANGED locals

\* Mutant of PerProcess: a per-process limit counts only where it is alone.
PerProcessAlone(j) == j.process # None /\ j.memory = None

\* The per-process limit is the tighter one, or the only one.
PerProcess(j) == j.process # None /\ (j.memory # None => j.process < j.memory)

\* The limits; no job is told by its error from one that does not answer.
QueryMemoryLimits ==
    /\ pc = "memory_limits"
    /\ \/ /\ ~Answers("limits")
          /\ memory' = [NoMemory EXCEPT !.unreadable = (job # None)]
          /\ pc' = "judge_memory"
       \/ /\ Answers("limits")
          /\ PerProcess(job)
          /\ memory' = [NoMemory EXCEPT !.limit = job.process]
          /\ pc' = "judge_memory"
       \/ /\ Answers("limits")
          /\ ~PerProcess(job)
          /\ memory' = [NoMemory EXCEPT !.limit = job.memory]
          /\ pc' = IF job.memory = None THEN "judge_memory" ELSE "charge"
    /\ UNCHANGED <<system, machine_cpus, flagged, share, cpu, reply, history>>

\* _job_memory_in_use
ReadCharge ==
    /\ pc = "charge"
    /\ memory' = [memory EXCEPT !.used = IF Answers("violation") THEN charge ELSE None]
    /\ pc' = "commit"
    /\ UNCHANGED <<system, machine_cpus, flagged, share, cpu, reply, history>>

\* Either figure stands in for the other; without both the limit is alone.
Paired(m, available) ==
    [m EXCEPT !.used = IF m.used = None /\ available # None THEN Max0(m.limit - available) ELSE m.used,
              !.available = IF available = None /\ m.used # None THEN Max0(m.limit - m.used) ELSE available,
              !.usage_unreadable = (m.used = None /\ available = None)]

\* _available_commit, and the rest of _job_memory.
ReadCommit ==
    /\ pc = "commit"
    /\ memory' = Paired(memory, IF "commit" \in mute THEN None ELSE AvailableCommit)
    /\ pc' = "judge_memory"
    /\ UNCHANGED <<system, machine_cpus, flagged, share, cpu, reply, history>>

\* Mutants of Reconcile: the room read is not held against the usage read; the
\* usage read is not held against the limit.
ReconcileRoomFirst(limit, used, available) ==
    [limit |-> limit, used |-> AtMost(Max0(used), limit), available |-> AtMost(Max0(available), limit)]
ReconcileUncapped(limit, used, available) ==
    [limit |-> limit, used |-> Max0(used), available |-> AtMost(Max0(available), limit - Max0(used))]

\* _reconcile: the room gives way to the usage.
Reconcile(limit, used, available) ==
    LET charged == AtMost(Max0(used), limit)
    IN  [limit |-> limit, used |-> charged, available |-> AtMost(Max0(available), limit - charged)]

\* _memory_rejection, without the notice of a platform that has no mechanism:
\* sources() always names one on Windows.
MemoryRejection ==
    CASE memory.unreadable -> {"MEMORY_LIMIT_UNREADABLE"}
      [] ~memory.unreadable /\ memory.limit = None -> {}
      [] memory.limit # None /\ host.ceiling = None -> {"MACHINE_MEMORY_UNKNOWN"}
      [] OTHER ->
           IF memory.limit >= host.ceiling THEN {"MEMORY_LIMIT_COVERS_MACHINE"}
           ELSE IF memory.usage_unreadable THEN {"MEMORY_USAGE_UNREADABLE"}
           ELSE IF memory.used = None THEN {"MEMORY_USAGE_UNAVAILABLE"} ELSE {}

Answer(r) ==
    /\ pc' = "idle"
    /\ reply' = r
    /\ machine_cpus' = None /\ memory' = NoMemory /\ flagged' = FALSE /\ share' = None /\ cpu' = NoCpu
    /\ touched' = {} /\ hidden' = {} /\ room' = 0
    /\ UNCHANGED system

JudgeMemory ==
    /\ pc = "judge_memory"
    /\ Answer([Pending EXCEPT
                 !.notices = MemoryRejection,
                 !.budget = IF MemoryRejection # {} \/ memory.limit = None THEN None
                            ELSE Reconcile(memory.limit, memory.used, memory.available)])

----------------------------------------------------------------------------
(* read_cpu() and _evaluate_cpu_limit().                                   *)

\* machine_cpu_count: the fallback counts the group the process runs in.
CountCores ==
    IF "count" \notin mute THEN Cores
    ELSE IF Len(host.groups) # 1 THEN None ELSE Cardinality(host.groups[host.here])

BeginCpu ==
    /\ Start("cpu_limits")
    /\ machine_cpus' = CountCores
    /\ UNCHANGED <<memory, flagged, share, cpu>>

Reads(next) == cpu' = cpu /\ pc' = next
Drops(why) == cpu' = [NoCpu EXCEPT ![why] = TRUE] /\ pc' = "judge_cpu"

QueryCpuLimits ==
    /\ pc = "cpu_limits"
    /\ \/ job = None /\ Reads("judge_cpu") /\ UNCHANGED flagged
       \/ job # None /\ ~Answers("limits") /\ Drops("unreadable") /\ UNCHANGED flagged
       \/ Answers("limits") /\ Reads("rate") /\ flagged' = (job.affinity # None)
    /\ UNCHANGED <<system, machine_cpus, memory, share, reply, history>>

\* Mutant of RateCap: a range is read through the member of a hard cap.
RateCapUnion(control) ==
    IF "enable" \in control.flags /\ {"range", "hard"} \cap control.flags # {}
    THEN control.low + Word * control.high ELSE None

\* _rate_cap: MaxRate is the high word, CpuRate both; a weight is no cap.
RateCap(control) ==
    LET rate == IF "range" \in control.flags THEN control.high ELSE control.low + Word * control.high
    IN  IF "enable" \in control.flags /\ {"range", "hard"} \cap control.flags # {} /\ rate > 0
        THEN rate ELSE None

\* Mutant of RateSilent: rate control that does not answer counts as none set.
NeverSilent == FALSE

RateSilent == ~Answers("rate")

\* One unreadable answer drops both restrictions.
QueryRate ==
    /\ pc = "rate"
    /\ \/ RateSilent /\ Drops("unreadable") /\ UNCHANGED share
       \/ ~RateSilent /\ Reads("size") /\ share' = RateCap(job.control)
    /\ UNCHANGED <<system, machine_cpus, memory, flagged, reply, history>>

\* The share comes to cores by a second count of the machine.
SizeRate ==
    /\ pc = "size"
    /\ \/ share # None /\ CountCores = None /\ Drops("unconvertible")
       \/ /\ share = None \/ CountCores # None
          /\ cpu' = [cpu EXCEPT !.quota = IF share = None THEN None ELSE <<share * CountCores, Scale>>]
          /\ pc' = IF flagged THEN "affinity" ELSE "judge_cpu"
    /\ UNCHANGED <<system, machine_cpus, memory, flagged, share, reply, history>>

\* _affinity_cores: over every group; without an affinity, the class answers
\* with the whole machine.
AffinityCores == Cardinality(Processors(IF job.affinity = None THEN host.groups ELSE job.affinity))

ReadAffinity ==
    /\ pc = "affinity"
    /\ \/ (~Answers("affinity") \/ AffinityCores = 0) /\ Drops("unreadable")
       \/ /\ Answers("affinity") /\ AffinityCores > 0
          /\ cpu' = [cpu EXCEPT !.cpu_set = <<AffinityCores, 1>>]
          /\ pc' = "judge_cpu"
    /\ UNCHANGED <<system, machine_cpus, memory, flagged, share, reply, history>>

\* Cores are fractions.
Less(x, y) == x[1] * y[2] < y[1] * x[2]
CoversMachine(x) == machine_cpus # None /\ x[1] >= machine_cpus * x[2]

Candidates == {x \in {cpu.quota, cpu.cpu_set} : x # None /\ ~CoversMachine(x)}

\* Mutant of Tightest: the quota, where there is one.
QuotaFirst == IF cpu.quota \in Candidates THEN cpu.quota ELSE cpu.cpu_set

Tightest == CHOOSE x \in Candidates : \A y \in Candidates : ~Less(y, x)

CpuNotices ==
    IF cpu.unreadable THEN {"CPU_LIMIT_UNREADABLE"}
    ELSE IF cpu.unconvertible THEN {"MACHINE_CPU_COUNT_UNKNOWN"}
    ELSE {n \in {"CPU_QUOTA_COVERS_MACHINE", "CPU_SET_COVERS_MACHINE"} :
            LET x == IF n = "CPU_QUOTA_COVERS_MACHINE" THEN cpu.quota ELSE cpu.cpu_set
            IN  x # None /\ CoversMachine(x)}

JudgeCpu ==
    /\ pc = "judge_cpu"
    /\ Answer([Pending EXCEPT !.notices = CpuNotices,
                              !.cores = IF Candidates = {} THEN None ELSE Tightest])

Reader == \/ BeginMemory \/ QueryMemoryLimits \/ ReadCharge \/ ReadCommit \/ JudgeMemory
          \/ BeginCpu \/ QueryCpuLimits \/ QueryRate \/ SizeRate \/ ReadAffinity \/ JudgeCpu

----------------------------------------------------------------------------
Init ==
    /\ host \in Hosts
    /\ job \in Jobs \cup {None}
    /\ charge = 0
    /\ mute = {}
    /\ changes = 0
    /\ pc = "idle"
    /\ machine_cpus = None
    /\ memory = NoMemory
    /\ flagged = FALSE
    /\ share = None
    /\ cpu = NoCpu
    /\ reply = Pending
    /\ touched = {}
    /\ hidden = {}
    /\ room = 0

Next == System \/ Reader

Spec == Init /\ [][Next]_vars

----------------------------------------------------------------------------
(* Properties.                                                             *)

Notices == {"pending", "MEMORY_LIMIT_UNREADABLE", "MACHINE_MEMORY_UNKNOWN", "MEMORY_LIMIT_COVERS_MACHINE",
            "MEMORY_USAGE_UNREADABLE", "MEMORY_USAGE_UNAVAILABLE", "CPU_LIMIT_UNREADABLE",
            "MACHINE_CPU_COUNT_UNKNOWN", "CPU_QUOTA_COVERS_MACHINE", "CPU_SET_COVERS_MACHINE"}

\* The types of the variables.  No number of a budget is negative, also where
\* the job has committed more than a limit set since.
TypeOK ==
    /\ host \in Hosts
    /\ job \in JobType \cup {None}
    /\ charge \in 0..MaxCommit
    /\ mute \subseteq Flaky
    /\ changes \in 0..MaxChanges
    /\ pc \in {"idle", "memory_limits", "charge", "commit", "judge_memory",
               "cpu_limits", "rate", "size", "affinity", "judge_cpu"}
    /\ machine_cpus \in Nat \cup {None}
    /\ memory \in [limit : Nat \cup {None}, used : Nat \cup {None}, available : Nat \cup {None},
                   unreadable : BOOLEAN, usage_unreadable : BOOLEAN]
    /\ flagged \in BOOLEAN
    /\ share \in Nat \cup {None}
    /\ cpu \in [quota : Fractions \cup {None}, cpu_set : Fractions \cup {None},
                unreadable : BOOLEAN, unconvertible : BOOLEAN]
    /\ reply \in [notices : SUBSET Notices, budget : Budgets \cup {None}, cores : Fractions \cup {None}]
    /\ touched \subseteq Fields \cup {"job", "charge", "calls"}
    /\ hidden \subseteq mute
    /\ room \in Nat

\* What did not change since the call began.
Stood(fields) == touched \cap (fields \cup {"job"}) = {}

----------------------------------------------------------------------------
(* The inductive invariant.                                                *)

Judged == {"charge", "commit", "judge_memory"}
CpuSteps == {"cpu_limits", "rate", "size", "affinity", "judge_cpu"}
Refused == cpu.unreadable \/ cpu.unconvertible

\* What the call holds at each of its steps.
WalkInv ==
    /\ pc \notin Judged => memory = NoMemory
    /\ pc \in {"charge", "commit"} =>
         /\ job # None /\ memory.limit # None /\ memory.available = None
         /\ ~memory.unreadable /\ ~memory.usage_unreadable
    /\ pc = "charge" => memory.used = None
    /\ pc = "judge_memory" => /\ memory.used = None <=> memory.available = None
                              /\ memory.used # None => memory.limit # None /\ ~memory.usage_unreadable
                              /\ memory.unreadable => memory.limit = None
    /\ pc \in CpuSteps => machine_cpus \in {None, Cores}
    /\ pc \in {"rate", "size", "affinity"} => job # None
    /\ pc \notin {"affinity", "judge_cpu"} => cpu = NoCpu
    /\ pc = "affinity" => cpu.cpu_set = None /\ ~Refused
    /\ Refused => cpu.quota = None /\ cpu.cpu_set = None /\ cpu.unreadable # cpu.unconvertible

\* The room is the most of all moments of the call, and as long as the limits
\* stand, what a call has of them never comes to more.
RoomInv ==
    /\ pc # "idle" => RoomOf(job, charge) <= room
    /\ Stood({"memory", "process"}) =>
         /\ pc \in {"charge", "commit"} => job.memory = memory.limit /\ ~PerProcess(job)
         /\ pc = "commit" /\ memory.used # None => memory.limit - memory.used <= room
         /\ pc = "judge_memory" /\ memory.used # None =>
              memory.limit - memory.used <= room \/ memory.available <= room

\* The quota and the set a job comes to, once they can be told.
QuotaOf(j) == IF RateCap(j.control) = None THEN None ELSE <<RateCap(j.control) * Cores, Scale>>
SetOf(j) == IF j.affinity = None THEN None ELSE <<Cardinality(Processors(j.affinity)), 1>>

\* A limit that stood in one and the same job is kept from the query that reads
\* it on, and a query that fails all call long is seen to fail.
MemoryKept ==
    pc \in Judged =>
      /\ \A field \in {"memory", "process"} : field \notin touched /\ job[field] # None =>
           memory.unreadable \/ (memory.limit # None /\ memory.limit <= job[field])
      /\ "limits" \in hidden => memory.unreadable
QuotaKept ==
    "control" \notin touched =>
      /\ pc = "size" => share = RateCap(job.control)
      /\ pc \in {"affinity", "judge_cpu"} => Refused \/ cpu.quota = QuotaOf(job)
SetKept ==
    "affinity" \notin touched =>
      /\ pc \in {"rate", "size", "affinity"} => flagged = (job.affinity # None)
      /\ pc = "affinity" => flagged
      /\ pc = "judge_cpu" => Refused \/ cpu.cpu_set = SetOf(job)
HiddenKept ==
    /\ pc \in {"rate", "size", "affinity", "judge_cpu"} /\ "limits" \in hidden => Refused
    /\ pc \in {"size", "affinity", "judge_cpu"} /\ "rate" \in hidden => Refused
    /\ pc = "judge_cpu" /\ "affinity" \in hidden /\ "affinity" \notin touched /\ job.affinity # None => Refused
KeptInv == job # None /\ "job" \notin touched => MemoryKept /\ QuotaKept /\ SetKept /\ HiddenKept

\* What the queries come to when nothing moves between them.
UsedNow == IF Answers("violation") THEN charge ELSE None
CommitNow == IF "commit" \in mute THEN None ELSE AvailableCommit
MemoryNow ==
    IF ~Answers("limits") THEN [NoMemory EXCEPT !.unreadable = (job # None)]
    ELSE IF PerProcess(job) THEN [NoMemory EXCEPT !.limit = job.process]
    ELSE IF job.memory = None THEN NoMemory
    ELSE Paired([NoMemory EXCEPT !.limit = job.memory, !.used = UsedNow], CommitNow)
UnsizedNow == RateCap(job.control) # None /\ CountCores = None
SilentNow == \/ {"limits", "rate"} \cap mute # {}
             \/ ~UnsizedNow /\ job.affinity # None /\ ("affinity" \in mute \/ AffinityCores = 0)
QuietInv ==
    pc # "idle" /\ touched = {} =>
      /\ hidden = mute
      /\ pc \in {"charge", "commit", "rate", "size", "affinity"} => Answers("limits")
      /\ pc = "commit" => memory.used = UsedNow
      /\ pc = "judge_memory" => memory = MemoryNow
      /\ pc \in CpuSteps => machine_cpus = CountCores
      /\ pc \in {"size", "affinity"} => Answers("rate")
      /\ pc = "affinity" => ~UnsizedNow
      /\ pc = "judge_cpu" => /\ job = None => cpu = NoCpu
                             /\ job # None => /\ cpu.unreadable <=> SilentNow
                                              /\ cpu.unconvertible <=> ~SilentNow /\ UnsizedNow

IInv == TypeOK /\ WalkInv /\ RoomInv /\ KeptInv /\ QuietInv

----------------------------------------------------------------------------
(* What the calls promise.                                                 *)

ReturnsMemory == pc = "judge_memory" /\ pc' = "idle"
ReturnsCpu == pc = "judge_cpu" /\ pc' = "idle"

\* A budget never names more room than the job had at some moment of the call,
\* under its own limit and the one of each process, whichever of the two figures
\* stood in for the other ("pairing it with this one would hand out room the
\* kernel refuses"), unless a limit was set or the process assigned meanwhile.
RoomNeverOverpromised ==
    [][ReturnsMemory /\ reply'.budget # None /\ Stood({"memory", "process"})
         => reply'.budget.available <= room]_vars

\* The limit, the usage and the room of a budget are three queries at three
\* moments: what is reported of them never comes to more than the limit, and the
\* limit is one that binds.
BudgetCoherent ==
    [][ReturnsMemory /\ reply'.budget # None =>
         /\ reply'.budget.used + reply'.budget.available <= reply'.budget.limit
         /\ host.ceiling # None /\ reply'.budget.limit < host.ceiling]_vars

\* What the job grants of the CPU, in the terms of the kernel.
RateOf(c) == CASE {"enable", "range"} \subseteq c.flags -> c.high
               [] {"enable", "hard"} \subseteq c.flags /\ "range" \notin c.flags -> c.low
               [] OTHER -> None
Granted(field) == IF field = "affinity" THEN <<Cardinality(Processors(job.affinity)), 1>>
                  ELSE <<RateOf(job.control) * Cores, Scale>>
Granting == (IF job.affinity = None THEN {} ELSE {"affinity"})
              \cup (IF RateOf(job.control) = None THEN {} ELSE {"control"})
WholeMachine(x) == x[1] >= Cores * x[2]

CpuRefused == {"CPU_LIMIT_UNREADABLE", "MACHINE_CPU_COUNT_UNKNOWN"}

\* A limit of the immediate job that stood all call long is never exceeded by
\* the answer, whatever happened to the others: a call that gives none says why,
\* or the limit covers the machine.
NeverLooser ==
    [][/\ ReturnsMemory /\ job # None =>
            \A field \in {"memory", "process"} : job[field] # None /\ Stood({field}) =>
              \/ reply'.budget # None /\ reply'.budget.limit <= job[field]
              \/ /\ reply'.budget = None /\ reply'.notices # {}
                 /\ "MEMORY_LIMIT_COVERS_MACHINE" \in reply'.notices => job[field] >= host.ceiling
       /\ ReturnsCpu /\ job # None =>
            \A field \in Granting : Stood({field}) =>
              \/ reply'.cores # None /\ ~Less(Granted(field), reply'.cores)
              \/ WholeMachine(Granted(field))
              \/ reply'.notices \cap CpuRefused # {}]_vars

\* Queries without which the answer may be looser than what applies: while one
\* fails for a whole call in one and the same job, that call reports no limit.
UnreadableReportsNothing ==
    [][/\ ReturnsMemory /\ job # None /\ Stood({}) /\ "limits" \in hidden => reply'.budget = None
       /\ /\ ReturnsCpu /\ job # None /\ Stood({"affinity"})
          /\ \/ {"limits", "rate"} \cap hidden # {}
             \/ "affinity" \in hidden /\ job.affinity # None
          => reply'.cores = None]_vars

\* A call during which nothing moved answers with exactly what the job says.
ExactMemory(r) ==
    LET limits == {job.memory, job.process} \ {None}
        binds == job # None /\ "limits" \notin mute /\ limits # {}
        covers == \A l \in limits : l >= host.ceiling
        used == AtMost(charge, job.memory)
    IN  CASE job # None /\ "limits" \in mute -> r.notices = {"MEMORY_LIMIT_UNREADABLE"} /\ r.budget = None
          [] ~binds /\ ~(job # None /\ "limits" \in mute) -> r.notices = {} /\ r.budget = None
          [] binds /\ host.ceiling = None -> r.notices = {"MACHINE_MEMORY_UNKNOWN"} /\ r.budget = None
          [] OTHER ->
               IF covers THEN r.notices = {"MEMORY_LIMIT_COVERS_MACHINE"} /\ r.budget = None
               ELSE IF job.memory = None \/ \E l \in limits : l < job.memory
                    THEN r.notices = {"MEMORY_USAGE_UNAVAILABLE"} /\ r.budget = None
               ELSE IF {"violation", "commit"} \subseteq mute
                    THEN r.notices = {"MEMORY_USAGE_UNREADABLE"} /\ r.budget = None
               ELSE r.notices = {} /\ r.budget = [limit |-> job.memory, used |-> used,
                                                  available |-> job.memory - used]

\* The notice of a restriction that leaves the machine whole.
Covering(field) == IF field = "control" THEN "CPU_QUOTA_COVERS_MACHINE" ELSE "CPU_SET_COVERS_MACHINE"

ExactCpu(r) ==
    LET granted == {Granted(field) : field \in Granting}
        binding == {x \in granted : CountCores = None \/ ~WholeMachine(x)}
        refused == CASE {"limits", "rate"} \cap mute # {} -> {"CPU_LIMIT_UNREADABLE"}
                     [] OTHER ->
                          IF "control" \in Granting /\ CountCores = None THEN {"MACHINE_CPU_COUNT_UNKNOWN"}
                          ELSE IF "affinity" \in Granting /\ ("affinity" \in mute \/ <<0, 1>> \in granted)
                          THEN {"CPU_LIMIT_UNREADABLE"} ELSE {}
    IN  IF job = None THEN r.notices = {} /\ r.cores = None
        ELSE IF refused # {} THEN r.notices = refused /\ r.cores = None
        ELSE /\ binding = {} <=> r.cores = None
             /\ binding # {} => r.cores \in binding /\ \A x \in binding : ~Less(x, r.cores)
             /\ \A field \in {"control", "affinity"} :
                  Covering(field) \in r.notices <=> field \in Granting /\ Granted(field) \notin binding

QuietExact == [][touched = {} => /\ ReturnsMemory => ExactMemory(reply')
                                 /\ ReturnsCpu => ExactCpu(reply')]_vars
=============================================================================
