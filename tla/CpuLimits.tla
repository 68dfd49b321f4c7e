----------------------------- MODULE CpuLimits -----------------------------
(***************************************************************************)
(* get_cpu_limit(): the walk over the CPU quotas of the chain, the closest *)
(* CPU set, the level that counts the time of each, and the judgement of   *)
(* _evaluate_cpu_limit, against files that are rewritten, appear, vanish   *)
(* or fail, and directories that are closed to this process, between any   *)
(* two reads.                                                              *)
(*                                                                         *)
(* A group is the path of names below the root of its hierarchy, and a     *)
(* directory of a located chain stands for the group it shows.             *)
(***************************************************************************)
EXTENDS Integers, Sequences, SequencesExt

CONSTANTS
    Layouts,     \* what locate_controllers() may have found, see LayoutAssumption
    Cases,       \* where to begin: [layout, file, barred, changes]
    Contents,    \* Contents[kind]: what a file of that kind may be rewritten to
    Mutable,     \* the files that may be rewritten, appear or vanish
    Flaky,       \* the files that may stop answering
    Barrable,    \* the directories that may be closed to this process, or opened
    Machines,    \* what machine_cpu_count() may say: numbers, or None
    Unlimited,   \* "max"
    Inherited,   \* an empty file
    None

\* A located Controller: its interface, the group its mount point shows
\* (mount_root) and the group of the process in that hierarchy.
Controller(c) ==
    /\ c.v2 \in BOOLEAN
    /\ c.root \in Seq(STRING) /\ c.own \in Seq(STRING)
    /\ IsPrefix(c.root, c.own)

ASSUME LayoutAssumption ==
    \A lay \in Layouts :
      /\ DOMAIN lay = {"interface", "cpu_quota", "cpu_set", "cpu_usage"}
      /\ \A metric \in {"cpu_quota", "cpu_set", "cpu_usage"} :
           lay[metric] # None => Controller(lay[metric]) /\ lay.interface # None
ASSUME NumberAssumption == /\ Machines \subseteq (Nat \ {0}) \cup {None}
                           /\ {Unlimited, Inherited, None} \cap Int = {}
                           /\ Unlimited # None /\ Inherited # None /\ Unlimited # Inherited

\* The kinds of file.  Under v2 the quota and its period are the two fields of
\* cpu.max, and the effective set is the only one.
Kinds == {"quota", "period", "effective", "set", "usage"}

\* The groups the located chains name.
Chains(lay) == {lay[m] : m \in {"cpu_quota", "cpu_set", "cpu_usage"}} \ {None}
Groups == UNION {UNION {{SubSeq(c.own, 1, n) : n \in 0..Len(c.own)} : c \in Chains(lay)} :
                   lay \in Layouts}

\* What a file of a kind may hold.  A list of CPUs names at least one, where it
\* is not empty; a quota and a period may be any number.
Holds(kind) == IF kind \in {"effective", "set"} THEN (Nat \ {0}) \cup {Inherited, None}
                                               ELSE Int \cup {Unlimited, None}
FilesType == {f \in [Kinds \X Groups -> Int \cup {Unlimited, Inherited, None}] :
                \A k \in Kinds, g \in Groups : f[<<k, g>>] \in Holds(k)}

\* The metric whose chain a kind of file is looked for along.
MetricOf == [quota |-> "cpu_quota", period |-> "cpu_quota", effective |-> "cpu_set",
             set |-> "cpu_set", usage |-> "cpu_usage"]

\* The directories of each hierarchy: cgroup v2 has one for all the metrics.
Directories == {"v2", "cpu_quota", "cpu_set", "cpu_usage"} \X Groups

ASSUME FileAssumption ==
    /\ \A case \in Cases : /\ case.layout \in Layouts /\ case.changes \in Nat
                          /\ case.file \in FilesType /\ case.barred \subseteq Directories
    /\ Barrable \subseteq Directories
    /\ Mutable \cup Flaky \subseteq Kinds \X Groups
    /\ \A f \in Mutable : Contents[f[1]] \subseteq Holds(f[1])

\* What a reading is made of; None is none of it.
Cores == Nat \X (Nat \ {0})
Raws == [cores : Cores, limit_level : Groups, usage_level : Groups \cup {None}]
ASSUME NoneAssumption == None \notin Groups /\ None \notin Cores /\ None \notin Raws

VARIABLES
    layout,      \* the located controllers
    machine,     \* the cores of the machine, or None
    file,        \* file[<<kind, group>>]: what it holds, None where there is none
    mute,        \* the files that say nothing usable
    barred,      \* the directories this process may not look into
    changes,     \* bound: the changes of a file still to come
    pc,          \* the step get_cpu_limit() is at
    at,          \* the group the walk is at
    doubt,       \* whether the file the walk is at gave nothing to a first look
    partial,     \* the v1 quota read, while its period is not
    quotas,      \* the quotas found, [cores, group]
    quota,       \* the RawCpuQuota, or None
    cpu_set,     \* the RawCpuSet, or None
    unreadable,  \* whether an _UnreadableFileError was raised
    reply,       \* what the call returned, until the next one begins
    touched,     \* history: the files changed since the call began
    hidden       \* history: files the answer rests on, unusable all call long

files == <<file, mute, barred, changes>>
located == <<layout, machine>>
raw == <<doubt, partial, quotas, quota, cpu_set, unreadable>>
history == <<touched, hidden>>
vars == <<located, files, pc, at, raw, reply, history>>

----------------------------------------------------------------------------
(* Chains.                                                                 *)

\* Controller.dirs, as the groups from the own one up to the mount point.
Dirs(c) == {SubSeq(c.own, 1, n) : n \in Len(c.root)..Len(c.own)}
Top(c, group) == Len(group) = Len(c.root)

\* The directories the lookup of a file passes, from the mount point down.
Path(f) ==
    LET c == layout[MetricOf[f[1]]]
    IN  IF c = None THEN {}
        ELSE {IF c.v2 THEN "v2" ELSE MetricOf[f[1]]} \X {g \in Dirs(c) : IsPrefix(g, f[2])}

\* The lookup of the file is refused, so neither open() nor exists() finds it.
Denied(f) == Path(f) \cap barred # {}

\* What a look finds of each file: None where there is none, and where there is
\* one this process may not look up.
shown == [f \in Kinds \X Groups |-> IF Denied(f) THEN None ELSE file[f]]

\* Whether a look finds the file.  _exists answers False on a denied lookup.
There(kind, group) == shown[<<kind, group>>] # None

\* The file is there and cannot be read, or holds what does not parse.
Fails(kind, group) == There(kind, group) /\ <<kind, group>> \in mute

\* Mutant of Counterpart: the textual translation, not held against the chain.
TextualCounterpart(c, group, usage) ==
    usage.root \o SubSeq(group, Len(c.root) + 1, Len(group))

\* The directory under the accounting mount with the same path below the mount
\* point, where it is a level of this process.
Counterpart(c, group, usage) ==
    LET translated == usage.root \o SubSeq(group, Len(c.root) + 1, Len(group))
    IN  IF translated \in Dirs(usage) THEN translated ELSE None

\* _cpu_usage_level: where the time of a level is counted, or None.
UsageLevel(c, group) ==
    IF layout.cpu_usage = None THEN None
    ELSE LET level == Counterpart(c, group, layout.cpu_usage)
         IN  IF level # None /\ There("usage", level) THEN level ELSE None

\* Cores are fractions, q of a period p.
Less(x, y) == x[1] * y[2] < y[1] * x[2]
Covers(x) == machine # None /\ x[1] >= machine * x[2]

----------------------------------------------------------------------------
(* The files, as the kernel and an operator leave them.                    *)

\* The set the process is held to: the closest level that has the file.
Closer(c, group) == {g \in Dirs(c) : Len(g) > Len(group)}
Closest(c, group) == There("set", group) /\ \A g \in Closer(c, group) : ~There("set", g)

\* The files an answer rests on that give nothing now.
Needed ==
    {f \in mute : /\ There(f[1], f[2])
                  /\ \/ /\ layout.cpu_quota # None
                        /\ f[2] \in Dirs(layout.cpu_quota)
                        /\ f[1] \in (IF layout.cpu_quota.v2 THEN {"quota"} ELSE {"quota", "period"})
                     \/ /\ layout.cpu_set # None
                        /\ f[2] \in Dirs(layout.cpu_set)
                        /\ Closest(layout.cpu_set, f[2])
                        /\ \/ f[1] = "effective" /\ ~layout.cpu_set.v2
                           \/ /\ f[1] = "set"
                              /\ \/ layout.cpu_set.v2
                                 \/ shown[<<"effective", f[2]>>] \in {None, Inherited}
                                    /\ ~Fails("effective", f[2])}

Change(changed) ==
    /\ changes > 0
    /\ changes' = changes - 1
    /\ touched' = IF pc = "idle" THEN {} ELSE touched \cup changed
    /\ UNCHANGED <<located, pc, at, raw, reply>>
    /\ hidden' = hidden \cap Needed'

Rewrite(f, content) ==
    /\ content # file[f]
    /\ file' = [file EXCEPT ![f] = content]
    /\ UNCHANGED <<mute, barred>>
    /\ Change({f})

Flip(f) ==
    /\ mute' = IF f \in mute THEN mute \ {f} ELSE mute \cup {f}
    /\ UNCHANGED <<file, barred>>
    /\ Change({f})

\* The files whose lookup passes a directory.
Behind(d) == {f \in DOMAIN file : d \in Path(f)}

\* A directory some lookup passes is closed to this process, or opened to it again.
Bar(d) ==
    /\ Behind(d) # {}
    /\ barred' = IF d \in barred THEN barred \ {d} ELSE barred \cup {d}
    /\ UNCHANGED <<file, mute>>
    /\ Change(Behind(d))

Kernel == \/ \E f \in Mutable : \E content \in Contents[f[1]] : Rewrite(f, content)
          \/ \E f \in Flaky : Flip(f)
          \/ \E d \in Barrable : Bar(d)

----------------------------------------------------------------------------
(* read_cpu().                                                             *)

\* Where the walk over a chain starts, or what comes next where there is none.
EnterSet == IF layout.cpu_set = None THEN pc' = "judge" /\ at' = <<>>
                                     ELSE pc' = "find" /\ at' = layout.cpu_set.own
EnterQuota == IF layout.cpu_quota = None THEN EnterSet
                                         ELSE pc' = "quota" /\ at' = layout.cpu_quota.own

Pending == [limit |-> None, limit_level |-> None, usage_level |-> None, notices |-> {"pending"}]

\* _evaluate_cpu_limit asks for the readings.
Begin ==
    /\ pc = "idle"
    /\ EnterQuota
    /\ reply' = Pending
    /\ touched' = {}
    /\ hidden' = Needed
    /\ UNCHANGED <<located, files, raw>>

\* An _UnreadableFileError leaves the whole of read_cpu: no reading is kept.
Raise ==
    /\ unreadable' = TRUE
    /\ quotas' = {} /\ quota' = None /\ cpu_set' = None /\ partial' = None
    /\ doubt' = FALSE
    /\ pc' = "judge" /\ at' = <<>>

\* The comprehension of read_cpu_quota goes on to the parent, or is done.
NextQuota ==
    /\ partial' = None
    /\ doubt' = FALSE
    /\ IF ~Top(layout.cpu_quota, at) THEN pc' = "quota" /\ at' = Front(at)
       ELSE IF quotas' = {} THEN EnterSet
       ELSE pc' = "quota_usage" /\ at' = <<>>

Continues == UNCHANGED <<quota, cpu_set, unreadable>>

\* The steps that read a file, named for its kind.
Reading == {"quota", "period", "effective", "set"}

\* _read_text gives nothing, of a file a look does not find or that cannot be read.
GiveNothing ==
    /\ pc \in Reading
    /\ ~doubt
    /\ ~There(pc, at) \/ Fails(pc, at)
    /\ doubt' = TRUE
    /\ UNCHANGED <<located, files, pc, at, partial, quotas, quota, cpu_set, unreadable, reply, history>>

\* Mutant of SeenAgain: a file that gave nothing is taken for an absent one.
SeenNever == FALSE

\* The second look of _read_control_file, on a file that gave nothing: one whose
\* lookup is denied is missed again, and passes for an absent one.
SeenAgain == There(pc, at)

\* What the file is taken to hold, once it is known.
Known == IF doubt THEN ~SeenAgain ELSE There(pc, at) /\ ~Fails(pc, at)
Content == IF doubt THEN None ELSE shown[<<pc, at>>]

\* The file of the step the walk is at is there after all, or does not parse.
Reject ==
    /\ pc \in Reading
    /\ IF doubt THEN SeenAgain ELSE Fails(pc, at)
    /\ Raise
    /\ UNCHANGED <<located, files, reply, history>>

\* No level of this one's: absent, "max", or, under v1, any negative number.
SetsNone(q, p, v2) == \/ q \in {None, Unlimited}
                      \/ ~v2 /\ (p \in {None, Unlimited} \/ (q \in Int /\ q < 0))

\* Mutant of Usable: any period will do.
UsableAnyPeriod(q, p) == q \in Int /\ q > 0 /\ p \in Int

\* A quota of zero and a period of zero or less describe no bandwidth.
Usable(q, p) == q \in Int /\ q > 0 /\ p \in Int /\ p > 0

\* What a level's quota and period come to.
Take(q, p, v2) ==
    \/ /\ SetsNone(q, p, v2)
       /\ UNCHANGED quotas
       /\ NextQuota
       /\ Continues
    \/ /\ ~SetsNone(q, p, v2)
       /\ Usable(q, p)
       /\ quotas' = quotas \cup {[cores |-> <<q, p>>, group |-> at]}
       /\ NextQuota
       /\ Continues
    \/ /\ ~SetsNone(q, p, v2)
       /\ ~Usable(q, p)
       /\ Raise

\* _read_cpu_quota_v2: both from one read of cpu.max.
ReadCpuMax ==
    /\ pc = "quota"
    /\ layout.cpu_quota.v2
    /\ Known
    /\ Take(Content, shown[<<"period", at>>], TRUE)
    /\ UNCHANGED <<located, files, reply, history>>

\* _read_cpu_quota_v1: the period is read after the quota, and in any case.
ReadQuota ==
    /\ pc = "quota"
    /\ ~layout.cpu_quota.v2
    /\ Known
    /\ partial' = Content
    /\ doubt' = FALSE
    /\ pc' = "period"
    /\ UNCHANGED <<located, files, at, quotas, quota, cpu_set, unreadable, reply, history>>

ReadPeriod ==
    /\ pc = "period"
    /\ Known
    /\ Take(partial, Content, FALSE)
    /\ UNCHANGED <<located, files, reply, history>>

\* Mutant of Tightest: the quota of the closest level.
ClosestQuota == CHOOSE x \in quotas : \A y \in quotas : Len(x.group) >= Len(y.group)

\* min(quotas, key=cores): the closest of the tightest.
Prefer(x, y) == \/ Less(x.cores, y.cores)
                \/ ~Less(y.cores, x.cores) /\ Len(x.group) >= Len(y.group)
Tightest == CHOOSE x \in quotas : \A y \in quotas : Prefer(x, y)

\* The RawCpuQuota, once the level its time is counted at has been looked for.
FindQuotaUsage ==
    /\ pc = "quota_usage"
    /\ quota' = [cores |-> Tightest.cores, limit_level |-> Tightest.group,
                 usage_level |-> UsageLevel(layout.cpu_quota, Tightest.group)]
    /\ quotas' = {}
    /\ EnterSet
    /\ UNCHANGED <<located, files, doubt, partial, cpu_set, unreadable, reply, history>>

\* _first_with: up the chain to the closest level that has the set file.
FindSet ==
    /\ pc = "find"
    /\ \/ /\ There("set", at)
          /\ pc' = IF layout.cpu_set.v2 THEN "set" ELSE "effective"
          /\ UNCHANGED at
       \/ /\ ~There("set", at)
          /\ IF Top(layout.cpu_set, at) THEN pc' = "judge" /\ at' = <<>>
                                        ELSE pc' = "find" /\ at' = Front(at)
    /\ UNCHANGED <<located, files, raw, reply, history>>

\* Mutant of After: the configured set is not read.
AfterEffective(step) == "judge"

After(step) == IF step = "effective" THEN "set" ELSE "judge"

\* _read_cpu_set: the effective file first, then the configured one; an absent
\* or empty one says nothing.
ReadSet ==
    /\ pc \in {"effective", "set"}
    /\ Known
    /\ \/ /\ Content \in {None, Inherited}
          /\ pc' = After(pc)
          /\ UNCHANGED <<at, cpu_set>>
       \/ /\ Content \notin {None, Inherited}
          /\ cpu_set' = [cores |-> <<Content, 1>>, limit_level |-> at, usage_level |-> None]
          /\ pc' = "set_usage"
          /\ UNCHANGED at
    /\ doubt' = FALSE
    /\ UNCHANGED <<located, files, partial, quotas, quota, unreadable, reply, history>>

FindSetUsage ==
    /\ pc = "set_usage"
    /\ cpu_set' = [cpu_set EXCEPT !.usage_level = UsageLevel(layout.cpu_set, at)]
    /\ pc' = "judge" /\ at' = <<>>
    /\ UNCHANGED <<located, files, doubt, partial, quotas, quota, unreadable, reply, history>>

----------------------------------------------------------------------------
(* _evaluate_cpu_limit.                                                    *)

Restrictions == {r \in {quota, cpu_set} : r # None}
Candidates == {r \in Restrictions : ~Covers(r.cores)}

\* The quota stands before the set in the list, so it wins a tie.
Tighter == IF cpu_set \notin Candidates \/ (quota \in Candidates /\ ~Less(cpu_set.cores, quota.cores))
           THEN quota ELSE cpu_set

Notices ==
    {n \in {"CPU_METRICS_UNAVAILABLE", "CPU_QUOTA_COVERS_MACHINE", "CPU_SET_COVERS_MACHINE",
            "CPU_USAGE_SCOPE_MISMATCH"} :
       CASE n = "CPU_METRICS_UNAVAILABLE" -> Restrictions = {} /\ layout.interface = None
         [] n = "CPU_QUOTA_COVERS_MACHINE" -> quota \in Restrictions \ Candidates
         [] n = "CPU_SET_COVERS_MACHINE" -> cpu_set \in Restrictions \ Candidates
         [] n = "CPU_USAGE_SCOPE_MISMATCH" -> Candidates # {} /\ Tighter.usage_level = None}

Evaluation ==
    IF unreadable THEN [Pending EXCEPT !.notices = {"CPU_LIMIT_UNREADABLE"}]
    ELSE IF Candidates = {} THEN [Pending EXCEPT !.notices = Notices]
    ELSE [limit |-> Tighter.cores, limit_level |-> Tighter.limit_level,
          usage_level |-> Tighter.usage_level, notices |-> Notices]

\* The call returns; what it had read goes with it.
Judge ==
    /\ pc = "judge"
    /\ pc' = "idle"
    /\ reply' = Evaluation
    /\ quotas' = {} /\ quota' = None /\ cpu_set' = None /\ partial' = None /\ unreadable' = FALSE
    /\ touched' = {} /\ hidden' = {}
    /\ UNCHANGED <<located, files, at, doubt>>

Reader == Begin \/ GiveNothing \/ ReadCpuMax \/ ReadQuota \/ ReadPeriod \/ Reject \/ FindQuotaUsage
            \/ FindSet \/ ReadSet \/ FindSetUsage \/ Judge

----------------------------------------------------------------------------
Init ==
    /\ \E case \in Cases : /\ layout = case.layout /\ file = case.file
                         /\ barred = case.barred /\ changes = case.changes
    /\ machine \in Machines
    /\ mute = {}
    /\ pc = "idle"
    /\ at = <<>>
    /\ doubt = FALSE
    /\ partial = None
    /\ quotas = {}
    /\ quota = None
    /\ cpu_set = None
    /\ unreadable = FALSE
    /\ reply = Pending
    /\ touched = {}
    /\ hidden = {}

Next == Kernel \/ Reader

Spec == Init /\ [][Next]_vars

----------------------------------------------------------------------------
(* Properties.                                                             *)

\* The types of the variables: a restriction always has a number of cores.
TypeOK ==
    /\ layout \in Layouts /\ machine \in Machines
    /\ file \in FilesType
    /\ mute \subseteq DOMAIN file
    /\ barred \subseteq Directories
    /\ changes \in Nat
    /\ pc \in {"idle", "quota", "period", "quota_usage", "find", "effective", "set",
               "set_usage", "judge"}
    /\ at \in Groups \cup {<<>>}
    /\ doubt \in BOOLEAN
    /\ partial \in Int \cup {Unlimited, None}
    /\ quotas \subseteq [cores : Cores, group : Groups]
    /\ quota \in Raws \cup {None}
    /\ cpu_set \in Raws \cup {None}
    /\ unreadable \in BOOLEAN
    /\ touched \subseteq DOMAIN file
    /\ hidden \subseteq Needed

\* The step in which a call returns.
Returns == pc = "judge" /\ pc' = "idle"

\* Each level of the quota chain, and the closest set, as the files stand that a
\* look finds.
NowQuota(g) == <<shown[<<"quota", g>>], shown[<<"period", g>>]>>
QuotaLevels == IF layout.cpu_quota = None THEN {} ELSE Dirs(layout.cpu_quota)
SetLevels == IF layout.cpu_set = None THEN {} ELSE Dirs(layout.cpu_set)
Limiting == {g \in QuotaLevels : ~SetsNone(NowQuota(g)[1], NowQuota(g)[2], layout.cpu_quota.v2)}
NowSet(g) ==
    LET own == IF layout.cpu_set.v2 \/ shown[<<"effective", g>>] \in {None, Inherited}
               THEN shown[<<"set", g>>] ELSE shown[<<"effective", g>>]
    IN  IF own = Inherited THEN None ELSE own
Restricting == {g \in SetLevels : Closest(layout.cpu_set, g) /\ NowSet(g) # None}
Blocked == Needed # {} \/ \E g \in Limiting : ~Usable(NowQuota(g)[1], NowQuota(g)[2])

\* What did not change since the call began.
Stood(g, kinds) == touched \cap (kinds \X {g}) = {}
QuotaStood(g) == Stood(g, {"quota", "period"})
SetStood(g) == /\ Stood(g, {"set", "effective"})
               /\ \A h \in Closer(layout.cpu_set, g) : Stood(h, {"set"})

Within(r, cores) == Covers(cores) \/ (r.limit # None /\ ~Less(cores, r.limit))

----------------------------------------------------------------------------
(* The inductive invariant.                                                *)

QuotaWalk == {"quota", "period", "quota_usage"}
SetWalk == {"find", "effective", "set", "set_usage"}

\* A restriction found is a level of its chain, paired with its counterpart.
Found(r, c) ==
    /\ c # None
    /\ r.limit_level \in Dirs(c)
    /\ r.usage_level # None =>
         layout.cpu_usage # None /\ r.usage_level = Counterpart(c, r.limit_level, layout.cpu_usage)

\* Where the walk is, and what it holds there.
WalkInv ==
    /\ pc \in QuotaWalk => layout.cpu_quota # None /\ (pc # "quota_usage" => at \in Dirs(layout.cpu_quota))
    /\ pc \in SetWalk => layout.cpu_set # None /\ at \in Dirs(layout.cpu_set)
    /\ pc = "period" => ~layout.cpu_quota.v2
    /\ pc = "effective" => ~layout.cpu_set.v2
    /\ doubt => pc \in Reading
    /\ partial # None => pc = "period"
    /\ pc = "quota_usage" => quotas # {}
    /\ quotas # {} => /\ pc \in QuotaWalk
                      /\ \E x \in quotas : \A y \in quotas : Prefer(x, y)
    /\ \A x \in quotas : x.group \in Dirs(layout.cpu_quota)
    /\ quota # None => pc \in SetWalk \cup {"judge"} /\ Found(quota, layout.cpu_quota)
    /\ cpu_set # None => pc \in {"set_usage", "judge"} /\ Found(cpu_set, layout.cpu_set)
    /\ pc = "set_usage" => cpu_set # None /\ cpu_set.limit_level = at
    /\ unreadable => pc = "judge" /\ quota = None /\ cpu_set = None
    /\ pc = "idle" => touched = {} /\ hidden = {}

\* A file unusable all call long is ahead of the walk, or has ended it.
Ahead(f) ==
    \/ unreadable
    \/ /\ f[1] \in {"quota", "period"}
       /\ \/ pc = "quota" /\ Len(f[2]) <= Len(at)
          \/ pc = "period" /\ (Len(f[2]) < Len(at) \/ f = <<"period", at>>)
    \/ /\ f[1] \in {"effective", "set"}
       /\ \/ pc \in QuotaWalk
          \/ pc = "find" /\ Len(f[2]) <= Len(at)
          \/ pc \in {"effective", "set"} /\ f[2] = at /\ (pc = "set" => f[1] = "set")
HiddenInv == pc # "idle" => \A f \in hidden : Ahead(f)

\* A quota that stood is ahead of the walk, or among those found, or no less
\* than the one chosen.
QuotaKept(g) ==
    \/ unreadable
    \/ pc = "quota" /\ Len(g) <= Len(at)
    \/ pc = "period" /\ (Len(g) < Len(at) \/ (g = at /\ partial = shown[<<"quota", g>>]))
    \/ /\ Usable(NowQuota(g)[1], NowQuota(g)[2])
       /\ \/ pc \in QuotaWalk /\ [cores |-> NowQuota(g), group |-> g] \in quotas
          \/ pc \in SetWalk \cup {"judge"} /\ quota # None /\ ~Less(NowQuota(g), quota.cores)

\* A closest set that stood is ahead of the walk, or the one found.
SetKept(g) ==
    \/ unreadable
    \/ pc \in QuotaWalk
    \/ pc = "find" /\ Len(g) <= Len(at)
    \/ pc = "effective" /\ g = at
    \/ /\ pc = "set" /\ g = at
       /\ layout.cpu_set.v2 \/ shown[<<"effective", g>>] \in {None, Inherited}
    \/ pc \in {"set_usage", "judge"} /\ cpu_set # None /\ cpu_set.cores = <<NowSet(g), 1>>

StoodInv == pc # "idle" => /\ \A g \in Limiting : QuotaStood(g) => QuotaKept(g)
                           /\ \A g \in Restricting : SetStood(g) => SetKept(g)

\* While nothing changes, what the walk holds is what the files say.
QuietInv ==
    pc # "idle" /\ touched = {} =>
      /\ hidden = Needed
      /\ doubt => ~There(pc, at) \/ Fails(pc, at)
      /\ pc = "period" => partial = shown[<<"quota", at>>]
      /\ \A x \in quotas : x.group \in Limiting /\ x.cores = NowQuota(x.group)
      /\ quota # None =>
           /\ quota.limit_level \in Limiting /\ quota.cores = NowQuota(quota.limit_level)
           /\ quota.usage_level = UsageLevel(layout.cpu_quota, quota.limit_level)
      /\ pc = "find" => \A g \in Closer(layout.cpu_set, at) : ~There("set", g)
      /\ pc \in {"effective", "set"} => Closest(layout.cpu_set, at)
      /\ pc = "set" /\ ~layout.cpu_set.v2 =>
           shown[<<"effective", at>>] \in {None, Inherited} /\ ~Fails("effective", at)
      /\ cpu_set # None =>
           /\ cpu_set.limit_level \in Restricting /\ cpu_set.cores = <<NowSet(cpu_set.limit_level), 1>>
           /\ pc = "judge" => cpu_set.usage_level = UsageLevel(layout.cpu_set, cpu_set.limit_level)
      /\ unreadable => Blocked

IInv == TypeOK /\ WalkInv /\ HiddenInv /\ StoodInv /\ QuietInv

----------------------------------------------------------------------------
(* What the calls promise.                                                 *)

\* A restriction that stood while the call looked at it is never exceeded by the
\* answer, whatever happened to the other files meanwhile: a quota of any level
\* of the chain, and the set of the closest level that has one.  An answer of
\* no limit counts as exceeding it, unless it covers the machine or the call
\* said that it could not read a level.  A restriction in a file that a look does
\* not find, in a directory closed to this process, is not among them.
NeverLooser ==
    [][Returns /\ ~unreadable =>
         /\ \A g \in Limiting : QuotaStood(g) => Within(reply', NowQuota(g))
         /\ \A g \in Restricting : SetStood(g) => Within(reply', <<NowSet(g), 1>>)]_vars

\* While a file the answer rests on was found by every look and yet could not be
\* read for a whole call, that call reports no limit and says just that: what it
\* could read is dropped with it, and the closest readable level does not stand
\* in.  A file whose lookup is denied is left out by name: Needed has only files
\* that are There, and one behind a closed directory is taken for an absent one.
UnreadableReportsNothing ==
    [][Returns /\ hidden # {} =>
         reply'.limit = None /\ reply'.notices = {"CPU_LIMIT_UNREADABLE"}]_vars

\* The time a rate is measured from is counted at the group the limit binds at,
\* and that group counts this process ("its counter read against a limit found
\* here would be the time of one scope over the limit of another").
RatePairsScope ==
    [][Returns /\ reply'.usage_level # None =>
         /\ reply'.usage_level = reply'.limit_level
         /\ IsPrefix(reply'.usage_level, layout.cpu_usage.own)]_vars

\* A call during which no file changed answers with exactly what they say: the
\* least number of cores of any restriction below the machine, at a level that
\* has it, with a rate wherever that level's time is counted.
ExactReply(r) ==
    LET all == {[cores |-> NowQuota(g), group |-> g, chain |-> layout.cpu_quota] : g \in Limiting}
                 \cup {[cores |-> <<NowSet(g), 1>>, group |-> g, chain |-> layout.cpu_set] :
                          g \in Restricting}
        binding == {x \in all : ~Covers(x.cores)}
    IN  /\ Blocked <=> r.notices = {"CPU_LIMIT_UNREADABLE"}
        /\ ~Blocked =>
             /\ binding = {} <=> r.limit = None
             /\ \A x \in binding : ~Less(x.cores, r.limit)
             /\ binding # {} =>
                  /\ \E x \in binding : /\ x.cores = r.limit /\ x.group = r.limit_level
                                       /\ r.usage_level = UsageLevel(x.chain, x.group)
                  /\ "CPU_USAGE_SCOPE_MISMATCH" \in r.notices <=> r.usage_level = None
             /\ "CPU_METRICS_UNAVAILABLE" \in r.notices <=> layout.interface = None

QuietExact == [][Returns /\ touched = {} => ExactReply(reply')]_vars
=============================================================================
