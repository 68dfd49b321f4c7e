------------------------------ MODULE Reports -------------------------------
(***************************************************************************)
(* The calls of the sensor as clients of the discovery cache.  One reading *)
(* asks locate_controllers() several times over, for the limit, for the    *)
(* level its time is counted at, for the counter and for the reason there  *)
(* is none, and describe() asks for all of it.  Meanwhile other threads    *)
(* discover and clear, and the process is moved.                           *)
(*                                                                         *)
(* The calls of one thread are followed.  A chain is the group a discovery *)
(* found and the level above all groups; that one is mounted throughout.   *)
(* The limits and the time of a process may be read through two mounts,    *)
(* and the one of the time may show a level above the other's mount point. *)
(***************************************************************************)
EXTENDS DiscoveryCache, Sequences

CONSTANTS
    Reporter,  \* the thread whose calls are followed
    Top,       \* the level above all groups, the mount point of the limits
    Outer,     \* the level above Top, where the mount of the time shows one
    Settings   \* what is called and what is limited, see Setting

Levels == Groups \cup {Top}
Times == Levels \cup {Outer}

ASSUME ReporterAssumption == Reporter \in Threads
ASSUME TopAssumption == /\ Top \notin Groups \cup {None} /\ Outer \notin Groups \cup {Top, None}
                        /\ AncestorCarries

Calls == {"budget", "limit", "usage", "rate", "snapshot", "describe"}

\* What stays fixed: whether the process may fork, the calls made, the levels that
\* hold a memory limit and a CPU quota, whether the set of cores is narrower than
\* the machine, and whether the mount of the limits shows only the subtree of Top
\* while that of the time shows the level above it, too.
Setting == [forks : BOOLEAN, calls : SUBSET Calls, limited : SUBSET Levels, pinned : BOOLEAN,
            split : BOOLEAN]
ASSUME CallAssumption == None \notin Calls
ASSUME SettingAssumption == Settings \subseteq Setting

Kinds == {"quota", "set"}
NoLevels == [level |-> None, usage_level |-> None]

VARIABLES
    setting,       \* the setting
    call,          \* the call the reporter is in, or None
    todo,          \* what its next lookups are for
    restriction,   \* restriction[kind]: where it was read and where its time is counted
    report,        \* what it answers with so far
    since,         \* history: how often its process had cleared when it began
    asked          \* history: the same of its latest lookup

reporting == <<call, todo, restriction, report, since, asked>>
allVars == <<vars, setting, reporting>>

Own == Of[Reporter]

\* The levels of the chain found for a group, those that are still there, and
\* those among which its time is counted.
Chain(group) == IF group = None THEN {} ELSE {group, Top}
Standing(group) == {l \in Chain(group) : l = Top \/ l \in alive}
Counted(group) == Standing(group) \cup (IF setting.split /\ group # None THEN {Outer} ELSE {})
Closest(group) == IF group = None \/ group \in alive THEN group ELSE Top

\* mechanism and unavailable: whether sources() names one, and whether a notice
\* says that there is none.  The others are levels: of the memory limit, of the CPU
\* limit, of the time that belongs to it, and of the counter read.
Blank == [mechanism |-> FALSE, unavailable |-> FALSE, memory_limit_level |-> None,
          cpu_limit_level |-> None, cpu_rate_level |-> None, counter_level |-> None]

----------------------------------------------------------------------------
(* What one lookup is for, given the group it answers with.                *)

\* The lookups of each call, and where it judges, so far as nothing is limited.
Plan == [budget |-> <<"memory">>,
         limit |-> <<"quota", "set", "judge">>,
         usage |-> <<"usage">>,
         rate |-> <<"quota", "set", "judge", "counter">>,
         snapshot |-> <<"memory", "quota", "set", "judge", "usage">>,
         describe |-> <<"sources", "memory", "quota", "set", "judge", "usage", "notices">>]

\* What was found calls for more lookups, before the rest of the plan.
Then(more) == todo' = more \o Tail(todo)

ReadSources(group) ==
    /\ report' = [report EXCEPT !.mechanism = (group # None)]
    /\ Then(<<>>)
    /\ UNCHANGED restriction

\* read_memory: the tightest of the limits the chain holds.
ReadMemory(group) ==
    LET limits == Standing(group) \cap setting.limited IN
    /\ \/ /\ limits = {}
          /\ Then(<<"why">>)
          /\ UNCHANGED report
       \/ /\ \E l \in limits : report' = [report EXCEPT !.memory_limit_level = l]
          /\ Then(<<>>)
    /\ UNCHANGED restriction

\* _memory_rejection and _no_cpu_mechanism: no limit, or no mechanism.
Explain(group) ==
    /\ report' = [report EXCEPT !.unavailable = @ \/ group = None]
    /\ Then(<<>>)
    /\ UNCHANGED restriction

\* One of these restrictions; the next lookup is for the level its time is counted at.
Find(kind, levels, scope) ==
    /\ \/ /\ levels = {}
          /\ Then(<<>>)
          /\ UNCHANGED restriction
       \/ /\ \E l \in levels : restriction' = [restriction EXCEPT ![kind] = [level |-> l, usage_level |-> None]]
          /\ Then(<<scope>>)
    /\ UNCHANGED report

\* read_cpu_quota: the tightest along the chain.  read_cpu_set_size: the set of
\* the closest level.
ReadQuota(group) == Find("quota", Standing(group) \cap setting.limited, "quota scope")
ReadSet(group) == Find("set", {Closest(group)} \ {None}, "set scope")

\* The directory with the same path below the other mount point: where that one is
\* Outer, the path of the mount point of the limits is its own, and a group's is
\* that of a directory beside Top, which is no level of this process.
Counterpart(level) == IF ~setting.split THEN level ELSE IF level = Top THEN Outer ELSE None

\* Mutants of UsageLevel: the level any counter is read at, and a directory that is
\* there, whether this discovery found it or not.
UsageLevelClosest(level, group) == Closest(group)
UsageLevelThere(level, group) ==
    IF group # None /\ Counterpart(level) \in alive \cup {Top, Outer} THEN Counterpart(level) ELSE None

\* _cpu_usage_level: the counterpart, where this discovery has it among its levels.
UsageLevel(level, group) == IF Counterpart(level) \in Counted(group) THEN Counterpart(level) ELSE None

Pair(kind, group) ==
    /\ restriction' = [restriction EXCEPT ![kind].usage_level = UsageLevel(restriction[kind].level, group)]
    /\ Then(<<>>)
    /\ UNCHANGED report

\* Mutant of CounterLevel: any level whose file is there is read.
CounterLevelAny(level, group) == IF level \in alive \cup {Top, Outer} THEN level ELSE None

\* read_cpu_usage(level): "a level outside that chain is refused".
CounterLevel(level, group) == IF level \in Counted(group) THEN level ELSE None

Count(level) ==
    /\ report' = [report EXCEPT !.counter_level = level]
    /\ Then(<<>>)
    /\ UNCHANGED restriction

ReadNotices == Then(<<>>) /\ UNCHANGED <<report, restriction>>

Use(purpose, group) ==
    \/ purpose = "sources" /\ ReadSources(group)
    \/ purpose = "memory" /\ ReadMemory(group)
    \/ purpose \in {"why", "cpu why"} /\ Explain(group)
    \/ purpose = "quota" /\ ReadQuota(group)
    \/ purpose = "quota scope" /\ Pair("quota", group)
    \/ purpose = "set" /\ ReadSet(group)
    \/ purpose = "set scope" /\ Pair("set", group)
    \/ purpose = "usage" /\ Count(Closest(group))
    \/ purpose = "counter" /\ Count(CounterLevel(report.cpu_rate_level, group))
    \/ purpose = "notices" /\ ReadNotices

----------------------------------------------------------------------------
(* The calls.                                                              *)

Begin(kind) ==
    /\ call = None
    /\ pc[Reporter] = "idle"
    /\ Own \in born
    /\ call' = kind
    /\ todo' = Plan[kind]
    /\ since' = clears[Own]
    /\ UNCHANGED <<vars, setting, restriction, report, asked>>

Asks == call # None /\ todo # <<>> /\ Head(todo) # "judge"

\* Each lookup is one call of locate_controllers().
Lookup ==
    /\ Asks
    /\ Discover(Reporter)
    /\ UNCHANGED <<setting, reporting>>

Answered ==
    /\ Asks
    /\ Answer(Reporter)
    /\ Use(Head(todo), entry[Reporter].group)
    /\ asked' = began[Reporter]
    /\ UNCHANGED <<setting, call, since>>

\* _evaluate_cpu_limit: a quota below the machine and a set narrower than it are
\* limits, the tighter one wins.  _read_cpu stops where it has no level to count.
Judge ==
    LET found == {kind \in Kinds : restriction[kind].level # None}
        candidates == {kind \in found : kind = "quota" \/ setting.pinned}
        rest == Tail(todo)
        more == IF found = {} THEN <<"cpu why">> ELSE <<>>
    IN  /\ call # None
        /\ todo # <<>>
        /\ Head(todo) = "judge"
        /\ \/ /\ candidates = {}
              /\ todo' = more \o (IF call = "rate" THEN <<>> ELSE rest)
              /\ UNCHANGED report
           \/ \E kind \in candidates :
                LET tightest == restriction[kind] IN
                /\ report' = [report EXCEPT !.cpu_limit_level = tightest.level,
                                            !.cpu_rate_level = tightest.usage_level]
                /\ todo' = IF call = "rate" /\ tightest.usage_level = None THEN <<>> ELSE rest
        /\ UNCHANGED <<vars, setting, call, restriction, since, asked>>

Return ==
    /\ call # None
    /\ todo = <<>>
    /\ call' = None
    /\ restriction' = [kind \in Kinds |-> NoLevels]
    /\ report' = Blank
    /\ since' = 0
    /\ asked' = 0
    /\ UNCHANGED <<vars, setting, todo>>

\* The system, the other threads, and a reporter that is between two calls.
Around ==
    /\ \/ \E p \in Processes, g \in Groups : Move(p, g)
       \/ \E g \in Groups : Remove(g)
       \/ setting.forks /\ \E p, c \in Processes : Fork(p, c)
       \/ \E t \in Threads \ {Reporter} : Discover(t) \/ Answer(t) \/ ClearCache(t)
       \/ call = None /\ ClearCache(Reporter)
    /\ UNCHANGED <<setting, reporting>>

ReportInit ==
    /\ Init
    /\ setting \in Settings
    /\ call = None
    /\ todo = <<>>
    /\ restriction = [kind \in Kinds |-> NoLevels]
    /\ report = Blank
    /\ since = 0
    /\ asked = 0

ReportNext ==
    \/ Around
    \/ \E kind \in setting.calls : Begin(kind)
    \/ Lookup \/ Answered \/ Judge \/ Return

ReportSpec == ReportInit /\ [][ReportNext]_allVars

----------------------------------------------------------------------------
(* Properties.                                                             *)

Returning == call # None /\ todo = <<>>

MemoryCalls == {"budget", "snapshot", "describe"}
CpuCalls == {"limit", "rate", "snapshot", "describe"}
UsageCalls == {"usage", "snapshot", "describe"}

\* The process was not moved since a clear that met no discovery, and the call
\* began after that clear.
Quiet == calm[Own] /\ since = clears[Own]

\* All lookups of a quiet call agree, whatever other threads discover meanwhile:
\* the report names a limit exactly where one holds, at a level of the process,
\* with the time of its counterpart beside it; it finds a mechanism and does not
\* say that there is none.  So "a limit of None next to no notice about it" means that
\* nothing limited this process.
QuietReportExact ==
    Returning /\ Quiet =>
      LET limits == Chain(home[Own]) \cap setting.limited
          memory == report.memory_limit_level
          cpu == report.cpu_limit_level
      IN  /\ call \in MemoryCalls =>
               IF limits = {} THEN memory = None ELSE memory \in limits
          /\ call \in CpuCalls =>
               /\ cpu = None <=> limits = {} /\ ~setting.pinned
               /\ cpu \in limits \cup {home[Own], None}
               /\ report.cpu_rate_level = Counterpart(cpu)
          /\ call \in UsageCalls => report.counter_level = home[Own]
          /\ call = "rate" => report.counter_level = report.cpu_rate_level
          /\ call = "describe" => report.mechanism
          /\ ~report.unavailable

\* A step in which a restriction is given the level its time is counted at.
Paired(kind) == restriction'[kind].usage_level \notin {restriction[kind].usage_level, None}

\* "A group of the same name there belongs to somebody else": a lookup that asks
\* after a clear that met no discovery pairs a restriction only if it is one of a
\* level of the process, with time that is counted at one.  A restriction read
\* before the process was moved, in the group left behind, is paired with none.
PairsOwnChain ==
    [][\A kind \in Kinds :
         Paired(kind) /\ calm[Own] /\ asked' = clears[Own]
           => /\ restriction'[kind].level \in Chain(home[Own])
              /\ restriction'[kind].usage_level \in Chain(home[Own]) \cup {Outer}]_allVars

\* "A level outside the located chain belongs to somebody else": a reading that
\* took its limit before the process was moved, and asks for the counter after a
\* clear that met no discovery, gets none of the group left behind.
CounterOfOwnChain ==
    Returning /\ call = "rate" /\ calm[Own] /\ asked = clears[Own]
      => report.counter_level \in Chain(home[Own]) \cup {Outer, None}

----------------------------------------------------------------------------
(* The inductive invariant ReportsProofs rests on, beside that of the      *)
(* cache.                                                                  *)

Purposes == {"sources", "memory", "why", "quota", "quota scope", "set", "set scope", "judge",
             "cpu why", "usage", "counter", "notices"}

\* The types of the variables.
ReportTypeOK ==
    /\ setting \in Settings
    /\ call \in Calls \cup {None}
    /\ todo \in Seq(Purposes)
    /\ restriction \in [Kinds -> [level : Levels \cup {None}, usage_level : Times \cup {None}]]
    /\ report \in [mechanism : BOOLEAN, unavailable : BOOLEAN,
                   memory_limit_level : Levels \cup {None}, cpu_limit_level : Levels \cup {None},
                   cpu_rate_level : Times \cup {None}, counter_level : Times \cup {None}]
    /\ asked \in Nat /\ asked <= clears[Own]

\* Between two calls nothing is left of the last one; only a process that runs calls.
IdleInv == /\ call = None => todo = <<>> /\ report = Blank /\ \A kind \in Kinds : restriction[kind] = NoLevels
           /\ call # None => Own \in born

\* The lookup for the counter is the last one of a rate, and no other one reads a
\* counter.
RatePlan(s) == \A i \in DOMAIN s : s[i] # "usage" /\ (s[i] = "counter" => i = Len(s))
PlanInv == call = "rate" => RatePlan(todo) /\ (report.counter_level # None => todo = <<>>)

\* A level is paired with its counterpart or with none.
PairInv ==
    /\ \A kind \in Kinds : restriction[kind].usage_level \in {Counterpart(restriction[kind].level), None}
    /\ report.cpu_rate_level \in {Counterpart(report.cpu_limit_level), None}
    /\ call = "rate" => report.counter_level \in {report.cpu_rate_level, None}

ScopeInv == ReportTypeOK /\ IdleInv /\ PlanInv /\ PairInv /\ CounterOfOwnChain

\* The lookups still to come are in the order of the plans, and the ones that
\* something found calls for come at once.
Followups == {"why", "quota scope", "set scope", "cpu why"}
Place(purpose) ==
    CASE purpose = "sources" -> 1     [] purpose = "memory" -> 2      [] purpose = "why" -> 3
      [] purpose = "quota" -> 4       [] purpose = "quota scope" -> 5 [] purpose = "set" -> 6
      [] purpose = "set scope" -> 7   [] purpose = "judge" -> 8       [] purpose = "cpu why" -> 9
      [] purpose = "notices" -> 11    [] OTHER -> 10
Ordered(s) == \A i \in DOMAIN s : /\ i > 1 => s[i] \notin Followups
                                  /\ \A j \in 1..(i - 1) : Place(s[j]) < Place(s[i])

Ahead == {todo[i] : i \in DOMAIN todo}
OrderInv == Ordered(todo) /\ ("counter" \in Ahead => call = "rate")

\* No lookup of a call began before the call.
SinceInv == /\ since \in Nat
            /\ call # None => /\ since <= clears[Own]
                              /\ pc[Reporter] # "idle" => since <= began[Reporter]

\* What a quiet call knows after the lookups that are not ahead of it any more.
Limiting == Chain(home[Own]) \cap setting.limited

SourceKnown == /\ ~report.unavailable
               /\ call = "describe" => "sources" \in Ahead \/ report.mechanism

MemoryKnown ==
    call \in MemoryCalls =>
      IF "memory" \in Ahead \/ Limiting = {} THEN report.memory_limit_level = None
      ELSE report.memory_limit_level \in Limiting

QuotaKnown ==
    LET quota == restriction["quota"] IN
    call \in CpuCalls =>
      IF "quota" \in Ahead \/ Limiting = {} THEN quota = NoLevels
      ELSE quota.level \in Limiting /\ ("quota scope" \in Ahead \/ quota.usage_level = Counterpart(quota.level))

SetKnown ==
    LET set == restriction["set"] IN
    call \in CpuCalls =>
      \/ "set" \in Ahead
      \/ set.level = home[Own] /\ ("set scope" \in Ahead \/ set.usage_level = Counterpart(home[Own]))

CpuKnown ==
    LET cpu == report.cpu_limit_level IN
    call \in CpuCalls =>
      /\ report.cpu_rate_level = Counterpart(cpu)
      /\ IF "judge" \in Ahead THEN cpu = None
         ELSE /\ cpu = None <=> Limiting = {} /\ ~setting.pinned
              /\ cpu \in Limiting \cup {home[Own], None}

CounterKnown ==
    /\ call = "rate" =>
         \/ "counter" \in Ahead
         \/ "judge" \notin Ahead /\ report.counter_level = report.cpu_rate_level
    /\ call \in UsageCalls => "usage" \in Ahead \/ report.counter_level = home[Own]

KnownInv ==
    call # None /\ Quiet =>
      SourceKnown /\ MemoryKnown /\ QuotaKnown /\ SetKnown /\ CpuKnown /\ CounterKnown

ReportInv == ScopeInv /\ OrderInv /\ SinceInv /\ KnownInv
=============================================================================
