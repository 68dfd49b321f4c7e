# Verification of proclimits

proclimits tells a process which memory and CPU limits it runs under, how much
of them is left and how much is used. It reads control files of cgroup v1 and v2
on Linux, asks the job object on Windows, and judges what it read in one
platform-independent layer. This directory holds TLA+ models of that code, the
TLC runs that check them on small instances, and TLAPS proofs about them for
every instance.

## The system

| part | code | state it keeps | operations |
| --- | --- | --- | --- |
| discovery | `_cgroup.py`: `locate_controllers`, `_read_hierarchies`, `_pick_unified`, `_locate_cpu_usage` | one entry of `lru_cache` per process | locate, `clear_cache`, the hook after `fork` |
| Linux memory reading | `_cgroup.py`: `read_memory`, `_read_memory_levels`, `_read_memory_usage` | none between calls | one walk over the chain of groups |
| Linux CPU reading | `_cgroup.py`: `read_cpu`, `read_cpu_quota`, `read_cpu_set_size`, `_cpu_usage_level`, `read_cpu_usage` | none | a walk over the quotas, a search for the set, two looks for a counter |
| judgement | `_sensor.py`: `_evaluate_memory`, `_evaluate_cpu_limit`, `_reconcile` | none | decide between a limit, no limit and a notice |
| sampler | `_sensor.py`: `CpuLoad` | the previous reading and a lock | `sample()`, from any thread |
| one-shot ratio, `snapshot`, `describe` | `_sensor.py` | none | several readings in one call |
| Windows job | `_windows.py` | none | several queries of one job per reading |
| CPU list parser | `_cpu_list.py` | none | count the cores of a list |
| machine facts, macOS, backend choice, types | `_cgroup.py`, `_darwin.py`, `_backend.py`, `_types.py` | none | one file or call each |

The parts call each other directly: a public function of `_sensor.py` asks the
backend for a raw reading, the backend asks the cached discovery where to read,
reads file after file, and the sensor judges the result. There is no daemon and
no message. What makes the code hard is that everything it reads moves:

- the files of one answer are read one after the other while the kernel charges
  memory, an operator rewrites limits, and groups come and go (tearing);
- some files fail, and one that cannot be read may be the one that decides
  (partial failure);
- a sampler is shared by threads, and takes its reading outside its lock
  (interleaving);
- discovery is cached while processes are moved, forked and cleared (staleness);
- the two hierarchies of cgroup v1 name levels apart (scope).

Correct means: a budget never promises room that was not there; a limit that
stood is never exceeded by an answer; what cannot be read withholds an answer
instead of loosening it; a load is measured over one scope and over time no other
load covers; what is cached belongs to the process that asks.
`PROJECT.json` lists the places where this can go wrong, line by line.

## Modules

### MemoryChain: `get_memory_budget()` on Linux

The levels of `Controller.dirs` are numbered from the own group (1) to the mount
point (`Height`). `pages[l][kind]` counts the pages charged to a level and below
it, so `memory.current` and the keys of `memory.stat` are functions of it. The
kernel's actions (`Charge`, `Release`, `Turn`, `SetLimit`, `Flip`) may happen
between any two reads.

| code | model |
| --- | --- |
| `read_memory` is called | `Begin` |
| the `for` loop of `_read_memory_levels`: one limit file | `RejectLevel` (raises), `SkipLevel` (no limit), `HoldLevel` |
| `memory.current`, then `memory.stat` in `_read_memory_usage` | `ReadCharge`, `ReadStat`, or `LoseUsage` where a file gives nothing |
| the credit for droppable cache, and its clamps | `Unflushed`, `Credit`, `MemoryUsage` |
| `min(levels, key=limit)`, `min(levels, key=distance)` | `Tightest`, `Closest` |
| `_evaluate_memory`, `_memory_rejection`, `_reconcile` | `Evaluate`, `CoversMachine`, `Reconcile`, in `Judge` |

`mute` holds the files that give nothing and the directories closed to the process.
A closed directory denies every lookup at its level and below (`Denied`): no file
there gives anything (`Fails`), and as `_exists` answers False for it, a limit file
counts as absent (`Unlimited`). Only a file that fails where it can be looked up
raises (`Unusable`).

`host` is the machine the walk runs on: what MemTotal says, whether a hierarchy is
mounted, the keys its stat files carry, and which limits, files and directories may
change. It is chosen in `Init`. The history variables `quiet`, `hidden` and `bound` only observe: whether the
kernel has moved since the call began, which files were unusable all call long,
and how much room each level can be said to have had.

### CpuSampler: `CpuLoad` and `get_cpu_used_ratio()`

Both take readings with `_read_cpu`, which is cut where another thread, the clock
or a limit can fall between: the limit (`EvaluateLimit`), the counter
(`ReadCounter`, `LoseCounter`) and the clock (`TakeTime`).

| code | model |
| --- | --- |
| `sample()` is called | `Sample`: a call with no interval |
| the lock; the two halves of the tuple swap; the release | `Acquire`; `Load`, `Store`; `Unlock` |
| `_check_interval`, then the first `_read_cpu` of `get_cpu_used_ratio` | `Measure`, up to `TakeStart` |
| `time.sleep` or `asyncio.sleep`, the second reading | `Wake`, up to `TakeTime` |
| `_used_ratio` | `Report`, with `Comparable` for its tests and `UsedRatio` for the clamped quotient, a part of a whole |

The machine ticks (`Time`), sets, lifts and moves the limit in force
(`ChangeCap`), and puts another group with a lower counter under the same name
(`Restart`): a group created anew, or a Windows job nested in the one before. A
reading is a `_CpuReading`, with one history field, `seen`: what the level had
really consumed. `setting` says who calls and what may change; `swaps`, `found`,
`before` and `loads` are history.

**AtomicSampler** is the abstract sampler: a reading kept, replaced in one step
by every call that has one. CpuSampler implements it with `kept <- previous`
(`SwapsAtomically`, a refinement TLC checks and TLAPS proves): that is what the
lock is for, and nothing else in the code provides it.

### DiscoveryCache: `locate_controllers()` and `clear_cache()`

What a discovery finds is reduced to the group it belongs to. A call is a lookup
(`Ask`), the read of `/proc/self/cgroup` (`ReadOwnPath`), the look for a mount
that shows the group (`PickMount`), for a level with the file (`Probe`), and the
store by `lru_cache` (`Store`), which yields to an entry stored in the meantime;
together they are `Discover`.
A supervisor moves processes (`Move`) and removes empty groups (`Remove`); `Fork`
gives the child its parent's cache through `AfterFork`. `calm[p]` is history:
process `p` has not been moved since a clear that met no discovery.

### Reports: every call of the sensor as a client of the cache

`get_cpu_limit()` alone asks `locate_controllers()` up to four times: for the
quota, for the level its time is counted at, for the set, for the level of the
set. `describe()` asks up to nine times. `Plan` lists the lookups of each call;
`Begin` starts one, `Lookup` is any step of a lookup, `Answered` the use of its
answer. What is found may call for another lookup, put before the rest (`Then`):

| code | model |
| --- | --- |
| `sources()` | `ReadSources` |
| `read_memory`; the second look of `_memory_rejection`, `_no_cpu_mechanism` | `ReadMemory`; `Explain` |
| `read_cpu_quota`, `read_cpu_set_size`, each with `_cpu_usage_level` | `ReadQuota`, `ReadSet`, each with `Pair`, `Counterpart` and `UsageLevel` |
| `_evaluate_cpu_limit`; the early returns of `_read_cpu` | `Judge` |
| `read_cpu_usage(level)`, `read_cpu_usage()` | `Count` with `CounterLevel`, with `Closest` |

The module EXTENDS DiscoveryCache: moves, removals, forks and the other threads'
discoveries and clears happen between any two lookups (`Around`). A limit is
reduced to the level it stands at, and time is counted at levels of its own: in a
`split` setting the mount of the limits shows only the subtree of `Top` while that
of the time shows the level `Outer` above it, so the textual translation
(`Counterpart`) makes `Top` into `Outer`, and a group into a directory that is no
level of the process. Numbers, unreadable files and quotas that
cover the machine are those of MemoryChain and CpuLimits.

### CgroupDiscovery: what `locate_controllers()` locates

A hierarchy is the set of v1 controllers mounted together, or the empty set for
the unified one; a group is its path; a machine is its mounts in order, the lines
of `/proc/self/cgroup`, the groups that exist and the controllers each enables.

| code | model |
| --- | --- |
| `_read_hierarchies`, `_covers_own_cgroup`, `_pick_unified` | `ReadHierarchies`, `CoversOwnCgroup`, `PickUnified`, `PickV1` |
| `_interface` | `NameInterface`, `Interface` |
| `_locate_controller`, `_locate_cpu_usage` | `StartMetric`, `Candidates`, `Skip`, `GiveUp` |
| `_controller_in`, `_first_with`: one look at one level | `Probe`, with `Chain` for the directories |
| `sources()`, `mechanism_notices()` | `HasSource`, `AncestorsHidden` |

The kernel enables and disables controllers and operators set limits between any
two looks (`Enable`, `Disable`, `SetLimit`), also after the discovery: its result
is kept, and `NothingHiddenSilently` is about what the kept chain shows then.

### CpuList: `count_cpu_list()` and `machine_cpu_count()`

A text is its parts; a part is one number, or two with a separator. `CountPart`
and `RefusePart` are a round of the loop, with `Follows` for its test of order;
`ReadOnline`, `ReturnCount` and `Fallback` are `machine_cpu_count()`, which asks
the kernel's list, then `sysconf`, then `os.cpu_count()`.

### CpuLimits: `get_cpu_limit()`

A group is its path in its hierarchy, and a located controller is the group its
mount shows, the group of the process, and the interface. Files hold integers or
one of *absent*, *max*, *empty*. `ReadCpuMax` reads both numbers of v2 at once;
`ReadQuota` and `ReadPeriod` are two steps, as under v1; `FindQuotaUsage` and
`FindSetUsage` are `_cpu_usage_level`; `FindSet` is `_first_with`, `ReadSet` one
file of `_read_cpu_set`; `Reject` and `Raise` are `_UnreadableFileError`; `Judge`
is `_evaluate_cpu_limit`. A read that gives nothing (`GiveNothing`) leaves a doubt,
and the second look of `_read_control_file` (`SeenAgain`), a step later, decides
whether the file is absent or unreadable: in between it may vanish or appear. A look
finds what is `shown`: nothing where there is no file, nor where a directory on its
`Path` is closed to the process, which may happen at any moment too (`Bar`, a change
of all the files `Behind` it). So an unreadable file is told from an absent one only
where the lookup is not denied. Cores are fractions, compared by cross-multiplication;
the code compares floats.

### WindowsJob: `get_memory_budget()` and `get_cpu_limit()` on Windows

The state is the immediate job: its two memory limits, its rate control as flags
and the two words of the union, its affinity as a set of processors per group,
and what its processes have committed. Each query is a step.

| code | model |
| --- | --- |
| `_query` of the limits, in `read_memory` and `read_cpu` | `QueryMemoryLimits`, `QueryCpuLimits` |
| `_job_memory_in_use`, `_available_commit`, each standing in for the other | `ReadCharge`, `ReadCommit`, `Paired` |
| `_rate_cap`, then the second `machine_cpu_count` | `QueryRate`, `SizeRate` |
| `_affinity_cores` | `ReadAffinity` |
| `_evaluate_memory` with `_reconcile`, `_evaluate_cpu_limit` | `JudgeMemory`, `JudgeCpu` |

The owner sets limits (`SetLimit`), the processes commit and free (`Commit`),
calls fail and recover (`Flip`), and the process enters a job, nested in the one
it is in if there is one (`Assign`). What the system answers follows what the code says it
measured: every class fails outside a job, the room is the distance to the limit
of the immediate job and is blind to the per-process limit. A job around the
immediate one is not in the model, as it is not in the code's reach: the promises
are about the immediate job.

## Runs

| run | instance | what it shows |
| --- | --- | --- |
| `memory` | 2 levels; 3 pages and limits 2, 3 or none; 1 page, limits -1 to 2, four files that fail, one limit rewritten, any keys and MemTotal; 1 page and a directory that is closed and opened; 2 pages and a rewritten limit of the mount point | `RoomNeverOverpromised`, `FailClosed`, `BudgetCoherent`, `QuietAnswerExact`, the inductive invariant |
| `sampler` | 2 threads that share, with a change, or with a one-shot ratio beside; 1 caller of a sampler or of the ratio, two levels, 2 changes | `SwapsAtomically`, `OwnWindowsDisjoint`, `LoadNeverInflated`, `EveryCallReturns`, the inductive invariant |
| `reports` | a parent of two threads and a child, a move each and two clears; all six calls, with nothing limited, two memory limits and quotas, a set beside a quota, or mounts that show different subtrees | `QuietReportExact`, `PairsOwnChain`, `CounterOfOwnChain`, `FreshAfterQuietClear`, `ChildForgets`, both inductive invariants |
| `discovery` | 27 machines: unified, v1, hybrid, namespaced, bare; whole, truncated, foreign and repeated mounts | `OwnGroupsOnly`, `NothingHiddenSilently`, `InterfaceIsHome`, `CounterBesideQuota`, the inductive invariant |
| `limits` | eight layouts, two levels and 55,296 starting points where nothing changes; and v1 and v2, two levels, two changes of any file, or of the directory of the process being closed, at any point | `QuietExact`, `RatePairsScope`, `NeverLooser`, `UnreadableReportsNothing`, the inductive invariant |
| `windows_job` | 3 machines of one and two processor groups, 20 jobs, up to 2 units committed, two limits set, jobs entered or calls failing | `RoomNeverOverpromised`, `BudgetCoherent`, `NeverLooser`, `UnreadableReportsNothing`, `QuietExact`, the inductive invariant |
| `cpu_list` | every list of two parts of any kind and of three well-formed ones over four cores, by every answer of the two fallbacks | `CountsCores`, `SystemAskedFirst`, the inductive invariant |

Five runs show a disagreement between the code and what its documents say; each
is a `findings` entry with the quoted line.

| run | what TLC finds |
| --- | --- |
| `sampler_overlap` | two threads: the older reading is swapped in last, and the next load covers time already reported |
| `sampler_gap` | one thread: a limit lifted and set again; the load is measured across the gap |
| `cache_inflight` | a discovery under way during `clear_cache()` is stored after it |
| `discovery_hidden` | a container given a subtree whose top has no memory controller: the limit above binds, nothing is located, no notice |
| `limits_split` | two v1 mounts that show different subtrees: the limit of one group with the time of another |

`sampler_overlap` is also why README.md advises a sampler per caller; the finding
is that the loss goes beyond sharing windows, since the kept reading moves back
in time.

### Bounds

Two levels are where "one level is tightest, another is closest" and "a looser
ancestor" first exist; the walk treats each level alike, and the proofs below
cover any height. Three pages let one page be dirty, one be clean and one be
charged anew between two reads. Where files fail one page is enough, because the
hazards lie in the files; the limits cover a negative one, zero, the usage itself,
exactly the machine, and none. Two threads suffice for every order of two swaps,
and two calls each for a swap that another one has overtaken; a third call of one
caller is what two loads of one sampler need. The window floor is one tick, so two
readings of one tick are too close and of two ticks are not.

The bounds `MaxMoves`, `MaxClears`, `MaxChanges`, `MaxCommit`, and the `ticks`,
`changes`, `calls` and `pages` of a setting, host or case, cap what grows for ever
otherwise. In `reports` a move and two clears are what it takes to clear before and
after it, with a discovery of the other thread under way at either; calls are not
bounded. In `discovery` four changes let a controller be enabled at the root and
below it and a limit be set through it, once the chain is located, and one more
thing move; three levels of groups let a mount stop below a level, at it and at the
process. Two changes in `limits` are what it takes to put a file back, or to move a
level's quota and another's between two reads. In `windows_job` two changes make a
limit set and a query failing, or a job entered and its limit set; a limit of 1 lies
below what may be committed, and groups of one and two processors keep the count of
one group apart from the count of all. In `cpu_list` the third part is what an
overlap with the part before the last needs, were the highest core not kept.

`CHECK_DEADLOCK FALSE` stands only where the bounds on calls, moves and ticks are
exhausted, or the one call modelled has returned, and the system stops.

### Fairness

`FairSpec` assumes weak fairness of the steps of each thread that is inside a call
of the sampler or of the one-shot ratio (the operating system schedules a thread
that can run), and of `Time`: the clock goes on while somebody sleeps. Nothing is
assumed of limits and counters, nor that a thread calls at all. Weak fairness
suffices for the lock although it is contended: calls are bounded, so nobody can
overtake for ever; with unbounded calls `EveryCallReturns` would need a fair lock,
which `threading.Lock` does not promise.

## Proofs

`tlapm` checks eight modules; none rests on anything but the named assumptions on
constants.

- **MemoryChainProofs** (any height, any hosts, any number of pages, any limits,
  any files failing): `IInv` is inductive. It is the conjunction of the types;
  `WalkInv`, which says what a walk has gathered so far; `RoomInv`, that a computed
  distance is room the level had; `HiddenInv`, that a file that failed all along
  is ahead of the walk, has ended it, or has left its level without a usage; and
  `QuietInv`, that while the kernel stands still what was gathered of each level
  behind the walk is what its files say. The promises alone are not inductive, since
  they speak of the step that returns and the facts are gathered long before. From
  it: `NeverOverpromised`, `FailsClosed`, `Coherent`, and `QuietExact`, which compares
  the answer with all files at once: with neither key of `memory.stat` nothing is
  subtracted from the credit, and the credit never exceeds the charge. The lemmas
  `TightestIsLeast` and `ClosestIsLeast` say that the two `min` calls choose what
  they should; that the chosen level exists is by well-founded induction on the
  naturals.
- **CpuSamplerProofs** (any threads, levels, limits, calls): the lock is held from
  the load to the release by the thread between them, so what it has loaded is
  still the reading kept, which is the last one put in; hence `SwapsAreChained`, and
  `ImplementsAtomicSwap`: `Store` is the swap of AtomicSampler and every other step
  a stutter. For the loads themselves, `AgeInv` says that a counter never gains on
  what was consumed since a reading (`Behind`), so a later reading shows no more than
  that (`Grows`), and `SoleInv` that with one caller the reading kept is older than the
  one about to replace it and no older than the end of any load. Hence `NeverInflated`,
  where a one-shot ratio needs no such order because both its readings are its own,
  and `SoleDisjoint`.
- **DiscoveryCacheProofs** (any processes, threads, groups, moves, clears, forks):
  while a process is calm, what is cached and what any of its discoveries carries
  names the group it is in; hence `FreshAfterClear` and `ChildrenForget`.
- **ReportsProofs** (any settings besides): `ImplementsCache` maps every step of a
  call to a step of the cache or a stutter, so the invariant of the cache and
  `ReportsFresh` carry over. `ScopeInv` adds that a level is paired with its counterpart
  or with none, and that the lookup for a counter is the last one of a rate, so no later
  lookup can outdate what was checked when it was read; hence `PairsOwn` (a
  lookup after a clear that met no discovery has the group the process is in) and
  `CountsOwnChain`. `ReportInv` is `ScopeInv` with three more parts: the lookups ahead
  are in the order of the plan and what something found calls for comes at once
  (`OrderInv`), no discovery answered from began before its call (`SinceInv`), and a
  quiet call knows what the lookups behind it were for, about its process as it is
  now (`KnownInv`, a conjunct per part of the report). `Place` numbers the lookups, so
  that "behind" is a comparison: when the judgement is at hand, nothing before it is
  ahead. Hence `QuietExact`.
- **CgroupDiscoveryProofs** (any machine that meets `MachineAssumption`, any number
  of changes): what is picked shows groups the process is in, the probe is at one of
  them, and `HomeInv` keeps limits and located mounts in the hierarchy the
  controller is bound to. Hence `ReadsOwnGroups`, and `ReadOrReported`: two prefixes
  of one path are comparable, so a limit the chain does not show lies above the root
  of its mount, which is then no root of the hierarchy. Of a
  discovery during which no controller moved, `QuietInv` says what each of its looks
  would still see: a group has available what its ancestors enable (`TreeInv`, which
  makes a limit file anywhere in the unified hierarchy mean its controller at the top
  of the mount), the interface stays what it was named (`InterfaceInv`), and the time
  counter is found at the first level looked at, since every level counts time
  (`CounterInv`). Hence `HomeOfLimits` and `TimeBesideLimit`. Two assumptions are
  about names: `..` is no group's name, and `None` none of the values it stands beside.
- **CpuListProofs** (lists of any length, any numbers): `PrefixInv` counts the parts
  so far by the cardinality of the cores they name, with each part disjoint from all
  before it; hence `CountsWhatIsNamed` and `AsksTheSystemFirst`.

- **CpuLimitsProofs** (any layouts, chains of any depth, any contents of any files,
  any files failing, any number of changes): a quota that stood is ahead of the walk,
  among those found, or no less than the one chosen (`QuotaKept`); a set that stood is
  ahead or the one found (`SetKept`); a file that failed all along is ahead or has
  ended the walk (`HiddenInv`); and while nothing changes what is held is what the
  files say (`QuietInv`). Hence `Looser`, `UnreadableNothing` and `Exact`. That the
  tightest of the quotas found exists is kept as part of `WalkInv` and extended quota by
  quota, as fractions compare by cross-multiplication. `RateScope` proves
  `RatePairsScope` where every limit's mount and the counter's show equal roots;
  without that hypothesis it is false, which is the run `limits_split`.
- **WindowsJobProofs** (any machines, jobs, limits, calls failing): `WalkInv` says what
  a call holds at each query, `RoomInv` that neither figure of a pair exceeds the most
  room of all moments of the call, `KeptInv` that a limit which stood in one and the
  same job is kept from the query that reads it on, `QuietInv` what the queries come to
  when nothing moves. Hence `Room`, `Coherent`, `Looser`, `UnreadableNothing`, `Exact`.
  `LimitAssumption` states what the kernel stores: no rate of zero, the high word of a
  hard cap clear, and a finite set of processors for each group.

`SwapsChain` says that no reading is lost or used twice, and no more: it does not
order readings in time, which is what `sampler_overlap` is about.

Every invariant and every safety property of a passing run is stated by a theorem.
Only model-checked is liveness, `EveryCallReturns`, which the prover does not treat;
and the five findings are runs, as a counterexample is a matter of one instance.

## What is abstracted

- The read of one control file is one step, except in CpuLimits, where the second
  look at a file that gave nothing is another; a file that fails and a file that does
  not parse are both "gives nothing usable", which the code treats alike except for
  counters, where both give None. Paths are sequences of names or level numbers.
- A ratio is a part of a whole, not a quotient: `UsedRatio` clamps the time used to
  `0..` what the limit allows in the window, as the code clamps the quotient to 0 and
  1. `LoadNeverInflated` says that the part is in that range and no more than what was
  consumed between the two looks at the counter. It holds for one caller of a sampler
  and for every one-shot ratio; with several callers of one sampler, the older of
  two readings may be swapped in last. No property bounds the window itself, which a
  thread descheduled between counter and clock makes longer or shorter than the time
  counted, nor says that a ratio across a restarted counter is not too low.
- A lookup is denied in MemoryChain and CpuLimits, where a directory may be closed at
  any moment. `FailClosed`, `NeverLooser` and `UnreadableReportsNothing` are about the
  files that can be looked up, and say so; `QuietAnswerExact` and `QuietExact` hold the
  answer to what the code does with the others. It takes a limit behind a closed
  directory for an absent one and reports the looser limit of an ancestor without a
  notice. A unit test pins that `_exists` answers so, while `_read_control_file`
  speaks of "telling an absent one from an unreadable one": the safety properties
  cannot be said of such a limit.
- Notices are their codes. The cores of the machine and its memory do not change
  during a run.
- CgroupDiscovery: mounts are not made or removed during a discovery, no two share a
  mount point, and, here, every directory may be looked into. What is above the root of a
  cgroup namespace has no name and holds no limit in the model, as nothing could
  tell. The kernel's rules are those that decide which files exist: a controller is
  bound to one hierarchy, is available below where it is enabled, and a group with
  processes enables none. The effective CPU set of a level accounts for those above.
  A discovery is one pass without a cache; when it is repeated is DiscoveryCache's.
- DiscoveryCache and Reports: a discovery is the group it found, or nothing. In
  Reports the level above all groups stays mounted and carries every metric, limits
  stay where a setting put them, every quota is below the machine, and the calls of
  one thread are followed.
- CpuList: a number is what `int()` takes; the blanks, signs and underscores it also
  takes are not told apart from digits, so `first` is a natural number.

## Not modelled

The imports of `_backend.py` and the records of `_types.py` have no behaviour.
`_darwin.py`, MemTotal, and the ceiling, `read_cpu_usage()`, `sources()` and
`_in_job()` of Windows are one call each that keeps nothing: they enter the models as
values that may be unknown. The text of `/proc/self/mountinfo`, its escapes, and
message texts are left to the unit tests.

Three hazards of `PROJECT.json` have no property: the length of the window a load is
divided by, a load that comes out too low after a Windows job was nested, and an
interface that disagrees with metrics located while a controller was enabled. The
code promises nothing about them; the notes say what does hold there. Where a
property covers a hazard only in part, its note says which part.

## Plan

1. The abstract promise of a reading (no looser than what stood, nothing where
   something failed) stated once, and implemented by CpuLimits and WindowsJob.
2. CpuLimits over the layouts CgroupDiscovery locates, instead of eight given ones.
3. Proofs over the composition: that the chains CgroupDiscovery locates are those
   CpuLimits assumes, so that its theorems hold of every located machine, and under
   which machines the hypothesis of `RateScope` holds.

Modules to be proved about declare no RECURSIVE operator; parameters are constants
with named assumptions.
