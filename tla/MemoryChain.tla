---------------------------- MODULE MemoryChain ----------------------------
(***************************************************************************)
(* get_memory_budget() on Linux: the walk over the memory control files of *)
(* the own cgroup and its ancestors, against a kernel that keeps charging, *)
(* reclaiming and writing back pages, and against limits and files that    *)
(* change under the walk.                                                  *)
(*                                                                         *)
(* Level 1 is the own cgroup, level Height the mount point, the order of   *)
(* Controller.dirs.  Each file is read in a step of its own, so the kernel *)
(* may act between any two of them.  A page is the unit of memory.         *)
(***************************************************************************)
EXTENDS Integers, FiniteSets

CONSTANTS
    Height,      \* number of directories in the chain
    Hosts,       \* the machines the process may run on, see Host
    NoLimit,     \* a limit file that is absent or spells "max"
    None         \* Python's None

Level == 1..Height
File == {"limit", "charge", "stat"}
Entry == File \cup {"directory"}
StatKeys == {"file_dirty", "file_writeback"}

\* How a page is charged.  "clean", "dirty" and "writeback" are on the inactive
\* file list, "active" is a dirty page of the active list, "anon" the rest.
Kind == {"anon", "clean", "dirty", "writeback", "active"}

\* What stays fixed while the process runs: what MemTotal says, whether a
\* hierarchy is mounted, which of the two keys memory.stat carries, the pages
\* ever in use (a bound), what limit files may hold, the levels whose limit may
\* be rewritten, the files that may stop answering and the directories that may
\* be closed to this process.
Host == [machine : Nat \cup {None}, mechanism : {"cgroup", "none"}, keys : SUBSET StatKeys,
         pages : Nat, limits : SUBSET (Int \cup {NoLimit}),
         rewrites : SUBSET Level, flaky : SUBSET (Level \X Entry)]

ASSUME HeightAssumption == Height \in Nat \ {0}
ASSUME ContentAssumption == /\ NoLimit \notin Int /\ None \notin Int
                            /\ None \notin [charged : Nat, unflushed : Nat \cup {None}]
ASSUME HostAssumption == Hosts \subseteq Host

VARIABLES
    pages,       \* pages[l][x]: pages of kind x charged to level l or below it
    limit,       \* limit[l]: what the limit file of level l says
    mute,        \* the files that give nothing usable and the directories closed right now
    host,        \* the machine
    pc,          \* the step get_memory_budget() is at
    at,          \* the level the walk is at
    held,        \* held[l]: the limit read at level l, None where no _MemoryLevel
    usage,       \* usage[l]: the _MemoryUsage of level l, or None
    unreadable,  \* the level an _UnreadableFileError was raised for, or None
    current,     \* the usage file of the level the walk is at, once read
    reply,       \* what the call returned, until the next one begins
    quiet,       \* history: the kernel has not moved since the call began
    hidden,      \* history: files without which no budget is sound, all call long
    bound        \* history: the most room level l can be said to have had

kernel == <<pages, limit, mute>>
history == <<quiet, hidden, bound>>
vars == <<pages, limit, mute, host, pc, at, held, usage, unreadable, current,
          reply, history>>

Max0(n) == IF n < 0 THEN 0 ELSE n
AtMost(n, cap) == IF n < cap THEN n ELSE cap

----------------------------------------------------------------------------
(* The kernel's side: what the control files say.                          *)

\* memory.current
Charged(l) == pages[l]["anon"] + pages[l]["clean"] + pages[l]["dirty"]
                + pages[l]["writeback"] + pages[l]["active"]

\* memory.stat, the entries _read_memory_usage asks for
InactiveFile(l) == pages[l]["clean"] + pages[l]["dirty"] + pages[l]["writeback"]
FileDirty(l) == pages[l]["dirty"] + pages[l]["active"]
FileWriteback(l) == pages[l]["writeback"]

\* Nothing but clean inactive cache can be dropped for a new allocation.
Room(l) == limit[l] - (Charged(l) - pages[l]["clean"])

Binds(l) == limit[l] # NoLimit /\ limit[l] >= 0

\* A directory on the way to the files of level l may not be traversed.
Denied(l) == \E m \in l..Height : <<m, "directory">> \in mute

\* A file of level l gives nothing.
Fails(l, f) == <<l, f>> \in mute \/ Denied(l)

\* Pages of a kind charged to level k but not to the level below it.
Own(k, x) == pages[k][x] - (IF k = 1 THEN 0 ELSE pages[k - 1][x])

\* The files without which the answer cannot be trusted.  A usage matters only
\* where there is a limit to hold it against, and a file whose lookup is denied
\* not at all: _exists answers False for it, so it counts as absent.
Needed == {lf \in Level \X File :
             /\ ~Denied(lf[1])
             /\ IF lf[2] = "limit" THEN lf \in mute \/ (limit[lf[1]] # NoLimit /\ ~Binds(lf[1]))
                                   ELSE lf \in mute /\ Binds(lf[1])}

Observe == /\ quiet' = FALSE
           /\ hidden' = hidden \cap Needed'
           /\ UNCHANGED <<host, pc, at, held, usage, unreadable, current, reply, bound>>

\* A page fault or a read of a file: charged to level k and to all above it.
Charge(k, x) ==
    /\ Charged(Height) < host.pages
    /\ \A l \in k..Height : Binds(l) => Charged(l) < limit[l]
    /\ pages' = [l \in Level |-> IF l < k THEN pages[l]
                                 ELSE [pages[l] EXCEPT ![x] = @ + 1]]
    /\ UNCHANGED <<limit, mute>>
    /\ Observe

\* Memory freed, or clean cache reclaimed.
Release(k, x) ==
    /\ Own(k, x) > 0
    /\ pages' = [l \in Level |-> IF l < k THEN pages[l]
                                 ELSE [pages[l] EXCEPT ![x] = @ - 1]]
    /\ UNCHANGED <<limit, mute>>
    /\ Observe

\* A page is written to, activated, or on its way to the disk.
Turn(k, x, y) ==
    /\ Own(k, x) > 0
    /\ pages' = [l \in Level |-> IF l < k THEN pages[l]
                                 ELSE [pages[l] EXCEPT ![x] = @ - 1, ![y] = @ + 1]]
    /\ UNCHANGED <<limit, mute>>
    /\ Observe

Turns == {<<"clean", "dirty">>, <<"dirty", "active">>, <<"dirty", "writeback">>,
          <<"active", "writeback">>, <<"writeback", "clean">>}

\* An operator, or the container runtime, rewrites a limit.
SetLimit(l, content) ==
    /\ content # limit[l]
    /\ limit' = [limit EXCEPT ![l] = content]
    /\ UNCHANGED <<pages, mute>>
    /\ Observe

\* A file starts or stops failing: EIO, EMFILE, a garbled or missing entry.  Or a
\* directory is closed to this process or opened, and with it all below it.
Flip(lf) ==
    /\ mute' = IF lf \in mute THEN mute \ {lf} ELSE mute \cup {lf}
    /\ UNCHANGED <<pages, limit>>
    /\ Observe

Kernel == \/ \E k \in Level, x \in {"anon", "clean"} : Charge(k, x) \/ Release(k, x)
          \/ \E k \in Level, t \in Turns : Turn(k, t[1], t[2])
          \/ \E l \in host.rewrites, content \in host.limits : SetLimit(l, content)
          \/ \E lf \in host.flaky : Flip(lf)

----------------------------------------------------------------------------
(* read_memory(): one level of _read_memory_levels after the other.        *)

\* An answer that is no budget: what get_memory_budget() gives as None, and
\* describe() as a notice.
NoBudget == [limit |-> None, used |-> None, available |-> None]
Says(outcome) == [outcome |-> outcome, budget |-> NoBudget, level |-> None, unflushed |-> None]

Begin ==
    /\ pc = "idle"
    /\ pc' = IF host.mechanism = "none" THEN "judge" ELSE "limit"
    /\ at' = 1
    /\ quiet' = TRUE
    /\ hidden' = IF host.mechanism = "none" THEN {} ELSE Needed
    /\ reply' = Says("pending")
    /\ UNCHANGED <<kernel, host, held, usage, unreadable, current, bound>>

\* The for loop of _read_memory_levels.
Advance == /\ current' = 0
           /\ IF at = Height THEN pc' = "judge" /\ at' = at
                             ELSE pc' = "limit" /\ at' = at + 1

\* Mutant of Unusable: a limit file that cannot be read counts as absent.
UnusableIfNegative(l) == ~Denied(l) /\ limit[l] # NoLimit /\ limit[l] < 0

\* The file fails to say anything and is seen to be there, or says a negative
\* number: _read_limit or _read_memory_levels raises, which ends the walk.
Unusable(l) == ~Denied(l) /\ (<<l, "limit">> \in mute \/ (limit[l] # NoLimit /\ limit[l] < 0))

\* The file is absent, says "max", or cannot be looked up.
Unlimited(l) == Denied(l) \/ limit[l] = NoLimit

RejectLevel ==
    /\ pc = "limit"
    /\ Unusable(at)
    /\ unreadable' = at
    /\ pc' = "judge"
    /\ UNCHANGED <<kernel, host, at, held, usage, current, reply, history>>

SkipLevel ==
    /\ pc = "limit"
    /\ ~Unusable(at)
    /\ Unlimited(at)
    /\ Advance
    /\ UNCHANGED <<kernel, host, held, usage, unreadable, reply, history>>

HoldLevel ==
    /\ pc = "limit"
    /\ ~Unusable(at)
    /\ ~Unlimited(at)
    /\ held' = [held EXCEPT ![at] = limit[at]]
    /\ pc' = "charge"
    /\ UNCHANGED <<kernel, host, at, usage, unreadable, current, reply, history>>

ReadCharge ==
    /\ pc = "charge"
    /\ ~Fails(at, "charge")
    /\ current' = Charged(at)
    /\ pc' = "stat"
    /\ UNCHANGED <<kernel, host, at, held, usage, unreadable, reply, history>>

\* The charge or the stat file gives nothing: the level is kept without a usage.
LoseUsage ==
    /\ pc \in {"charge", "stat"}
    /\ Fails(at, pc)
    /\ Advance
    /\ UNCHANGED <<kernel, host, held, usage, unreadable, reply, history>>

\* The pages waiting for the disk, from the keys the stat file carries; None
\* where it carries neither.
Unflushed(keys, dirty, writeback) ==
    IF keys = {} THEN None
    ELSE (IF "file_dirty" \in keys THEN Max0(dirty) ELSE 0)
         + (IF "file_writeback" \in keys THEN Max0(writeback) ELSE 0)

\* Mutant of Credit: the whole inactive cache, as `docker stats` credits it.
CreditWholeCache(inactive, unflushed) == Max0(inactive)

\* The inactive cache the kernel can drop, credited back against the charge.
Credit(inactive, unflushed) ==
    Max0(inactive - (IF unflushed = None THEN 0 ELSE unflushed))

\* Mutant of MemoryUsage: no clamp where the cache outgrew the charge read first.
MemoryUsageUnclamped(charge, inactive, unflushed) ==
    [charged |-> charge - Credit(inactive, unflushed), unflushed |-> unflushed]

MemoryUsage(charge, inactive, unflushed) ==
    [charged |-> Max0(charge - Credit(inactive, unflushed)), unflushed |-> unflushed]

\* One parse of the stat file.  The history notes the room the level has now,
\* and how far its charge has grown since the walk read it.
ReadStat ==
    /\ pc = "stat"
    /\ ~Fails(at, "stat")
    /\ usage' = [usage EXCEPT ![at] =
         MemoryUsage(current, InactiveFile(at),
                     Unflushed(host.keys, FileDirty(at), FileWriteback(at)))]
    /\ bound' = [bound EXCEPT ![at] =
         held[at] - (Charged(at) - pages[at]["clean"]) + Max0(Charged(at) - current)]
    /\ Advance
    /\ UNCHANGED <<kernel, host, held, unreadable, reply, quiet, hidden>>

----------------------------------------------------------------------------
(* The rest of read_memory() and the judgement of _evaluate_memory().      *)

Held == {l \in Level : held[l] # None}
Silent == {l \in Held : usage[l] = None}

\* min(levels, key=...): of the levels with the smallest key, the innermost.
FirstMin(S, key(_)) ==
    CHOOSE l \in S : \A m \in S : key(l) < key(m) \/ (key(l) = key(m) /\ l <= m)

Limit(l) == held[l]
Distance(l) == held[l] - usage[l].charged
Available(l) == Max0(Distance(l))

Tightest == FirstMin(Held, Limit)

\* Mutant of Closest: the usage of the level that holds the tightest limit.
ClosestIsTightest == Tightest

\* An unknown distance ranks below every known one.
Closest == IF Silent # {} THEN CHOOSE l \in Silent : \A m \in Silent : l <= m
                          ELSE FirstMin(Held, Distance)

Reconcile(cap, used, available) ==
    LET charged == AtMost(Max0(used), cap)
    IN  [limit |-> cap, used |-> charged, available |-> AtMost(Max0(available), cap - charged)]

\* Mutant of CoversMachine: a limit of exactly the machine counts as a limit.
AboveMachine == held[Tightest] > host.machine

CoversMachine == held[Tightest] >= host.machine

\* The order of the tests is that of read_memory, then of _memory_rejection.
Evaluate ==
    IF unreadable # None THEN Says("MEMORY_LIMIT_UNREADABLE")
    ELSE IF Held = {} THEN
         Says(IF host.mechanism = "none" THEN "MEMORY_METRICS_UNAVAILABLE" ELSE "unlimited")
    ELSE IF host.machine = None THEN Says("MACHINE_MEMORY_UNKNOWN")
    ELSE IF CoversMachine THEN Says("MEMORY_LIMIT_COVERS_MACHINE")
    ELSE IF usage[Closest] = None THEN Says("MEMORY_USAGE_UNREADABLE")
    ELSE [outcome   |-> "budget",
          budget    |-> Reconcile(held[Tightest], held[Tightest] - Available(Closest),
                                  Available(Closest)),
          level     |-> Tightest,
          unflushed |-> usage[Closest].unflushed]

\* The call returns; what the walk had gathered goes with it.
Nothing == [l \in Level |-> None]

Judge ==
    /\ pc = "judge"
    /\ pc' = "idle"
    /\ reply' = Evaluate
    /\ at' = 1
    /\ held' = Nothing /\ usage' = Nothing /\ unreadable' = None
    /\ quiet' = TRUE /\ hidden' = {} /\ bound' = [l \in Level |-> 0]
    /\ UNCHANGED <<kernel, host, current>>

Reader == Begin \/ RejectLevel \/ SkipLevel \/ HoldLevel \/ ReadCharge \/ LoseUsage
            \/ ReadStat \/ Judge

----------------------------------------------------------------------------
Init ==
    /\ pages = [l \in Level |-> [x \in Kind |-> 0]]
    /\ host \in Hosts
    /\ limit \in [Level -> host.limits]
    /\ mute = {}
    /\ pc = "idle"
    /\ at = 1
    /\ held = Nothing
    /\ usage = Nothing
    /\ unreadable = None
    /\ current = 0
    /\ reply = Says("pending")
    /\ quiet = TRUE
    /\ hidden = {}
    /\ bound = [l \in Level |-> 0]

Next == Kernel \/ Reader

Spec == Init /\ [][Next]_vars

----------------------------------------------------------------------------
(* Properties.                                                             *)

Outcome == {"pending", "MEMORY_LIMIT_UNREADABLE", "MEMORY_METRICS_UNAVAILABLE", "unlimited",
            "MACHINE_MEMORY_UNKNOWN", "MEMORY_LIMIT_COVERS_MACHINE", "MEMORY_USAGE_UNREADABLE",
            "budget"}

Budgets == [limit : Nat, used : Nat, available : Nat]

\* The types of the variables.  The usage of a level and the numbers of a
\* budget are never negative, whatever was read when (the clamps of
\* _read_memory_usage, _MemoryLevel.available and _reconcile), and a level
\* counts at least what the levels below it count.
TypeOK ==
    /\ pages \in [Level -> [Kind -> Nat]]
    /\ \A l, m \in Level : l <= m => \A x \in Kind : pages[l][x] <= pages[m][x]
    /\ limit \in [Level -> Int \cup {NoLimit}]
    /\ mute \subseteq Level \X Entry
    /\ host \in Host
    /\ pc \in {"idle", "limit", "charge", "stat", "judge"}
    /\ at \in Level
    /\ held \in [Level -> Nat \cup {None}]
    /\ usage \in [Level -> [charged : Nat, unflushed : Nat \cup {None}] \cup {None}]
    /\ unreadable \in Level \cup {None}
    /\ current \in Nat
    /\ reply \in [outcome : Outcome, budget : Budgets \cup {NoBudget},
                  level : Level \cup {None}, unflushed : Nat \cup {None}]
    /\ quiet \in BOOLEAN
    /\ hidden \subseteq Level \X File
    /\ bound \in [Level -> Int]

\* The step in which a call returns.
Returns == pc = "judge" /\ pc' = "idle"

\* A budget never names more room than any level holding a limit had when its
\* stat file was read, plus what that level's charge had grown by since its
\* usage file was read: the credit of _read_memory_usage cannot turn pages
\* waiting for the disk, or cache another file already paid for, into room, and
\* read_memory cannot skip the level that is closest to its limit.
RoomNeverOverpromised ==
    [][Returns /\ reply'.outcome = "budget" /\ host.keys = StatKeys
         => \A l \in Held : reply'.budget.available <= Max0(bound[l])]_vars

\* While a file that decides the answer (a limit file, or a usage file under a
\* limit) was unusable for a whole call, in a directory that could be looked into
\* all that time, that call reports no budget: neither an unreadable limit nor an
\* unknown distance is passed over for a looser level.  Behind a lookup that is
\* denied it is passed over: QuietAnswerExact says what is answered then.
FailClosed == [][Returns /\ hidden # {} => reply'.outcome # "budget"]_vars

\* A budget is one pair: used and available add up to a limit below the memory
\* of the machine, and _reconcile had nothing to correct in what read_memory
\* derived from two different levels read at different times.
BudgetCoherent ==
    [][Returns /\ reply'.outcome = "budget" =>
         /\ reply'.budget.limit < host.machine
         /\ reply'.budget.used + reply'.budget.available = reply'.budget.limit
         /\ reply'.budget.available = Available(Closest)]_vars

\* The answer of a call that nothing disturbed, said without the walk: every
\* limited level at once, from the files as they stand and can be looked up.
NowUnflushed(l) == Cardinality({k \in host.keys : k = "file_dirty"}) * FileDirty(l)
                     + Cardinality({k \in host.keys : k = "file_writeback"}) * FileWriteback(l)
NowLimited == {l \in Level : ~Unlimited(l)}
NowUnknown(l) == Fails(l, "charge") \/ Fails(l, "stat")
NowDistance(l) == limit[l] - Charged(l) + Max0(InactiveFile(l) - NowUnflushed(l))

ExactReply(r) ==
    CASE host.mechanism = "none" -> r.outcome = "MEMORY_METRICS_UNAVAILABLE"
      [] host.mechanism = "cgroup" /\ \E l \in Level : Unusable(l) ->
           r.outcome = "MEMORY_LIMIT_UNREADABLE"
      [] host.mechanism = "cgroup" /\ (\A l \in Level : ~Unusable(l)) /\ NowLimited = {} ->
           r.outcome = "unlimited"
      [] OTHER ->
           \/ host.machine = None /\ r.outcome = "MACHINE_MEMORY_UNKNOWN"
           \/ /\ host.machine # None
              /\ \A l \in NowLimited : limit[l] >= host.machine
              /\ r.outcome = "MEMORY_LIMIT_COVERS_MACHINE"
           \/ /\ host.machine # None
              /\ \E l \in NowLimited : limit[l] < host.machine
              /\ \E l \in NowLimited : NowUnknown(l)
              /\ r.outcome = "MEMORY_USAGE_UNREADABLE"
           \/ /\ host.machine # None
              /\ r.outcome = "budget"
              /\ \A l \in NowLimited : ~NowUnknown(l)
              /\ r.level \in NowLimited
              /\ r.budget.limit = limit[r.level]
              /\ \A l \in NowLimited : limit[l] > r.budget.limit \/ (limit[l] = r.budget.limit /\ l >= r.level)
              /\ \A l \in NowLimited : r.budget.available <= Max0(NowDistance(l))
              /\ \E l \in NowLimited :
                   /\ r.budget.available = Max0(NowDistance(l))
                   /\ host.keys # {} => r.unflushed = NowUnflushed(l)

\* A call during which the kernel did not move returns exactly what the files
\* say together: the tightest limit, the innermost level that holds it, and the
\* smallest distance of any level, or the first reason there is no such answer.
QuietAnswerExact == [][Returns /\ quiet => ExactReply(reply')]_vars

----------------------------------------------------------------------------
(* The inductive invariant the proofs of MemoryChainProofs rest on.        *)

\* The levels the walk has still to read from the beginning.
Ahead(l) == (pc = "limit" /\ l >= at) \/ (pc \in {"charge", "stat"} /\ l > at)

\* What a call has gathered: nothing between calls, no limit of a level ahead,
\* and a usage only under a limit.
WalkInv ==
    /\ pc = "idle" => held = Nothing /\ usage = Nothing /\ unreadable = None /\ hidden = {}
    /\ pc \in {"limit", "charge", "stat"} => unreadable = None /\ host.mechanism = "cgroup"
    /\ pc \in {"charge", "stat"} => held[at] # None /\ usage[at] = None
    /\ \A l \in Level : Ahead(l) => held[l] = None
    /\ \A l \in Level : usage[l] # None => held[l] # None

\* The distance computed for a level is room it had, up to the growth of its
\* charge between the two reads.
RoomInv ==
    host.keys = StatKeys =>
      \A l \in Level : usage[l] # None => Distance(l) <= bound[l]

\* A file unusable since the call began is ahead of the walk, has ended it, or
\* has left its level without a usage.
HiddenInv ==
    /\ hidden \subseteq Needed
    /\ unreadable = None =>
         \A lf \in hidden :
            \/ Ahead(lf[1])
            \/ /\ lf[2] # "limit"
               /\ lf[1] \in Silent
               /\ pc = "stat" => lf # <<at, "charge">>

\* While the kernel does not move, what a call has gathered of the levels behind
\* it is what their files say.
NowHeld(l) == IF Unlimited(l) THEN None ELSE limit[l]
NowUsage(l) ==
    IF NowUnknown(l) THEN None
    ELSE MemoryUsage(Charged(l), InactiveFile(l),
                     Unflushed(host.keys, FileDirty(l), FileWriteback(l)))
Reading(l) == pc \in {"charge", "stat"} /\ l = at

QuietInv ==
    quiet /\ pc # "idle" =>
      /\ host.mechanism = "none" => held = Nothing /\ unreadable = None
      /\ unreadable # None => Unusable(unreadable)
      /\ host.mechanism = "cgroup" /\ unreadable = None => \A l \in Level : ~Ahead(l) =>
           /\ ~Unusable(l) /\ held[l] = NowHeld(l)
           /\ ~Unlimited(l) /\ ~Reading(l) => usage[l] = NowUsage(l)
      /\ pc = "stat" => ~Fails(at, "charge") /\ current = Charged(at)

\* TypeOK and the four together are preserved by every step; the promises
\* (RoomNeverOverpromised, FailClosed, QuietAnswerExact) are read off them when a
\* call returns.
IInv == TypeOK /\ WalkInv /\ RoomInv /\ HiddenInv /\ QuietInv
=============================================================================
