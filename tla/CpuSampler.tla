---------------------------- MODULE CpuSampler -----------------------------
(***************************************************************************)
(* CpuLoad, a sampler several threads may share, and get_cpu_used_ratio(). *)
(* sample() takes a reading (the CPU limit, then the counter of the level  *)
(* the limit binds at, then the clock), swaps it under the lock for the    *)
(* one kept, and measures between the two; the one-shot ratio takes two    *)
(* readings of its own and sleeps in between.  Each of these is a step, so *)
(* threads, the clock and the limits may move between any two of them.     *)
(***************************************************************************)
EXTENDS Integers, Sequences

CONSTANTS
    Threads,     \* the threads that share the sampler
    Levels,      \* the levels that count CPU time
    Caps,        \* the limits in force at some time: [cores, level]
    Shortest,    \* _SHORTEST_WINDOW_SECONDS, in ticks
    Settings,    \* the machines and the callers, see Setting
    None

\* seen is a history field: what the level had really consumed when its counter
\* was read.
Readings == [cores : Nat, level : Levels, usage : Nat, seen : Nat, taken_at : Nat]

ASSUME NoneAssumption ==
    None \notin Int /\ None \notin Caps /\ None \notin Threads /\ None \notin Readings
ASSUME CapAssumption == Caps \subseteq [cores : Nat, level : Levels]
ASSUME NumberAssumption == Shortest \in Nat \ {0}

\* What stays fixed: the threads that call, the limits that may be set, what the
\* levels may consume in a tick, whether reading a counter may fail, the
\* intervals the one-shot ratio is asked for, and the bounds: ticks, limits
\* changed and counters restarted, and calls of one thread.
Setting == [callers : SUBSET Threads, caps : SUBSET Caps, works : SUBSET [Levels -> Nat],
            fails : BOOLEAN, intervals : SUBSET Nat,
            ticks : Nat, changes : Nat, calls : Nat]
ASSUME SettingAssumption == Settings \subseteq Setting

VARIABLES
    setting,     \* the machine and the callers
    clock,       \* time.monotonic()
    cap,         \* the limit _evaluate_cpu_limit would find now, or None
    counter,     \* counter[l]: the CPU time file of level l
    consumed,    \* history: what level l has really consumed
    changes,     \* limits changed and counters restarted so far
    previous,    \* CpuLoad._previous
    lock,        \* the holder of CpuLoad._lock, or None
    pc,          \* pc[t]: the step of its call thread t is at
    wait,        \* wait[t]: the interval it was asked for, or None in sample()
    limit,       \* limit[t]: the limit the call of thread t found, or None
    reading,     \* reading[t]: its reading, so far as it is taken, or None
    prev,        \* prev[t]: the reading it measures from
    calls,       \* calls thread t has begun
    swaps,       \* history: the readings swapped, in order, <<out, in>>
    found,       \* history: the limit the call that swapped last had found
    before,      \* history: before[t]: found, when thread t swapped
    loads        \* history: the ratios reported, [from, to, ratio, before, limit, own]

world == <<setting, clock, cap, counter, consumed, changes>>
sampler == <<previous, lock>>
locals == <<wait, limit, reading, prev>>
log == <<swaps, found, before, loads>>
vars == <<world, sampler, pc, locals, calls, log>>

Max0(n) == IF n < 0 THEN 0 ELSE n

----------------------------------------------------------------------------
(* The machine.                                                            *)

\* The clock goes on while somebody sleeps.
Sleeps(t) == pc[t] = "sleep" /\ clock < prev[t].taken_at + wait[t]

Tick(work) ==
    /\ clock < setting.ticks \/ \E t \in Threads : Sleeps(t)
    /\ clock' = clock + 1
    /\ counter' = [l \in Levels |-> counter[l] + work[l]]
    /\ consumed' = [l \in Levels |-> consumed[l] + work[l]]
    /\ UNCHANGED <<setting, cap, changes, sampler, pc, locals, calls, log>>

\* A limit is set, lifted or moved to another level.
ChangeCap(c) ==
    /\ changes < setting.changes
    /\ c # cap
    /\ cap' = c
    /\ changes' = changes + 1
    /\ UNCHANGED <<setting, clock, counter, consumed, sampler, pc, locals, calls, log>>

\* Under the name of the level there is another group, which has counted less:
\* one created anew under the same path, or a job nested in the one before.
Restart(l) ==
    /\ changes < setting.changes
    /\ \E n \in 0..counter[l] - 1 : counter' = [counter EXCEPT ![l] = n]
    /\ changes' = changes + 1
    /\ UNCHANGED <<setting, clock, cap, consumed, sampler, pc, locals, calls, log>>

Time == \E work \in setting.works : Tick(work)

Machine == \/ Time
           \/ \E c \in setting.caps \cup {None} : ChangeCap(c)
           \/ \E l \in Levels : Restart(l)

----------------------------------------------------------------------------
(* CpuLoad.sample() and get_cpu_used_ratio().                              *)

Go(t, step) == pc' = [pc EXCEPT ![t] = step]

Begin(t, interval) ==
    /\ pc[t] = "idle"
    /\ t \in setting.callers
    /\ calls[t] < setting.calls
    /\ calls' = [calls EXCEPT ![t] = @ + 1]
    /\ wait' = [wait EXCEPT ![t] = interval]
    /\ Go(t, "limit")
    /\ UNCHANGED <<world, sampler, limit, reading, prev, log>>

Sample(t) == Begin(t, None)

\* _check_interval refuses a shorter one before anything is read.
Measure(t) == \E interval \in setting.intervals : interval >= Shortest /\ Begin(t, interval)

\* Where a call goes on to once it has its reading, or has none: to the swap, or
\* back to its caller.
Measuring(t) == wait[t] # None
Read(t) == IF Measuring(t) THEN "report" ELSE "lock"

\* _read_cpu: no limit, or none whose level counts time, and there is no reading.
EvaluateLimit(t) ==
    /\ pc[t] = "limit"
    /\ limit' = [limit EXCEPT ![t] = cap]
    /\ reading' = [reading EXCEPT ![t] = None]
    /\ Go(t, IF cap = None THEN Read(t) ELSE "counter")
    /\ UNCHANGED <<world, sampler, wait, prev, calls, log>>

ReadCounter(t) ==
    /\ pc[t] = "counter"
    /\ reading' = [reading EXCEPT ![t] =
         [cores |-> limit[t].cores, level |-> limit[t].level,
          usage |-> counter[limit[t].level], seen |-> consumed[limit[t].level], taken_at |-> 0]]
    /\ Go(t, "clock")
    /\ UNCHANGED <<world, sampler, wait, limit, prev, calls, log>>

LoseCounter(t) ==
    /\ setting.fails
    /\ pc[t] = "counter"
    /\ Go(t, Read(t))
    /\ UNCHANGED <<world, sampler, locals, calls, log>>

Dated(t) == [reading[t] EXCEPT !.taken_at = clock]

TakeTime(t) ==
    /\ pc[t] = "clock"
    /\ ~Measuring(t) \/ prev[t] # None
    /\ reading' = [reading EXCEPT ![t] = Dated(t)]
    /\ Go(t, Read(t))
    /\ UNCHANGED <<world, sampler, wait, limit, prev, calls, log>>

\* The first reading of a one-shot ratio is what it measures from.
TakeStart(t) ==
    /\ pc[t] = "clock"
    /\ Measuring(t) /\ prev[t] = None
    /\ prev' = [prev EXCEPT ![t] = Dated(t)]
    /\ Go(t, "sleep")
    /\ UNCHANGED <<world, sampler, wait, limit, reading, calls, log>>

\* time.sleep, or asyncio.sleep.
Wake(t) ==
    /\ pc[t] = "sleep"
    /\ ~Sleeps(t)
    /\ Go(t, "limit")
    /\ UNCHANGED <<world, sampler, locals, calls, log>>

\* Mutant of Acquire: the swap without its lock.
Barge(t) ==
    /\ pc[t] = "lock"
    /\ lock' = t
    /\ Go(t, "load")
    /\ UNCHANGED <<world, previous, locals, calls, log>>

Acquire(t) ==
    /\ pc[t] = "lock"
    /\ lock = None
    /\ lock' = t
    /\ Go(t, "load")
    /\ UNCHANGED <<world, previous, locals, calls, log>>

Load(t) ==
    /\ pc[t] = "load"
    /\ prev' = [prev EXCEPT ![t] = previous]
    /\ Go(t, "store")
    /\ UNCHANGED <<world, sampler, wait, limit, reading, calls, log>>

\* Mutant of Kept: the first reading stays the baseline.
KeepFirst(t) == IF previous = None THEN reading[t] ELSE previous

\* A call without a reading leaves the one kept.
Kept(t) == IF reading[t] # None THEN reading[t] ELSE previous

Store(t) ==
    /\ pc[t] = "store"
    /\ previous' = Kept(t)
    /\ swaps' = IF reading[t] # None THEN Append(swaps, <<prev[t], reading[t]>>) ELSE swaps
    /\ found' = limit[t]
    /\ before' = [before EXCEPT ![t] = found]
    /\ Go(t, "unlock")
    /\ UNCHANGED <<world, lock, locals, calls, loads>>

\* Mutant of Unlock: a call without a reading returns with the lock held.
UnlockWithReading(t) ==
    /\ pc[t] = "unlock"
    /\ lock' = IF reading[t] = None THEN lock ELSE None
    /\ Go(t, "report")
    /\ UNCHANGED <<world, previous, locals, calls, log>>

Unlock(t) ==
    /\ pc[t] = "unlock"
    /\ lock' = None
    /\ Go(t, "report")
    /\ UNCHANGED <<world, previous, locals, calls, log>>

\* Mutant of Comparable: the level of the limit is not compared.
ComparableCores(from, to) ==
    /\ to.cores = from.cores
    /\ to.taken_at - from.taken_at >= Shortest
    /\ to.cores > 0

\* _used_ratio reports: same limit, and a window long enough to measure over.
Comparable(from, to) ==
    /\ to.level = from.level
    /\ to.cores = from.cores
    /\ to.taken_at - from.taken_at >= Shortest
    /\ to.cores > 0

\* Mutant of UsedRatio: a restarted counter makes it negative.
UsedRatioUnclamped(from, to) ==
    LET of == (to.taken_at - from.taken_at) * to.cores
        used == to.usage - from.usage
    IN [part |-> IF used > of THEN of ELSE used, of |-> of]

\* The ratio it reports: what part of what the limit allows in the window, both
\* ends clamped.
UsedRatio(from, to) ==
    LET of == (to.taken_at - from.taken_at) * to.cores
        used == Max0(to.usage - from.usage)
    IN [part |-> IF used > of THEN of ELSE used, of |-> of]

\* The call returns a ratio, or None.  What it took of the kept reading goes.
Report(t) ==
    /\ pc[t] = "report"
    /\ loads' = IF reading[t] # None /\ prev[t] # None /\ Comparable(prev[t], reading[t])
                THEN loads \cup {[from |-> prev[t], to |-> reading[t],
                                  ratio |-> UsedRatio(prev[t], reading[t]), before |-> before[t], limit |-> limit[t],
                                  own |-> Measuring(t)]}
                ELSE loads
    /\ wait' = [wait EXCEPT ![t] = None]
    /\ reading' = [reading EXCEPT ![t] = None]
    /\ prev' = [prev EXCEPT ![t] = None]
    /\ limit' = [limit EXCEPT ![t] = None]
    /\ before' = [before EXCEPT ![t] = None]
    /\ Go(t, "idle")
    /\ UNCHANGED <<world, sampler, calls, swaps, found>>

Step(t) == \/ EvaluateLimit(t) \/ ReadCounter(t) \/ LoseCounter(t) \/ TakeTime(t)
           \/ TakeStart(t) \/ Wake(t)
           \/ Acquire(t) \/ Load(t) \/ Store(t) \/ Unlock(t) \/ Report(t)

Init ==
    /\ setting \in Settings
    /\ clock = 0
    /\ cap \in setting.caps \cup {None}
    /\ counter = [l \in Levels |-> 0]
    /\ consumed = [l \in Levels |-> 0]
    /\ changes = 0
    /\ previous = None
    /\ lock = None
    /\ pc = [t \in Threads |-> "idle"]
    /\ wait = [t \in Threads |-> None]
    /\ limit = [t \in Threads |-> None]
    /\ reading = [t \in Threads |-> None]
    /\ prev = [t \in Threads |-> None]
    /\ calls = [t \in Threads |-> 0]
    /\ swaps = <<>>
    /\ found = None
    /\ before = [t \in Threads |-> None]
    /\ loads = {}

Next == Machine \/ \E t \in Threads : Sample(t) \/ Measure(t) \/ Step(t)

Spec == Init /\ [][Next]_vars

\* A thread that is in a call is scheduled until it returns, and time goes on.
FairSpec == Spec /\ WF_vars(Time) /\ \A t \in Threads : WF_vars(Step(t))

----------------------------------------------------------------------------
(* Properties.                                                             *)

Pc == {"idle", "limit", "counter", "clock", "sleep", "lock", "load", "store", "unlock", "report"}

\* The types of the variables; a counter never says more than was consumed.
TypeOK ==
    /\ setting \in Settings
    /\ clock \in Nat
    /\ cap \in Caps \cup {None}
    /\ counter \in [Levels -> Nat]
    /\ consumed \in [Levels -> Nat]
    /\ \A l \in Levels : counter[l] <= consumed[l]
    /\ changes \in Nat
    /\ previous \in Readings \cup {None}
    /\ lock \in Threads \cup {None}
    /\ pc \in [Threads -> Pc]
    /\ wait \in [Threads -> Nat \cup {None}]
    /\ limit \in [Threads -> Caps \cup {None}]
    /\ reading \in [Threads -> Readings \cup {None}]
    /\ prev \in [Threads -> Readings \cup {None}]
    /\ calls \in [Threads -> Nat]
    /\ swaps \in Seq((Readings \cup {None}) \X Readings)
    /\ found \in Caps \cup {None}
    /\ before \in [Threads -> Caps \cup {None}]
    /\ loads \subseteq [from : Readings, to : Readings, ratio : [part : Nat, of : Nat],
                        before : Caps \cup {None}, limit : Caps \cup {None}, own : BOOLEAN]

\* The swaps form one chain: each call that took a reading measures from the
\* very reading the swap before it put in.
SwapsChain ==
    \A i \in 1..Len(swaps) : swaps[i][1] = IF i = 1 THEN None ELSE swaps[i - 1][2]

\* What the lock of CpuLoad is there for: whatever the threads do, the sampler
\* goes from one reading to the next as if each swap were a single step, so no
\* reading is the baseline of two calls and none that was put in is passed over.
Atomic == INSTANCE AtomicSampler WITH Values <- Readings, kept <- previous
SwapsAtomically == Atomic!Spec

\* Two loads reported by the sampler never cover the same stretch of time: "each
\* sample() returns the load since the previous sample() on the same object".
WindowsDisjoint ==
    \A x, y \in loads : \/ x = y \/ x.own \/ y.own
                        \/ x.to.taken_at <= y.from.taken_at
                        \/ y.to.taken_at <= x.from.taken_at

\* "Give each caller a sampler of its own": then they never do.
SoleCaller == \A t, u \in setting.callers : t = u
OwnWindowsDisjoint == SoleCaller => WindowsDisjoint

\* A reported ratio is between 0 and 1 and never stands for more CPU time than
\* its level consumed between the two readings, whichever limits moved and groups
\* restarted: that of a sampler with one caller, and that of a one-shot ratio
\* next to any others.  How long the window is between the two looks at the
\* counter is not its matter, nor that a restart may make the ratio too low.
LoadNeverInflated ==
    \A x \in loads : SoleCaller \/ x.own
      => x.ratio.part \in 0..x.ratio.of /\ x.ratio.part <= x.to.seen - x.from.seen

\* "None ... when the limit changed since the previous call": a load is reported
\* only where the previous call of sample() had found the same limit.
NoLoadAcrossLimitChange == \A x \in loads : x.own \/ x.before = x.limit

\* No call waits for ever: sharing the sampler neither deadlocks it nor leaves
\* the lock held, and a sleep ends.
EveryCallReturns == \A t \in Threads : pc[t] # "idle" ~> pc[t] = "idle"

----------------------------------------------------------------------------
(* The inductive invariant CpuSamplerProofs rests on.                      *)

\* The lock is held from the load to the release, by the thread that does them.
LockInv == \A t \in Threads : pc[t] \in {"load", "store", "unlock"} => lock = t

\* What a call has when it reaches the steps that use it.
StepInv == \A t \in Threads : /\ pc[t] = "counter" => limit[t] \in Caps
                              /\ pc[t] = "clock" => reading[t] \in Readings
                              /\ pc[t] = "sleep" => prev[t] \in Readings /\ wait[t] \in Nat

LastIn == IF swaps = <<>> THEN None ELSE swaps[Len(swaps)][2]

\* The reading kept is the last one put in, and what a thread has loaded and not
\* yet replaced is still the one kept.
KeptInv == /\ previous = LastIn
           /\ \A t \in Threads : pc[t] = "store" => prev[t] = previous

\* Who is in a call, and what the call holds before it has a reading.
CallInv == \A t \in Threads : /\ pc[t] # "idle" => t \in setting.callers
                              /\ pc[t] = "counter" => reading[t] = None
                              /\ pc[t] \in {"lock", "load", "store", "unlock"} => ~Measuring(t)

\* Since a reading was taken, its counter has not gone up by more than was
\* consumed, so a reading taken later does not show more.
Behind(r) == r # None => /\ r.seen <= consumed[r.level]
                         /\ counter[r.level] - r.usage <= consumed[r.level] - r.seen
Grows(x, y) == x # None /\ y # None /\ x.level = y.level => Max0(y.usage - x.usage) <= y.seen - x.seen

\* What is reported was measured between two readings of one limit.
Aged(x) == /\ Comparable(x.from, x.to)
           /\ x.ratio = UsedRatio(x.from, x.to)
           /\ x.own => Grows(x.from, x.to)

AgeInv == /\ Behind(previous)
          /\ \A t \in Threads : /\ Behind(reading[t]) /\ Behind(prev[t])
                                /\ Measuring(t) /\ pc[t] \in {"clock", "report"} => Grows(prev[t], reading[t])
          /\ \A x \in loads : Aged(x)

\* Where one thread calls, the reading kept is older than the one it is about to
\* be swapped for, and no older than the end of any load.
SoleInv ==
    SoleCaller =>
      /\ previous # None => previous.taken_at <= clock
      /\ \A t \in Threads : ~Measuring(t) /\ reading[t] # None =>
           /\ pc[t] \in {"clock", "lock", "load", "store"} => Grows(previous, reading[t])
           /\ pc[t] \in {"lock", "load", "store"} =>
                /\ reading[t].taken_at <= clock
                /\ previous # None => previous.taken_at <= reading[t].taken_at
           /\ pc[t] \in {"unlock", "report"} =>
                /\ previous = reading[t] /\ Grows(prev[t], reading[t])
                /\ \A x \in loads : ~x.own => prev[t] # None /\ x.to.taken_at <= prev[t].taken_at
      /\ \A x \in loads : ~x.own => /\ previous # None /\ x.to.taken_at <= previous.taken_at
                                    /\ Grows(x.from, x.to)
      /\ WindowsDisjoint

IInv == TypeOK /\ LockInv /\ StepInv /\ KeptInv /\ SwapsChain /\ CallInv /\ AgeInv /\ SoleInv
=============================================================================
