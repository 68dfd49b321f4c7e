-------------------------- MODULE DiscoveryCache ---------------------------
(***************************************************************************)
(* locate_controllers() behind lru_cache(maxsize=1), clear_cache() and the *)
(* hook that clears it in a child of fork, against a system that moves     *)
(* processes between groups and removes groups.                            *)
(*                                                                         *)
(* What a discovery finds is reduced to the group it belongs to: the one   *)
(* /proc/self/cgroup named, or None where no controller was located.       *)
(***************************************************************************)
EXTENDS Integers, FiniteSets

CONSTANTS
    Processes,        \* the first process and the children it may fork
    First,            \* the process that is there from the start
    Threads,          \* all threads
    Of,               \* Of[t]: the process thread t belongs to
    Groups,           \* the cgroups of the hierarchy
    AncestorCarries,  \* whether a level above the groups carries the metric too
    MaxMoves,         \* bound: moves of a process
    MaxClears,        \* bound: calls of clear_cache() in a process
    None

ASSUME ProcessAssumption == First \in Processes /\ Of \in [Threads -> Processes]
ASSUME GroupAssumption == None \notin Groups /\ AncestorCarries \in BOOLEAN
ASSUME BoundAssumption == MaxMoves \in Nat /\ MaxClears \in Nat

VARIABLES
    born,     \* the processes that run
    home,     \* home[p]: the group process p is in
    alive,    \* the groups that exist
    moves,    \* moves[p]: how often p was moved
    cache,    \* cache[p]: the entry lru_cache holds in process p, or None
    clears,   \* clears[p]: how often clear_cache() was called in p
    pc,       \* pc[t]: the step of locate_controllers() thread t is at
    path,     \* path[t]: the group its discovery read from /proc/self/cgroup
    entry,    \* entry[t]: what its call answers with, or None
    began,    \* history: clears[p] when the call of thread t began
    calm      \* history: calm[p]: p has not moved since a clear that met no discovery

system == <<born, home, alive, moves>>
lookup == <<pc, path, entry>>
vars == <<system, cache, clears, lookup, began, calm>>

\* by and stamp are history fields: the process that discovered, and how often
\* it had cleared when the discovery began.
Entries == [group : Groups \cup {None}, by : Processes, stamp : Nat]

ASSUME EntryAssumption == None \notin Entries

\* A thread is discovering from its miss until it has stored what it found.
Discovering(t) == pc[t] \in {"path", "mount", "probe", "store"}
InFlight(p) == \E t \in Threads : Of[t] = p /\ Discovering(t)

----------------------------------------------------------------------------
(* The system.                                                             *)

Move(p, g) ==
    /\ p \in born
    /\ g \in alive
    /\ g # home[p]
    /\ moves[p] < MaxMoves
    /\ home' = [home EXCEPT ![p] = g]
    /\ moves' = [moves EXCEPT ![p] = @ + 1]
    /\ calm' = [calm EXCEPT ![p] = FALSE]
    /\ UNCHANGED <<born, alive, cache, clears, lookup, began>>

\* A group no process is in may be removed.
Remove(g) ==
    /\ g \in alive
    /\ \A p \in born : home[p] # g
    /\ alive' = alive \ {g}
    /\ UNCHANGED <<born, home, moves, cache, clears, lookup, began, calm>>

\* Mutant of AfterFork: the child keeps what it inherited.
Inherited(kept) == kept

\* os.register_at_fork(after_in_child=clear_cache).
AfterFork(kept) == None

\* The child starts in its parent's group.  Of the parent's threads it has only
\* the one that forked, and that one is in no discovery.
Fork(p, c) ==
    /\ p \in born
    /\ c \notin born
    /\ born' = born \cup {c}
    /\ home' = [home EXCEPT ![c] = home[p]]
    /\ cache' = [cache EXCEPT ![c] = AfterFork(cache[p])]
    /\ UNCHANGED <<alive, moves, clears, lookup, began, calm>>

----------------------------------------------------------------------------
(* The program.                                                            *)

Go(t, step) == pc' = [pc EXCEPT ![t] = step]

\* A reading asks for the controllers: a hit answers from the cache.
Ask(t) ==
    /\ Of[t] \in born
    /\ pc[t] = "idle"
    /\ began' = [began EXCEPT ![t] = clears[Of[t]]]
    /\ entry' = [entry EXCEPT ![t] = cache[Of[t]]]
    /\ Go(t, IF cache[Of[t]] # None THEN "answer" ELSE "path")
    /\ UNCHANGED <<system, cache, clears, path, calm>>

\* _read_own_paths, before the mount table is read.
ReadOwnPath(t) ==
    /\ pc[t] = "path"
    /\ path' = [path EXCEPT ![t] = home[Of[t]]]
    /\ Go(t, "mount")
    /\ UNCHANGED <<system, cache, clears, entry, began, calm>>

Found(t, group) ==
    entry' = [entry EXCEPT ![t] = [group |-> group, by |-> Of[t], stamp |-> began[t]]]

\* _pick_unified: a mount counts only where the own group exists under it.
PickMount(t) ==
    /\ pc[t] = "mount"
    /\ \/ path[t] \in alive /\ Go(t, "probe") /\ UNCHANGED entry
       \/ path[t] \notin alive /\ Go(t, "store") /\ Found(t, None)
    /\ UNCHANGED <<system, cache, clears, path, began, calm>>

\* _controller_in: some level of the chain has to carry the file.
Probe(t) ==
    /\ pc[t] = "probe"
    /\ Found(t, IF path[t] \in alive \/ AncestorCarries THEN path[t] ELSE None)
    /\ Go(t, "store")
    /\ UNCHANGED <<system, cache, clears, path, began, calm>>

\* lru_cache stores what was computed unless another thread has stored by now;
\* the call answers with what it computed either way.
Store(t) ==
    /\ pc[t] = "store"
    /\ cache' = [cache EXCEPT ![Of[t]] = IF @ = None THEN entry[t] ELSE @]
    /\ Go(t, "answer")
    /\ UNCHANGED <<system, clears, path, entry, began, calm>>

Answer(t) ==
    /\ pc[t] = "answer"
    /\ entry' = [entry EXCEPT ![t] = None]
    /\ path' = [path EXCEPT ![t] = None]
    /\ began' = [began EXCEPT ![t] = 0]
    /\ Go(t, "idle")
    /\ UNCHANGED <<system, cache, clears, calm>>

\* Mutant of Cleared: clear_cache() as on a platform with nothing discovered.
NotCleared(p) == cache[p]

Cleared(p) == None

\* clear_cache(), called by any thread of the process that is between readings.
ClearCache(t) ==
    LET p == Of[t] IN
    /\ p \in born
    /\ pc[t] = "idle"
    /\ clears[p] < MaxClears
    /\ cache' = [cache EXCEPT ![p] = Cleared(p)]
    /\ clears' = [clears EXCEPT ![p] = @ + 1]
    /\ calm' = [calm EXCEPT ![p] = ~InFlight(p)]
    /\ UNCHANGED <<system, lookup, began>>

\* locate_controllers(), until it has its answer.
Discover(t) == Ask(t) \/ ReadOwnPath(t) \/ PickMount(t) \/ Probe(t) \/ Store(t)

Init ==
    /\ born = {First}
    /\ home \in {[p \in Processes |-> g] : g \in Groups}
    /\ alive = Groups
    /\ moves = [p \in Processes |-> 0]
    /\ cache = [p \in Processes |-> None]
    /\ clears = [p \in Processes |-> 0]
    /\ pc = [t \in Threads |-> "idle"]
    /\ path = [t \in Threads |-> None]
    /\ entry = [t \in Threads |-> None]
    /\ began = [t \in Threads |-> 0]
    /\ calm = [p \in Processes |-> TRUE]

Next == \/ \E p \in Processes, g \in Groups : Move(p, g)
        \/ \E g \in Groups : Remove(g)
        \/ \E p, c \in Processes : Fork(p, c)
        \/ \E t \in Threads : Discover(t) \/ Answer(t) \/ ClearCache(t)

Spec == Init /\ [][Next]_vars

----------------------------------------------------------------------------
(* Properties.                                                             *)

\* The types of the variables; a process is always in a group that exists.
TypeOK ==
    /\ born \subseteq Processes
    /\ home \in [Processes -> Groups]
    /\ alive \subseteq Groups
    /\ \A p \in born : home[p] \in alive
    /\ moves \in [Processes -> Nat]
    /\ cache \in [Processes -> Entries \cup {None}]
    /\ clears \in [Processes -> Nat]
    /\ pc \in [Threads -> {"idle", "path", "mount", "probe", "store", "answer"}]
    /\ path \in [Threads -> Groups \cup {None}]
    /\ entry \in [Threads -> Entries \cup {None}]
    /\ began \in [Threads -> Nat]
    /\ calm \in [Processes -> BOOLEAN]

\* After a clear_cache() that met no discovery under way, and until the process
\* is moved again, every reading begun since answers for the group the process
\* is in, however many threads discover at once.
FreshAfterQuietClear ==
    \A t \in Threads : pc[t] = "answer" /\ calm[Of[t]] /\ began[t] = clears[Of[t]]
      => entry[t].group = home[Of[t]]

\* "A child of fork clears it on its own": no reading of a child answers with
\* what its parent discovered.
ChildForgets == \A t \in Threads : pc[t] = "answer" => entry[t].by = Of[t]

\* "The next reading locates the sources again": a reading begun after
\* clear_cache() answers with what was discovered after it.
NextReadingLocatesAgain == \A t \in Threads : pc[t] = "answer" => entry[t].stamp >= began[t]

----------------------------------------------------------------------------
(* The inductive invariant DiscoveryCacheProofs rests on.                  *)

\* A process not yet forked runs nothing.
BornInv == \A t \in Threads : Of[t] \notin born => pc[t] = "idle"

\* What is cached was discovered by the process itself and, while it is calm,
\* names the group the process is in.
CacheInv == \A p \in Processes : cache[p] # None =>
              cache[p].by = p /\ (calm[p] => cache[p].group = home[p])

\* So does what a discovery has on its way into the cache, and what a reading
\* begun since the clear answers with.
CallInv == \A t \in Threads :
    LET p == Of[t] IN
    /\ began[t] <= clears[p]
    /\ pc[t] \in {"mount", "probe"} /\ calm[p] => path[t] = home[p]
    /\ pc[t] \in {"store", "answer"} => entry[t] # None /\ entry[t].by = p
    /\ pc[t] = "store" /\ calm[p] => entry[t].group = home[p]
    /\ Discovering(t) /\ calm[p] => began[t] = clears[p]
    /\ pc[t] = "answer" /\ calm[p] /\ began[t] = clears[p] => entry[t].group = home[p]

IInv == TypeOK /\ BornInv /\ CacheInv /\ CallInv
=============================================================================
