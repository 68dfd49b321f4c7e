-------------------------- MODULE CgroupDiscovery --------------------------
(***************************************************************************)
(* locate_controllers() on any machine: the mounts that cover the process, *)
(* the interface, the hierarchy each metric is located in, and what of the *)
(* limits the kernel enforces the chains located then show, while          *)
(* controllers are enabled and disabled between any two looks at a file.   *)
(*                                                                         *)
(* A hierarchy is the set of the v1 controllers mounted together, or {}    *)
(* for the unified one.  A group is the path of names below the root of    *)
(* its hierarchy as this process sees it; a directory of a mount stands    *)
(* for the group it shows.                                                 *)
(***************************************************************************)
EXTENDS Naturals, Sequences, SequencesExt, FiniteSets

CONSTANTS
    Names,         \* what groups are called
    Machines,      \* the machines and the places of the process in them
    Conventional,  \* /sys/fs/cgroup
    MaxChanges,    \* bound: changes of the controllers and limits of a group
    None

Controllers == {"memory", "cpu", "cpuset", "cpuacct", "hugetlb"}
Unified == {}
Outside == <<"..">>

\* real: whether <<>> is the root of the hierarchies or that of a cgroup
\* namespace, which has a parent this process cannot name.
Parent(g) == IF g = <<>> THEN Outside ELSE Front(g)

\* proc: whether /proc can be read.  mounts: the cgroup mounts, in the order
\* made.  own: the lines of /proc/self/cgroup.  bound: the controllers of the
\* unified hierarchy.  control: cgroup.subtree_control.
Machine(mc) ==
    /\ DOMAIN mc = {"proc", "real", "mounts", "own", "groups", "bound", "control"}
    /\ mc.proc \in BOOLEAN /\ mc.real \in BOOLEAN
    /\ mc.bound \subseteq Controllers
    /\ \A h \in DOMAIN mc.groups : mc.groups[h] \subseteq Seq(Names)
    /\ \A h \in DOMAIN mc.own : mc.own[h] \in Seq(Names)
    /\ mc.mounts \in Seq({mc.mounts[i] : i \in DOMAIN mc.mounts})
    /\ \A i \in DOMAIN mc.mounts :
         /\ DOMAIN mc.mounts[i] = {"hierarchy", "root", "point"}
         /\ mc.mounts[i].hierarchy \in DOMAIN mc.groups
         /\ mc.mounts[i].root \in mc.groups[mc.mounts[i].hierarchy]
    /\ \A h \in DOMAIN mc.groups : h \subseteq Controllers \ mc.bound
    /\ \A h, k \in DOMAIN mc.groups : h = k \/ h \cap k = {}
    /\ \A h \in DOMAIN mc.groups : \A g \in mc.groups[h] : g = <<>> \/ Front(g) \in mc.groups[h]
    /\ DOMAIN mc.own \subseteq DOMAIN mc.groups
    /\ Unified \in DOMAIN mc.groups
    /\ mc.control \in [mc.groups[Unified] \cup {Outside} -> SUBSET mc.bound]
    /\ \A g \in mc.groups[Unified] :
         (g = <<>> /\ mc.real) \/ mc.control[g] \subseteq mc.control[Parent(g)]

ASSUME MachineAssumption == \A mc \in Machines : Machine(mc)
ASSUME BoundAssumption == MaxChanges \in Nat
ASSUME NamesAssumption == ".." \notin Names
ASSUME NoneAssumption ==
    /\ None \notin Seq(Names) /\ None \notin {"v1", "v2"}
    /\ \A mc \in Machines :
         LET mounts == {mc.mounts[i] : i \in DOMAIN mc.mounts}
         IN  /\ None \notin mounts /\ None \notin Seq(mounts \cup {None})
             /\ None \notin [mount : mounts, dirs : SUBSET Seq(Names)]

Limits == {"memory", "cpu_quota", "cpu_set"}
Metrics == {"memory", "cpu_quota", "cpu_usage", "cpu_set"}

\* _Metric: the controller of a metric, as cgroup v1 names it.
Carrier == [memory |-> "memory", cpu_quota |-> "cpu", cpu_usage |-> "cpuacct", cpu_set |-> "cpuset"]

VARIABLES
    machine,    \* where the process is
    control,    \* control[g]: the controllers g enables for its children
    limits,     \* the limits set: [metric, hierarchy, group]
    changes,    \* bound: changes of the above still to come
    pc,         \* the step of locate_controllers(), or "located"
    picked,     \* the _Hierarchies: [unified, v1], each entry a mount or None
    queue,      \* the mounts to probe for the metric at hand, None before they are known
    at,         \* the group the probe looks at next, None between two mounts
    interface,  \* Controllers.interface
    located,    \* located[metric]: the Controller a metric is read through, or None
    quiet       \* history: no controller was enabled or disabled since the discovery began

kernel == <<machine, control, limits, changes>>
program == <<pc, picked, queue, at, interface, located>>
vars == <<kernel, program, quiet>>

----------------------------------------------------------------------------
(* The kernel.                                                             *)

RealRoot(g) == g = <<>> /\ machine.real

\* cgroup.controllers of a group of the unified hierarchy.
Available(g) == IF RealRoot(g) \/ g = Outside THEN machine.bound ELSE control[Parent(g)]

\* Whether a group has the file a metric is probed by.  The root has neither
\* memory.current nor cpu.max; every v2 group has cpu.stat.
HasFile(m, h, g) ==
    /\ g \in machine.groups[h]
    /\ \/ h # Unified
       \/ m = "cpu_usage"
       \/ /\ Carrier[m] \in Available(g)
          /\ m = "cpu_set" \/ ~RealRoot(g)

\* Where a limit of a metric can be set.
Limitable(m, h, g) ==
    /\ ~RealRoot(g)
    /\ HasFile(m, h, g)
    /\ h # Unified => Carrier[m] \in h

\* The levels whose limits bind this process.
Above(h) == {g \in machine.groups[h] : IsPrefix(g, machine.own[h])}
Binding(m) ==
    {l \in limits : l.metric = m /\ l.hierarchy \in DOMAIN machine.own /\ l.group \in Above(l.hierarchy)}

Change ==
    /\ changes > 0
    /\ changes' = changes - 1
    /\ UNCHANGED <<machine, program>>

\* A group with processes of its own enables nothing for its children.
Enable(c, g) ==
    /\ c \in Available(g) \ control[g]
    /\ Unified \in DOMAIN machine.own => (g = machine.own[Unified] => RealRoot(g))
    /\ control' = [control EXCEPT ![g] = @ \cup {c}]
    /\ quiet' = FALSE
    /\ UNCHANGED limits
    /\ Change

\* The files of the children go, and the limits in them.
Disable(c, g) ==
    /\ c \in control[g]
    /\ \A k \in DOMAIN control \ {Outside} : Parent(k) = g => c \notin control[k]
    /\ control' = [control EXCEPT ![g] = @ \ {c}]
    /\ limits' = {l \in limits : ~(/\ l.hierarchy = Unified /\ Carrier[l.metric] = c
                                   /\ Parent(l.group) = g)}
    /\ quiet' = FALSE
    /\ Change

SetLimit(m, h, g) ==
    LET l == [metric |-> m, hierarchy |-> h, group |-> g] IN
    /\ Limitable(m, h, g)
    /\ limits' = IF l \in limits THEN limits \ {l} ELSE limits \cup {l}
    /\ UNCHANGED <<control, quiet>>
    /\ Change

Kernel ==
    \/ \E g \in DOMAIN control : \E c \in machine.bound :
         (g = Outside => ~machine.real) /\ (Enable(c, g) \/ Disable(c, g))
    \/ \E m \in Limits, h \in DOMAIN machine.groups : \E g \in machine.groups[h] : SetLimit(m, h, g)

----------------------------------------------------------------------------
(* The mounts that count.                                                  *)

\* _own_path_within_mount: the own path below the mount point, which is empty
\* where the mount shows other groups.
Within(mount) ==
    LET own == machine.own[mount.hierarchy]
    IN  IF IsPrefix(mount.root, own) THEN SubSeq(own, Len(mount.root) + 1, Len(own)) ELSE <<>>

\* _candidate_dirs, as the groups the directories show; the own one is the deepest.
Deepest(mount) == mount.root \o Within(mount)
Dirs(mount) == {mount.root \o SubSeq(Within(mount), 1, n) : n \in 0..Len(Within(mount))}

\* Mutant of CoversOwnCgroup: the top of a mount is there, whoever it belongs to.
CoversAnything(mount) == Deepest(mount) \in machine.groups[mount.hierarchy]

\* _covers_own_cgroup.
CoversOwnCgroup(mount) ==
    /\ IsPrefix(mount.root, machine.own[mount.hierarchy])
    /\ Deepest(mount) \in machine.groups[mount.hierarchy]

Mounts == {machine.mounts[i] : i \in DOMAIN machine.mounts}

\* The first of the mounts among some, or None.
FirstOf(among) ==
    LET places == {i \in DOMAIN machine.mounts : machine.mounts[i] \in among}
    IN  IF places = {} THEN None
        ELSE machine.mounts[CHOOSE i \in places : \A j \in places : i <= j]

Covering == {mount \in Mounts : mount.hierarchy \in DOMAIN machine.own /\ CoversOwnCgroup(mount)}

\* _pick_unified: the conventional mount point wins, then the order.
PickUnified ==
    LET covering == {mount \in Covering : mount.hierarchy = Unified}
        conventional == {mount \in covering : mount.point = Conventional}
    IN  FirstOf(IF conventional # {} THEN conventional ELSE covering)

PickV1(c) == FirstOf({mount \in Covering : c \in mount.hierarchy})

V1Names == {Carrier[m] : m \in Metrics}

Hierarchies == [unified |-> PickUnified, v1 |-> [c \in V1Names |-> PickV1(c)]]

----------------------------------------------------------------------------
(* locate_controllers().                                                   *)

After == [memory |-> "cpu_quota", cpu_quota |-> "cpu_usage", cpu_usage |-> "cpu_set",
          cpu_set |-> "located"]

Nothing == [m \in Metrics |-> None]
NoMounts == [unified |-> None, v1 |-> [c \in V1Names |-> None]]

\* _read_hierarchies, or the end of it where /proc cannot be read.
ReadHierarchies ==
    /\ pc = "start"
    /\ \/ /\ ~machine.proc
          /\ pc' = "located"
          /\ UNCHANGED picked
       \/ /\ machine.proc
          /\ picked' = Hierarchies
          /\ pc' = "interface"
    /\ quiet' = TRUE
    /\ UNCHANGED <<kernel, queue, at, interface, located>>

\* _bound_controllers: cgroup.controllers at the top of the mount.
BoundControllers == IF picked.unified = None THEN {} ELSE Available(picked.unified.root)

HoldsV1 == \E c \in V1Names : picked.v1[c] # None

\* Mutant of Interface: a unified mount answers whatever is bound to it.
InterfaceByMount ==
    IF picked.unified # None THEN "v2" ELSE IF HoldsV1 THEN "v1" ELSE None

\* _interface.
Interface ==
    IF BoundControllers \cap V1Names # {} THEN "v2"
    ELSE IF HoldsV1 THEN "v1"
    ELSE IF picked.unified # None THEN "v2" ELSE None

NameInterface ==
    /\ pc = "interface"
    /\ interface' = Interface
    /\ pc' = "memory"
    /\ UNCHANGED <<kernel, picked, queue, at, located, quiet>>

\* Mutant of Candidates: the time is looked for like the limits.
CandidatesUnifiedFirst(m) ==
    <<picked.unified, picked.v1[Carrier[m]]>>

\* The mounts a metric is looked for in: the unified one and then the v1 one.
\* The unified one counts CPU time first only where it carries the CPU
\* controller, and last in any case (_locate_controller, _locate_cpu_usage).
Candidates(m) ==
    LET first == IF m # "cpu_usage" \/ "cpu" \in BoundControllers THEN <<picked.unified>> ELSE <<>>
        last == IF m = "cpu_usage" THEN <<picked.unified>> ELSE <<>>
    IN  first \o <<picked.v1[Carrier[m]]>> \o last

\* The walk enters the first of these mounts, if that is one.
Enter(mounts) ==
    /\ queue' = mounts
    /\ at' = IF mounts = <<>> \/ Head(mounts) = None THEN None ELSE Deepest(Head(mounts))

StartMetric ==
    /\ pc \in Metrics
    /\ queue = None
    /\ Enter(Candidates(pc))
    /\ UNCHANGED <<kernel, pc, picked, interface, located, quiet>>

\* Mutant of Chain: only the levels that carry the file today.
ChainCarrying(mount) == {g \in Dirs(mount) : HasFile(pc, mount.hierarchy, g)}

\* "The whole chain, not only the levels carrying the controller today".
Chain(mount) == Dirs(mount)

\* The Controller a metric is read through.
Controller(mount) == [mount |-> mount, dirs |-> Chain(mount)]

Conclude(controller) ==
    /\ located' = [located EXCEPT ![pc] = controller]
    /\ queue' = None
    /\ at' = None
    /\ pc' = After[pc]

\* _controller_in and _first_with: the own group first, then its ancestors; a
\* mount with the file on some level is the one.
Probe ==
    /\ pc \in Metrics
    /\ at # None
    /\ LET mount == Head(queue) IN
       \/ /\ HasFile(pc, mount.hierarchy, at)
          /\ Conclude(Controller(mount))
       \/ /\ ~HasFile(pc, mount.hierarchy, at)
          /\ at # mount.root
          /\ at' = Front(at)
          /\ UNCHANGED <<pc, queue, located>>
       \/ /\ ~HasFile(pc, mount.hierarchy, at)
          /\ at = mount.root
          /\ Enter(Tail(queue))
          /\ UNCHANGED <<pc, located>>
    /\ UNCHANGED <<kernel, picked, interface, quiet>>

\* There is no such hierarchy.
Skip ==
    /\ queue \notin {None, <<>>}
    /\ at = None
    /\ Enter(Tail(queue))
    /\ UNCHANGED <<kernel, pc, picked, interface, located, quiet>>

\* No hierarchy carries the metric.
GiveUp ==
    /\ pc \in Metrics
    /\ queue = <<>>
    /\ Conclude(None)
    /\ UNCHANGED <<kernel, picked, interface, quiet>>

\* clear_cache(): the next reading begins anew.
ClearCache ==
    /\ pc = "located"
    /\ pc' = "start"
    /\ picked' = NoMounts
    /\ interface' = None
    /\ located' = Nothing
    /\ UNCHANGED <<kernel, queue, at, quiet>>

Init ==
    /\ machine \in Machines
    /\ control = machine.control
    /\ limits = {}
    /\ changes = MaxChanges
    /\ pc = "start"
    /\ picked = NoMounts
    /\ queue = None
    /\ at = None
    /\ interface = None
    /\ located = Nothing
    /\ quiet = TRUE

Next == Kernel \/ ReadHierarchies \/ NameInterface \/ StartMetric \/ Probe \/ Skip \/ GiveUp \/ ClearCache

Spec == Init /\ [][Next]_vars

----------------------------------------------------------------------------
(* What the sources and notices say of it.                                 *)

\* sources(): whether a metric has a source at all; where it has none the
\* sensor says that no mechanism is mounted.
HasSource(m) == located[m] # None \/ interface # None

\* mechanism_notices(): MEMORY_ANCESTORS_HIDDEN or CPU_ANCESTORS_HIDDEN.
Truncated(among) == \E m \in among : located[m] # None /\ located[m].mount.root # <<>>
AncestorsHidden(m) == Truncated(IF m = "memory" THEN {"memory"} ELSE Metrics \ {"memory"})

----------------------------------------------------------------------------
(* Properties.                                                             *)

\* The types of the variables.
TypeOK ==
    /\ machine \in Machines
    /\ control \in [DOMAIN machine.control -> SUBSET machine.bound]
    /\ \A l \in limits : /\ l.metric \in Limits /\ l.hierarchy \in DOMAIN machine.groups
                        /\ l.group \in machine.groups[l.hierarchy]
    /\ changes \in 0..MaxChanges
    /\ pc \in {"start", "interface", "located"} \cup Metrics
    /\ picked.unified \in Mounts \cup {None}
    /\ picked.v1 \in [V1Names -> Mounts \cup {None}]
    /\ queue \in Seq(Mounts \cup {None}) \cup {None}
    /\ at \in Seq(Names) \cup {None}
    /\ interface \in {"v1", "v2", None}
    /\ located \in [Metrics -> [mount : Mounts, dirs : SUBSET Seq(Names)] \cup {None}]
    /\ quiet \in BOOLEAN

\* Every directory of a located chain belongs to the process: its group is
\* one the process is in, and the group of the process itself is among them,
\* however many mounts show other parts of the same hierarchy.
OwnGroupsOnly ==
    \A m \in Metrics : located[m] # None =>
      LET own == machine.own[located[m].mount.hierarchy]
      IN  own \in located[m].dirs /\ \A g \in located[m].dirs : IsPrefix(g, own)

\* Whether the chain located for a metric shows a limit.  The effective CPU set
\* of any level accounts for those above it.
Shows(m, l) ==
    /\ located[m].mount.hierarchy = l.hierarchy
    /\ \/ l.group \in located[m].dirs
       \/ m = "cpu_set" /\ \E g \in located[m].dirs : HasFile(m, l.hierarchy, g)

\* A limit that binds the process on a located metric is read, or the notice
\* says that something above is hidden: also one set after the discovery, on a
\* level whose controller was enabled after it ("`systemctl set-property` can
\* enable a controller on a parent at runtime").
NothingHiddenSilently ==
    pc = "located" =>
      \A m \in Limits : located[m] # None =>
        \A l \in Binding(m) : Shows(m, l) \/ AncestorsHidden(m)

\* Where no controller moved meanwhile, the interface named for the machine is
\* the one its limits come through: v1 and nothing bound to v2 mean that no
\* limit is read through the other one, and no interface that none is read.
InterfaceIsHome ==
    pc = "located" /\ quiet =>
      \A m \in Limits : located[m] # None =>
        /\ HasSource("memory") /\ interface # None
        /\ interface = "v1" => located[m].mount.hierarchy # Unified
        /\ interface = "v2" /\ BoundControllers \cap V1Names = {} => located[m].mount.hierarchy = Unified

\* Where no controller moved meanwhile, time is counted in the hierarchy that
\* limits it, wherever that interface counts any at all: a hybrid machine's
\* controller-less unified mount never answers for its v1 quota.
CounterBesideQuota ==
    pc = "located" /\ quiet /\ located["cpu_quota"] # None =>
      /\ located["cpu_usage"] = None => ~\E mount \in Covering : "cpuacct" \in mount.hierarchy
      /\ located["cpu_quota"].mount.hierarchy = Unified => located["cpu_usage"] = located["cpu_quota"]
      /\ /\ located["cpu_quota"].mount.hierarchy # Unified
         /\ \E mount \in Covering : "cpuacct" \in mount.hierarchy
         => located["cpu_usage"].mount.hierarchy # Unified

\* "A container can be given a subtree as its whole cgroup filesystem": where
\* every mount that covers the process stops below a limit that binds it, the
\* notice says so.
SubtreeReported ==
    pc = "located" =>
      \A m \in Limits : \A l \in Binding(m) :
        LET showing == {mount \in Covering : mount.hierarchy = l.hierarchy}
        IN  showing # {} /\ (\A mount \in showing : l.group \notin Dirs(mount)) => AncestorsHidden(m)

----------------------------------------------------------------------------
(* The inductive invariant CgroupDiscoveryProofs rests on.                 *)

\* The mount shows groups the process is in.
ShowsOwn(mount) == /\ mount \in Mounts
                   /\ mount.hierarchy \in DOMAIN machine.own
                   /\ IsPrefix(mount.root, machine.own[mount.hierarchy])

PickInv == /\ picked.unified # None => ShowsOwn(picked.unified) /\ picked.unified.hierarchy = Unified
           /\ \A c \in V1Names : picked.v1[c] # None => ShowsOwn(picked.v1[c]) /\ c \in picked.v1[c].hierarchy

\* The walk over a chain is at one of its groups.
WalkInv ==
    /\ queue # None => pc \in Metrics /\ \A i \in DOMAIN queue : queue[i] # None => ShowsOwn(queue[i])
    /\ at # None => /\ queue \notin {None, <<>>} /\ Head(queue) # None
                    /\ at \in Dirs(Head(queue))

LocatedInv == \A m \in Metrics : located[m] # None =>
    ShowsOwn(located[m].mount) /\ located[m].dirs = Dirs(located[m].mount)

\* The kernel binds a controller to one hierarchy, so the limits of a metric and
\* the mount it is located through are of the same one.
Houses(h, m) == IF h = Unified THEN Carrier[m] \in machine.bound ELSE Carrier[m] \in h

HomeInv ==
    /\ \A l \in limits : Houses(l.hierarchy, l.metric)
    /\ queue # None => \A i \in DOMAIN queue : queue[i] # None =>
         queue[i].hierarchy = Unified \/ Carrier[pc] \in queue[i].hierarchy
    /\ \A m \in Limits : located[m] # None => Houses(located[m].mount.hierarchy, m)

ChainInv == TypeOK /\ PickInv /\ WalkInv /\ LocatedInv /\ HomeInv

\* A group has available what its ancestors enable, all the way up.
TreeInv ==
    \A g \in machine.groups[Unified] : RealRoot(g) \/ control[g] \subseteq control[Parent(g)]

\* What is known at each step: nothing, then the mounts, then all the rest.
BegunInv ==
    /\ picked = IF pc = "start" \/ ~machine.proc THEN NoMounts ELSE Hierarchies
    /\ pc \in {"start", "interface"} => located = Nothing /\ interface = None
    /\ ~machine.proc => pc \in {"start", "located"} /\ located = Nothing

\* While no controller moves, a limit comes through the unified hierarchy only
\* where the top of its mount has the controller, as the interface has it.
InterfaceInv ==
    /\ quiet /\ pc \notin {"start", "interface"} => interface = Interface
    /\ queue # None => \A i \in DOMAIN queue : queue[i] \in {picked.unified, picked.v1[Carrier[pc]]}
    /\ \A m \in Limits : located[m] # None =>
         /\ located[m].mount \in {picked.unified, picked.v1[Carrier[m]]}
         /\ quiet /\ located[m].mount.hierarchy = Unified => Carrier[m] \in BoundControllers

\* Every level that covers the process counts time, so the first of the mounts
\* it is looked for in is the one, at the own group.
Counter ==
    IF "cpu" \in BoundControllers \/ picked.v1["cpuacct"] = None
    THEN picked.unified ELSE picked.v1["cpuacct"]

CounterInv ==
    /\ quiet /\ pc = "cpu_usage" /\ queue # None =>
         /\ \/ queue = Candidates("cpu_usage")
            \/ /\ "cpu" \notin BoundControllers /\ picked.v1["cpuacct"] = None
               /\ queue = <<picked.unified>>
            \/ Counter = None /\ queue = <<>>
         /\ at = IF queue = <<>> \/ Head(queue) = None THEN None ELSE Deepest(Head(queue))
    /\ quiet /\ pc \in {"cpu_set", "located"} =>
         located["cpu_usage"] = IF Counter = None THEN None ELSE Controller(Counter)

QuietInv == TreeInv /\ BegunInv /\ InterfaceInv /\ CounterInv

IInv == ChainInv /\ QuietInv
=============================================================================
