------------------------- MODULE MCCgroupDiscovery -------------------------
(***************************************************************************)
(* Values of the constants of CgroupDiscovery for its runs.                *)
(***************************************************************************)
EXTENDS CgroupDiscovery, TLC

CONSTANTS sys, sys2

A == <<"a">>
AB == <<"a", "b">>
X == <<"x">>
Tree == {<<>>, A, AB, X}

Mount(h, root, point) == [hierarchy |-> h, root |-> root, point |-> point]
Bound == {"memory", "cpu", "cpuset"}

\* The process is in a/b of every hierarchy there is.
On(mounts, hierarchies, bound, enabled) ==
    [proc |-> TRUE, real |-> TRUE, mounts |-> mounts,
     own |-> [h \in hierarchies |-> AB], groups |-> [h \in hierarchies \cup {Unified} |-> Tree],
     bound |-> bound,
     control |-> [g \in Tree \cup {Outside} |-> enabled[g]]]

Given(atRoot, atA) == (<<>> :> atRoot) @@ (A :> atA) @@ [g \in {AB, X, Outside} |-> {}]
Full == Mount(Unified, <<>>, sys)

\* One unified hierarchy, seen whole, in part, twice, or from a namespace.
V2Machines ==
    {On(mounts, {Unified}, Bound, Given(atRoot, atA)) :
       mounts \in {<<Full>>,
                   <<Mount(Unified, A, sys)>>,
                   <<Mount(Unified, AB, sys), Mount(Unified, <<>>, sys2)>>,
                   <<Mount(Unified, X, sys), Mount(Unified, <<>>, sys2)>>},
       atRoot \in {{"cpu"}, Bound}, atA \in {{}, {"cpu"}}}
Namespaced ==
    {[On(<<Full>>, {Unified}, Bound, Given({}, {})) EXCEPT
        !.real = FALSE, !.own = [h \in {Unified} |-> own]] : own \in {<<>>, A}}

\* v1, alone and beside a unified hierarchy that binds nothing, hugetlb or memory.
V1Mounts == <<Mount({"cpuset"}, <<>>, "cs"), Mount({"cpu", "cpuacct"}, A, "ca1"),
              Mount({"cpu", "cpuacct"}, <<>>, "ca2"), Mount({"memory"}, X, "m1"),
              Mount({"memory"}, A, "m2")>>
Hybrids ==
    LET some(hs) == SelectSeq(V1Mounts, LAMBDA mount : mount.hierarchy \in hs)
        v1 == {{"cpuset"}, {"cpu", "cpuacct"}, {"memory"}}
        rest == v1 \ {{"memory"}}
    IN  {On(some(v1), v1, {}, Given({}, {})),
         On(<<Full>> \o some(v1), v1 \cup {Unified}, {}, Given({}, {})),
         On(<<Full>> \o some(v1), v1 \cup {Unified}, {"hugetlb"}, Given({"hugetlb"}, {})),
         On(<<Full>> \o some(rest), rest \cup {Unified}, {"memory"}, Given({}, {})),
         On(<<Full, Mount({"cpu"}, <<>>, "c")>>, {{"cpu"}, {"cpuacct"}, Unified}, {}, Given({}, {})),
         On(<<Full, Mount({"cpu"}, <<>>, "c"), Mount({"cpuacct"}, A, "t")>>,
            {{"cpu"}, {"cpuacct"}, Unified}, {}, Given({}, {}))}

\* Nothing mounted, a group already removed, /proc closed.
Bare ==
    {On(<<>>, {Unified}, Bound, Given({}, {})),
     [On(<<Full>>, {Unified}, Bound, Given({}, {})) EXCEPT !.own = [h \in {Unified} |-> <<"a", "gone">>]],
     [On(<<Full>>, {Unified}, Bound, Given({}, {})) EXCEPT !.proc = FALSE]}

AnyMachine == V2Machines \cup Namespaced \cup Hybrids \cup Bare

\* A container given a subtree whose top enables nothing for its own children.
Contained == {On(<<Mount(Unified, AB, sys)>>, {Unified}, Bound, Given(Bound, {"cpu"}))}
=============================================================================
