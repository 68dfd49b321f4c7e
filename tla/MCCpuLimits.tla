---------------------------- MODULE MCCpuLimits ----------------------------
(***************************************************************************)
(* Values of the constants of CpuLimits for its runs.                      *)
(***************************************************************************)
EXTENDS CpuLimits, TLC

V2(root, own) == [v2 |-> TRUE, root |-> root, own |-> own]
V1(root, own) == [v2 |-> FALSE, root |-> root, own |-> own]
Layout(interface, quotaChain, setChain, usageChain) ==
    [interface |-> interface, cpu_quota |-> quotaChain, cpu_set |-> setChain,
     cpu_usage |-> usageChain]

Unified == LET c == V2(<<>>, <<"a">>) IN Layout("v2", c, c, c)
Legacy == LET c == V1(<<>>, <<"a">>) IN Layout("v1", c, c, c)

\* A hybrid machine whose quota is v1 and whose time only v2 counts; a process
\* that is in another group of the accounting hierarchy; one nothing counts; one
\* mount of a subtree; nothing mounted; a hierarchy that binds neither limit.
OddLayouts == {Layout("v1", V1(<<>>, <<"a">>), None, V2(<<>>, <<"a">>)),
               Layout("v1", V1(<<>>, <<"a">>), V1(<<>>, <<"b">>), V1(<<>>, <<"b">>)),
               Layout("v1", V1(<<>>, <<"a">>), V1(<<>>, <<"a">>), None),
               LET c == V2(<<"a">>, <<"a">>) IN Layout("v2", c, c, c),
               Layout(None, None, None, None),
               Layout("v2", None, None, V2(<<>>, <<"a">>))}
AnyLayout == {Unified, Legacy} \cup OddLayouts

\* The cpu mount shows the subtree the process is in, the accounting mount all.
SplitLayouts == {Layout("v1", V1(<<"a">>, <<"a">>), None, V1(<<>>, <<"a">>))}

\* Files by group: the pair of a quota, the pair of a set, the counter.
StartOf(q, s, u) ==
    [f \in Kinds \X Groups |->
       CASE f[1] = "quota" -> q[f[2]][1]
         [] f[1] = "period" -> q[f[2]][2]
         [] f[1] = "effective" -> s[f[2]][1]
         [] f[1] = "set" -> s[f[2]][2]
         [] f[1] = "usage" -> u[f[2]]]
StartsOf(quotaPairs, setPairs, counters) ==
    {StartOf(q, s, u) : q \in [Groups -> quotaPairs], s \in [Groups -> setPairs], u \in counters}
Counted(groups) == [g \in Groups |-> IF g \in groups THEN 0 ELSE None]

\* Every layout and all kinds of contents, where nothing changes; the group
\* <<"b">> of OddLayouts has one set.
QuietStarts ==
    {f \in StartsOf({<<None, None>>, <<Unlimited, 2>>, <<-1, 2>>, <<1, 2>>, <<4, 2>>, <<1, 0>>},
                    {<<None, None>>, <<None, 1>>, <<2, Inherited>>, <<Inherited, 1>>},
                    {Counted(Groups), Counted({<<>>}), Counted(Groups \ {<<>>})}) :
       \A g \in Groups : g = <<"b">> => f[<<"quota", g>>] = None /\ f[<<"set", g>>] = 1}

\* The own directory of the process, closed in one hierarchy.
OwnDirectories == {"v2", "cpu_quota", "cpu_set"} \X {<<"a">>}

\* Two limited levels under either interface, where two changes are to come, or
\* where a directory is closed; and a configured set whose effective one is
\* absent, without a quota.
ChurnLayouts == {Unified, Legacy}
ChurnStarts ==
    {f \in StartsOf({<<None, None>>, <<1, 2>>, <<3, 2>>}, {<<None, None>>, <<1, 1>>}, {Counted(Groups)})
             \cup StartsOf({<<None, None>>}, {<<None, 1>>}, {Counted(Groups)}) :
       \A g \in Groups : g = <<"b">> => f[<<"quota", g>>] = None /\ f[<<"set", g>>] = 1}

CasesOf(layouts, starts, closed, n) ==
    {[layout |-> lay, file |-> f, barred |-> b, changes |-> n] :
       lay \in layouts, f \in starts, b \in closed}
QuietAndChurn ==
    CasesOf(AnyLayout, QuietStarts, {{}}, 0)
      \cup CasesOf(ChurnLayouts, ChurnStarts, {{}} \cup {{d} : d \in OwnDirectories}, 0)
      \cup CasesOf(ChurnLayouts, ChurnStarts, {{}}, 2)

ChurnContents == [quota |-> {None, Unlimited, 0, 1, 3}, period |-> {1, 2}, set |-> {None, Inherited, 1},
                  effective |-> {None, Inherited, 2}, usage |-> {None, 0}]
ChurnFiles == Kinds \X {<<>>, <<"a">>}
ChurnFlaky == {"quota", "period", "effective", "set"} \X {<<"a">>}

\* The split mounts, where nothing changes.
NoFiles == {}
SplitCases ==
    CasesOf(SplitLayouts, StartsOf({<<None, None>>, <<1, 2>>}, {<<None, None>>}, {Counted(Groups)}), {{}}, 0)
=============================================================================
