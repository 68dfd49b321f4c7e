--------------------------- MODULE MCMemoryChain ---------------------------
(***************************************************************************)
(* Values of the constants of MemoryChain for its run.                     *)
(***************************************************************************)
EXTENDS MemoryChain

\* A kernel that charges, reclaims and writes back between any two reads, under
\* limits that stand.
Busy == [machine : {4}, mechanism : {"cgroup"}, keys : {StatKeys}, pages : {3},
         limits : {{2, 3, NoLimit}}, rewrites : {{}}, flaky : {{}}]

\* Files that stop answering and limits rewritten: an absent, a negative, a zero
\* and two positive ones.  Cgroup v1 before 3.12 carries neither key of the stat
\* file, before 4.2 only one.
Failing == [machine : {None, 2}, mechanism : {"cgroup", "none"}, keys : {{}, {"file_writeback"}},
            pages : {1}, limits : {{-1, 0, 1, 2, NoLimit}}, rewrites : {{1}},
            flaky : {{<<1, "limit">>, <<1, "charge">>, <<1, "stat">>, <<2, "stat">>}}]

\* The directory of the process, or the mount point, closed at any time, with
\* limits at both levels, or at one of them that is rewritten.
Closed == [machine : {4}, mechanism : {"cgroup"}, keys : {StatKeys}, pages : {1},
           limits : {{-1, 2, 3, NoLimit}}, rewrites : {{1}},
           flaky : {{<<1, "directory">>, <<1, "limit">>, <<1, "stat">>}, {<<2, "directory">>, <<2, "limit">>}}]

\* The limit of the mount point rewritten while pages come and go.
Squeezed == [machine : {4}, mechanism : {"cgroup"}, keys : {StatKeys}, pages : {2},
             limits : {{1, 2, NoLimit}}, rewrites : {{2}}, flaky : {{}}]

AnyHost == Busy \cup Failing \cup Closed \cup Squeezed
=============================================================================
