--------------------------- MODULE MCWindowsJob ----------------------------
(***************************************************************************)
(* Values of the constants of WindowsJob for its run.                      *)
(***************************************************************************)
EXTENDS WindowsJob

Control(flags, low, high) == [flags |-> flags, low |-> low, high |-> high]

\* No rate control, a hard cap of a half that is switched off, one of a quarter,
\* a range up to three quarters, and a weight.
AnyControl == {Control({}, 0, 0), Control({"hard"}, 2, 0), Control({"enable", "hard"}, 1, 0),
               Control({"enable", "range"}, 1, 3), Control({"enable", "weight"}, 2, 0)}

\* No affinity, one processor of the last group alone, and one of each.
AnyAffinity == {None, <<{}, {0}>>, <<{0}, {0}>>}

AnyLimits == [memory |-> {None, 1, 3}, process |-> {None, 2}, control |-> AnyControl,
              affinity |-> AnyAffinity]

\* Any memory limits, or any limits of the CPU; a job of both comes by a change.
SomeJobs == {j \in JobType : \/ j.control = Control({}, 0, 0) /\ j.affinity = None
                             \/ j.memory = None /\ j.process = None}

\* Two groups of unequal size, and one group; with and without a ceiling.
AnyHosts == {[ceiling |-> 3, headroom |-> 2, groups |-> <<{0, 1}, {0, 1}>>, here |-> 1],
             [ceiling |-> 4, headroom |-> 2, groups |-> <<{0, 1}, {0}>>, here |-> 2],
             [ceiling |-> None, headroom |-> 4, groups |-> <<{0, 1, 2}>>, here |-> 1]}
=============================================================================
