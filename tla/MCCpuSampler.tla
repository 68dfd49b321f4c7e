---------------------------- MODULE MCCpuSampler ----------------------------
(***************************************************************************)
(* Values of the constants of CpuSampler for its runs.                     *)
(***************************************************************************)
EXTENDS CpuSampler

CONSTANTS t1, t2

\* A limit on the own group, or one of as many cores on the pod above it, as
\* kubelet sets them, or another one on the own group.
AnyCap == {[cores |-> 1, level |-> "own"], [cores |-> 1, level |-> "pod"],
           [cores |-> 2, level |-> "own"]}
OneCap == {[cores |-> 1, level |-> "own"]}

\* The pod counts what the own group consumes and what its other group does.
PodWork == {[own |-> 1, pod |-> 1], [own |-> 0, pod |-> 1]}
Busy == {[own |-> 1, pod |-> 1]}

\* Threads that share a sampler, while a limit changes or a group is created anew.
Shared == [callers |-> {t1, t2}, caps |-> OneCap, works |-> Busy, fails |-> TRUE,
           intervals |-> {}, ticks |-> 1, changes |-> 1, calls |-> 2]

\* One of them may measure on its own meanwhile.
Mixed == [Shared EXCEPT !.fails = FALSE, !.intervals = {1}, !.changes = 0]

\* One caller, where limits change and move and groups are created anew: of a
\* sampler, and of the one-shot ratio, of which an interval of 0 is refused.
Solo == [callers |-> {t1}, caps |-> AnyCap, works |-> PodWork, fails |-> TRUE,
         intervals |-> {}, ticks |-> 2, changes |-> 2, calls |-> 3]
OneShot == [Solo EXCEPT !.intervals = {0, 1}, !.calls = 2, !.ticks = 1]

AnySetting == {Shared, Mixed, Solo, OneShot}

\* Threads that share a sampler under a limit that stands.
Overlap == {[Shared EXCEPT !.fails = FALSE, !.intervals = {}, !.ticks = 3, !.changes = 0, !.calls = 3]}

\* One caller, and a limit lifted and set again between two calls.
Gap == {[Solo EXCEPT !.caps = OneCap, !.works = Busy, !.ticks = 3, !.calls = 4]}
=============================================================================
