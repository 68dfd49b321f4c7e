----------------------------- MODULE MCCpuList ------------------------------
(***************************************************************************)
(* Values of the constants of CpuList for its run.                         *)
(***************************************************************************)
EXTENDS CpuList

Cpus == 0..3

\* Single cores, ranges of every direction, and what is no number.
Parts == {[first |-> f, separator |-> FALSE, last |-> None] : f \in Cpus \cup {Garbage}}
         \cup {[first |-> f, separator |-> TRUE, last |-> l] :
                 f \in Cpus \cup {Garbage}, l \in Cpus \cup {-1, Garbage, None}}

\* Texts of up to three parts.
ShortLists == UNION {[1..n -> Parts] : n \in 1..2} \cup [1..3 -> {p \in Parts : WellFormed(p)}]

\* sysconf fails, does not know, or counts the cores of the process.
SomeCounts == {None, -1, 1}
=============================================================================
