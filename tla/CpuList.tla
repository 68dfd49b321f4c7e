------------------------------ MODULE CpuList -------------------------------
(***************************************************************************)
(* count_cpu_list(), which counts a list such as 0-3,8 part by part and    *)
(* refuses what no kernel wrote, and machine_cpu_count(), which asks the   *)
(* kernel for such a list before it asks anything that may describe the    *)
(* process instead.                                                        *)
(***************************************************************************)
EXTENDS Integers, Sequences, FiniteSets

CONSTANTS
    Lists,    \* the texts, split at the commas
    Counts,   \* what sysconf may say: a number, or None where it raises
    Garbage,  \* a text int() does not take
    None      \* also the empty text behind a separator, and a missing one

\* A part is one number, or two with a separator between them.
Part == [first : Nat \cup {Garbage}, separator : BOOLEAN, last : Int \cup {Garbage, None}]

ASSUME ListAssumption ==
    /\ Lists \subseteq Seq(Part) \ {<<>>}
    /\ \A s \in Lists : \A i \in DOMAIN s : s[i].separator \/ s[i].last = None
ASSUME NameAssumption == Garbage \notin Int /\ None \notin Int /\ None \notin Lists /\ Garbage # None
ASSUME CountAssumption == Counts \subseteq Int \cup {None}

VARIABLES
    online,      \* /sys/devices/system/cpu/online, or None where it cannot be read
    sysconf,     \* SC_NPROCESSORS_ONLN
    cpu_count,   \* os.cpu_count()
    pc,          \* the step of machine_cpu_count()
    at,          \* the part counted next
    count,       \* the cores counted so far
    counted_to,  \* the highest of them, -1 before the first
    counted,     \* what count_cpu_list() returned, None before it did
    answer       \* what machine_cpu_count() returned, None before it did

machine == <<online, sysconf, cpu_count>>
vars == <<machine, pc, at, count, counted_to, counted, answer>>

----------------------------------------------------------------------------
(* The parts.                                                              *)

\* Both ends are numbers where both have to be.
WellFormed(part) == part.first # Garbage /\ part.last # Garbage /\ (part.separator => part.last # None)

First(part) == part.first
Last(part) == IF part.last = None THEN part.first ELSE part.last

\* Mutant of Follows: a part may start where the one before it ended.
FollowsTouching(part, to) == First(part) <= Last(part) /\ First(part) >= to

\* The range is not reversed and does not reach back into the one before it.
Follows(part, to) == First(part) <= Last(part) /\ First(part) > to

Taken(part) == WellFormed(part) /\ Follows(part, counted_to)

----------------------------------------------------------------------------
(* machine_cpu_count() and the count_cpu_list() it calls.                  *)

\* Mutant of KernelAnswers: the kernel is asked where sysconf says nothing.
KernelAnswersLast == online # None /\ sysconf = None

KernelAnswers == online # None

ReadOnline ==
    /\ pc = "open"
    /\ pc' = IF KernelAnswers THEN "parts" ELSE "fallback"
    /\ UNCHANGED <<machine, at, count, counted_to, counted, answer>>

CountPart ==
    /\ pc = "parts"
    /\ at \in DOMAIN online
    /\ Taken(online[at])
    /\ count' = count + Last(online[at]) - First(online[at]) + 1
    /\ counted_to' = Last(online[at])
    /\ at' = at + 1
    /\ UNCHANGED <<machine, pc, counted, answer>>

\* The list does not parse: the fallback answers.
RefusePart ==
    /\ pc = "parts"
    /\ at \in DOMAIN online
    /\ ~Taken(online[at])
    /\ pc' = "fallback"
    /\ UNCHANGED <<machine, at, count, counted_to, counted, answer>>

ReturnCount ==
    /\ pc = "parts"
    /\ at \notin DOMAIN online
    /\ counted' = count
    /\ answer' = count
    /\ pc' = "done"
    /\ UNCHANGED <<machine, at, count, counted_to>>

\* _machine_cpu_count_fallback.
Fallback ==
    /\ pc = "fallback"
    /\ answer' = IF sysconf # None /\ sysconf > 0 THEN sysconf ELSE cpu_count
    /\ pc' = "done"
    /\ UNCHANGED <<machine, at, count, counted_to, counted>>

Init ==
    /\ online \in Lists \cup {None}
    /\ sysconf \in Counts
    /\ cpu_count \in {n \in Counts : n = None \/ n > 0}
    /\ pc = "open"
    /\ at = 1
    /\ count = 0
    /\ counted_to = -1
    /\ counted = None
    /\ answer = None

Next == ReadOnline \/ CountPart \/ RefusePart \/ ReturnCount \/ Fallback

Spec == Init /\ [][Next]_vars

----------------------------------------------------------------------------
(* Properties.                                                             *)

\* The cores the first parts of a list name, and whether a kernel wrote them: it
\* "canonicalizes what it stores: the ranges ascend and never overlap".
Span(part) == First(part)..Last(part)
Cores(s, n) == UNION {Span(s[i]) : i \in 1..n}
Canonical(s, n) ==
    /\ \A i \in 1..n : WellFormed(s[i]) /\ First(s[i]) <= Last(s[i])
    /\ \A i \in 1..n : \A j \in 1..(i - 1) : Last(s[j]) < First(s[i])

\* A list a kernel wrote counts as many cores as it names, one no kernel wrote
\* counts none: no core is counted twice, and no malformed or overlapping part
\* gives a number.
CountsCores ==
    pc = "done" /\ online # None =>
      counted = IF Canonical(online, Len(online)) THEN Cardinality(Cores(online, Len(online))) ELSE None

\* Where the kernel lists the cores, they are the answer, whatever number the
\* affinity of the process makes of the other two; and some number is the answer
\* where any of the three says one.
SystemAskedFirst ==
    pc = "done" =>
      IF online # None /\ Canonical(online, Len(online))
      THEN answer = Cardinality(Cores(online, Len(online)))
      ELSE answer = None => cpu_count = None /\ (sysconf = None \/ sysconf <= 0)

----------------------------------------------------------------------------
(* The inductive invariant CpuListProofs rests on.                         *)

\* The types of the variables.
TypeOK ==
    /\ online \in Lists \cup {None}
    /\ sysconf \in Int \cup {None}
    /\ cpu_count \in Int \cup {None}
    /\ pc \in {"open", "parts", "fallback", "done"}
    /\ at \in Nat \ {0}
    /\ count \in Nat
    /\ counted_to \in Int
    /\ counted \in Nat \cup {None}
    /\ answer \in Int \cup {None}

\* The parts counted so far are canonical, and count is how many cores they name.
PrefixInv ==
    pc \in {"open", "parts"} /\ online # None =>
      /\ at <= Len(online) + 1
      /\ Canonical(online, at - 1)
      /\ IsFiniteSet(Cores(online, at - 1)) /\ count = Cardinality(Cores(online, at - 1))
      /\ counted_to = IF at = 1 THEN -1 ELSE Last(online[at - 1])
      /\ \A i \in 1..(at - 1) : Last(online[i]) <= counted_to

IInv ==
    /\ TypeOK
    /\ PrefixInv
    /\ pc = "open" => at = 1 /\ count = 0
    /\ pc = "parts" => online # None
    /\ pc # "done" => counted = None
    /\ pc = "fallback" /\ online # None => ~Canonical(online, Len(online))
    /\ CountsCores
    /\ SystemAskedFirst
=============================================================================
