----------------------------- MODULE MCReports -----------------------------
(***************************************************************************)
(* Values of the constants of Reports for its run.                         *)
(***************************************************************************)
EXTENDS Reports, TLC

CONSTANTS parent, child, t1, t2, w1, g1, g2

\* A parent of two threads and the child it may fork.
FamilyOf == t1 :> parent @@ t2 :> parent @@ w1 :> child
FamilyThreads == {t1, t2, w1}

\* A family whose calls make one lookup each.
Family == [forks |-> TRUE, calls |-> {"usage"}, limited |-> {}, pinned |-> FALSE,
           split |-> FALSE]

\* One process, and every call: nothing is limited, or a limit on a group and
\* one on the level above, or a set of cores beside a quota.
Unlimited == [forks |-> FALSE, calls |-> {"describe", "budget"}, limited |-> {}, pinned |-> FALSE,
              split |-> FALSE]
Limited == [Unlimited EXCEPT !.calls = {"describe", "rate"}, !.limited = {g1, Top}]
Pinned == [Unlimited EXCEPT !.calls = {"snapshot", "limit", "rate"}, !.limited = {g2}, !.pinned = TRUE]

\* Quotas on both levels, read through a mount of the subtree of Top.
Split == [Limited EXCEPT !.calls = {"limit", "rate"}, !.split = TRUE]

AnySetting == {Family, Unlimited, Limited, Pinned, Split}
=============================================================================
