-------------------------- MODULE MCDiscoveryCache --------------------------
(***************************************************************************)
(* Values of the constants of DiscoveryCache for its run.                  *)
(***************************************************************************)
EXTENDS DiscoveryCache, TLC

CONSTANTS parent, t1, t2

\* Two threads in the parent.
PairOf == t1 :> parent @@ t2 :> parent
PairThreads == {t1, t2}
=============================================================================
