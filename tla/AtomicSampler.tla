--------------------------- MODULE AtomicSampler ---------------------------
(***************************************************************************)
(* What a shared sampler promises of the reading it keeps: every call that *)
(* has a reading swaps it for the one kept, in one step.                   *)
(***************************************************************************)
EXTENDS Sequences

CONSTANTS
    Values,  \* the readings
    None     \* the sampler keeps none yet

VARIABLES
    kept,    \* the reading kept
    swaps    \* the readings swapped, in order, <<out, in>>

Init == kept = None /\ swaps = <<>>

Swap == kept' \in Values /\ swaps' = Append(swaps, <<kept, kept'>>)

Spec == Init /\ [][Swap]_<<kept, swaps>>
=============================================================================
