------------------------------ MODULE MCRunStore -----------------------------
(***************************************************************************)
(* Small instances of RunStore for TLC.                                    *)
(***************************************************************************)
EXTENDS RunStore, TLC

CONSTANTS r1, r2, r3

TwoRuns   == {r1, r2}
ThreeRuns == {r1, r2, r3}

\* No action and no property tells the runs apart.
Interchangeable == Permutations({r1, r2, r3})

=============================================================================
