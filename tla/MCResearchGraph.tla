--------------------------- MODULE MCResearchGraph ---------------------------
(***************************************************************************)
(* Small instances of ResearchGraph for TLC.                               *)
(***************************************************************************)
EXTENDS ResearchGraph, TLC

CONSTANTS b1, b2, b3

TwoBranches   == {b1, b2}
ThreeBranches == {b1, b2, b3}
NoLoop        == {0}
OneLoop       == {0, 1}
ShortLoops    == {0, 1, 2}

\* Branches are interchangeable: no action and no property tells them apart.
Interchangeable == Permutations({b1, b2, b3})

=============================================================================
