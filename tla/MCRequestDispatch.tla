-------------------------- MODULE MCRequestDispatch --------------------------
(***************************************************************************)
(* Small instances of RequestDispatch for TLC.                             *)
(***************************************************************************)
EXTENDS RequestDispatch, TLC

CONSTANTS r1, r2

OneRequest  == {r1}
TwoRequests == {r1, r2}

\* No action and no property tells the requests apart.
Interchangeable == Permutations({r1, r2})

=============================================================================
