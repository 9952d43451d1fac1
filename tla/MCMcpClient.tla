----------------------------- MODULE MCMcpClient -----------------------------
(***************************************************************************)
(* Small instances of McpClient for TLC.                                   *)
(***************************************************************************)
EXTENDS McpClient, TLC

CONSTANTS t1, t2, t3

TwoThreads   == {t1, t2}
ThreeThreads == {t1, t2, t3}

\* No action and no property tells the threads apart.
Interchangeable == Permutations({t1, t2, t3})

=============================================================================
