---------------------------- MODULE MCMcpTransport ----------------------------
(***************************************************************************)
(* A small instance of McpTransport for TLC: two calls, whose callers wait *)
(* a second longer than their session does.                                *)
(***************************************************************************)
EXTENDS McpTransport, TLC

CONSTANTS k1, k2

TwoCalls == {k1, k2}
OneCall == {k1}

\* No action and no property tells the calls apart.
Interchangeable == Permutations({k1, k2})

=============================================================================
