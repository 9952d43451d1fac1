-------------------------- MODULE MCStreamHeartbeat --------------------------
(***************************************************************************)
(* A small instance of StreamHeartbeat for TLC: two stages with different  *)
(* idle limits, one of them configured below the minimum of one second.    *)
(***************************************************************************)
EXTENDS StreamHeartbeat

TwoStages   == {"planning", "synthesis"}
IdleLimits  == [s \in TwoStages |-> IF s = "planning" THEN 0 ELSE 3]

=============================================================================
