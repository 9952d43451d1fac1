--------------------------- MODULE ReviewContract ---------------------------
(***************************************************************************)
(* What the research pipeline promises about review, without saying how    *)
(* evidence is gathered or a report is written.                            *)
(*                                                                         *)
(* A run drafts a report and has it judged.  A rejected draft is reworked  *)
(* and judged again, within a budget fixed when the run starts.  Only a    *)
(* judged draft is delivered: one that passed as "completed", one that did *)
(* not as "completed_low_confidence", or as "aborted" when the human said  *)
(* so.  While it is drafting a run may instead end with an exception.      *)
(***************************************************************************)
EXTENDS Naturals

VARIABLES
  phase,     \* "drafting", "judged", "delivered" or "raised"
  verdict,   \* what the last judgement said: "none", "pass" or "fail"
  reworks,   \* reworks begun so far
  budget,    \* how many reworks the run may begin
  status     \* what the caller is told

vars == <<phase, verdict, reworks, budget, status>>

Init ==
  /\ phase = "drafting"
  /\ verdict = "none"
  /\ reworks = 0
  /\ budget \in Nat
  /\ status = "running"

Judge ==
  /\ phase = "drafting"
  /\ phase' = "judged"
  /\ verdict' \in {"pass", "fail"}
  /\ UNCHANGED <<reworks, budget, status>>

Rework ==
  /\ phase = "judged"
  /\ verdict = "fail"
  /\ reworks < budget
  /\ phase' = "drafting"
  /\ reworks' = reworks + 1
  /\ UNCHANGED <<verdict, budget, status>>

Deliver ==
  /\ phase = "judged"
  /\ phase' = "delivered"
  /\ status' \in IF verdict = "pass" THEN {"completed"}
                 ELSE {"completed_low_confidence", "aborted"}
  /\ UNCHANGED <<verdict, reworks, budget>>

Raise ==
  /\ phase = "drafting"
  /\ phase' = "raised"
  /\ status' = "raised"
  /\ UNCHANGED <<verdict, reworks, budget>>

Next == Judge \/ Rework \/ Deliver \/ Raise

Spec == Init /\ [][Next]_vars

=============================================================================
