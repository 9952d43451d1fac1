--------------------------- MODULE RequestContract ---------------------------
(***************************************************************************)
(* What a client who asks for research is promised, without saying how the *)
(* service and its workers find out about each other.                      *)
(*                                                                         *)
(* A request is open while a worker may still answer it, alone once the    *)
(* service researches it itself, and settled for good.  Who asked for a    *)
(* distributed run gets the result of a worker or a refusal, never the     *)
(* service's own work.  In "auto" the service may give an open request up, *)
(* says so, and goes on alone; what a worker brings after that is lost.    *)
(* A client may go away without an answer.                                 *)
(***************************************************************************)
CONSTANTS Requests

VARIABLES
  mode,    \* [Requests -> "auto", "inline" or "distributed"]
  stage,   \* [Requests -> "new", "open", "alone" or "settled"]
  work,    \* [Requests -> "none", "sent" to a worker or "done" there]
  told,    \* [Requests -> was the client told of a fallback?]
  answer   \* [Requests -> "none", "distributed", "inline", "error", "refused"]

vars == <<mode, stage, work, told, answer>>

Init ==
  /\ mode \in [Requests -> {"auto", "inline", "distributed"}]
  /\ stage = [r \in Requests |-> "new"]
  /\ work = [r \in Requests |-> "none"]
  /\ told = [r \in Requests |-> FALSE]
  /\ answer = [r \in Requests |-> "none"]

Enter(r, next) == stage' = [stage EXCEPT ![r] = next]

Settle(r, how) ==
  /\ Enter(r, "settled")
  /\ answer' = [answer EXCEPT ![r] = how]
  /\ UNCHANGED <<work, told>>

\* The service goes on alone, never for who asked for a worker; only who
\* could have had one is told.
GoAlone(r) ==
  /\ mode[r] # "distributed"
  /\ Enter(r, "alone")
  /\ \/ UNCHANGED told
     \/ mode[r] = "auto" /\ told' = [told EXCEPT ![r] = TRUE]
  /\ UNCHANGED <<work, answer>>

Ask(r) ==
  /\ stage[r] = "new"
  /\ \/ /\ mode[r] # "inline"
        /\ Enter(r, "open")
        /\ UNCHANGED <<work, told, answer>>
     \/ GoAlone(r)
     \/ Settle(r, "refused")

Send(r) ==
  /\ stage[r] = "open" /\ work[r] = "none"
  /\ work' = [work EXCEPT ![r] = "sent"]
  /\ UNCHANGED <<stage, told, answer>>

\* The worker does not know whether anybody still waits.
Work(r) ==
  /\ work[r] = "sent"
  /\ work' = [work EXCEPT ![r] = "done"]
  /\ UNCHANGED <<stage, told, answer>>

Serve(r) ==
  /\ stage[r] = "open" /\ work[r] = "done"
  /\ Settle(r, "distributed")

GiveUp(r) ==
  /\ stage[r] = "open"
  /\ \/ GoAlone(r) /\ told'[r]
     \/ mode[r] = "distributed" /\ Settle(r, "refused")

Finish(r) ==
  /\ stage[r] = "alone"
  /\ Settle(r, "inline") \/ Settle(r, "error")

\* What is on its way to a worker by then may still get there.
Leave(r) ==
  /\ stage[r] \in {"open", "alone"}
  /\ Enter(r, "settled")
  /\ \/ UNCHANGED work
     \/ stage[r] = "open" /\ work[r] = "none"
          /\ work' = [work EXCEPT ![r] = "sent"]
  /\ UNCHANGED <<told, answer>>

Next ==
  /\ UNCHANGED mode
  /\ \E r \in Requests :
       \/ Ask(r) \/ Send(r) \/ Work(r) \/ Serve(r) \/ GiveUp(r)
       \/ Finish(r) \/ Leave(r)

Spec == Init /\ [][Next]_vars

=============================================================================
