--------------------------- MODULE RequestDispatch ---------------------------
(***************************************************************************)
(* How a request for research is executed: inline in the service, or as a  *)
(* Celery task in a worker, with a fallback from one to the other          *)
(* (service/api.py, graph/distributed.py, run_graph).  POST /research, the *)
(* stream and run_graph(distributed=True) share the decisions; where they  *)
(* differ the action says so.                                              *)
(*                                                                         *)
(* Abstracted: a payload, down to who produced it and for which tier.      *)
(* What a run does inside is ResearchGraph, what an inline stream sends is *)
(* StreamHeartbeat.                                                        *)
(***************************************************************************)
EXTENDS Integers, FiniteSets

CONSTANTS
  Requests,    \* requests of one service
  Tiers,       \* quota tiers a request may name
  DefaultTier  \* TENANT_QUOTA_TIER of the environment

ASSUME TierAssumption == DefaultTier \in Tiers

Kinds == {"post", "stream", "graph"}
Modes == {"auto", "inline", "distributed"}

\* Only POST lets the caller name a tier; run_graph is given the mode.
Asks ==
  [kind : {"post"}, mode : Modes, tier : Tiers]
    \cup [kind : {"stream"}, mode : Modes, tier : {DefaultTier}]
    \cup [kind : {"graph"}, mode : {"distributed"}, tier : Tiers]

VARIABLES
  asked,     \* [Requests -> Asks]
  celery,    \* whether Celery is installed
  broker,    \* whether Redis can be reached
  worker,    \* whether a worker is alive
  pc,        \* [Requests -> where the handler is]
  task,      \* [Requests -> state of its task, "none" if not dispatched]
  answer,    \* [Requests -> who produced the answer, or how it failed]
  reason,    \* [Requests -> whether a fallback was announced]
  servedAs,  \* [Requests -> tier of the run that answered]
  runs       \* history: [Requests -> research runs begun for it]

outside == <<celery, broker, worker>>
reply   == <<answer, servedAs>>
vars    == <<asked, outside, pc, task, reply, reason, runs>>

Over == {"answered", "gone"}

Init ==
  /\ asked \in [Requests -> Asks]
  /\ celery \in BOOLEAN /\ broker \in BOOLEAN /\ worker \in BOOLEAN
  /\ pc = [r \in Requests |-> "new"]
  /\ task = [r \in Requests |-> "none"]
  /\ answer = [r \in Requests |-> "none"]
  /\ reason = [r \in Requests |-> FALSE]
  /\ servedAs = [r \in Requests |-> "nobody"]
  /\ runs = [r \in Requests |-> 0]

GoTo(r, place) == pc' = [pc EXCEPT ![r] = place]

\* An answer by a run, or a 503, a 500, an error event or a failed state.
Answer(r, how, tier) ==
  /\ GoTo(r, "answered")
  /\ answer' = [answer EXCEPT ![r] = how]
  /\ servedAs' = [servedAs EXCEPT ![r] = tier]

Refuse(r) == Answer(r, "refused", "nobody") /\ UNCHANGED <<reason, runs>>

BeginRun(r) == runs' = [runs EXCEPT ![r] = @ + 1]

Inline(r) == GoTo(r, "inline") /\ BeginRun(r) /\ UNCHANGED reply

\* Mutants: the mode is forgotten; the task is sent once more; the client is
\* not told.
FallBackAlways(r) == Inline(r) /\ reason' = [reason EXCEPT ![r] = TRUE]
SendAgain(r) ==
  IF asked[r].mode = "distributed" THEN Refuse(r)
  ELSE \/ Inline(r) /\ reason' = [reason EXCEPT ![r] = TRUE]
       \/ GoTo(r, "dispatch") /\ UNCHANGED <<reply, reason, runs>>
SilentFallBack(r) ==
  IF asked[r].mode = "distributed" THEN Refuse(r)
  ELSE Inline(r) /\ UNCHANGED reason

\* Whatever goes wrong on the way to a distributed answer ends here.
FallBack(r) ==
  IF asked[r].mode = "distributed" THEN Refuse(r)
  ELSE Inline(r) /\ reason' = [reason EXCEPT ![r] = TRUE]

-----------------------------------------------------------------------------
(* The handler.                                                            *)

\* `heavy': the query is long or asks for a comparison, and the profile lets
\* such queries go to a worker.
UseDistributed(r, enabled, heavy) ==
  /\ enabled
  /\ asked[r].mode = "distributed" \/ (asked[r].mode = "auto" /\ heavy)

\* run_graph has no startup guard and leaves the look for Celery to the probe.
Accept(r) ==
  /\ pc[r] = "new"
  /\ \/ asked[r].kind # "graph" /\ Refuse(r)
     \/ \E enabled, heavy \in BOOLEAN :
          IF UseDistributed(r, enabled, heavy)
          THEN IF celery \/ asked[r].kind = "graph"
               THEN GoTo(r, "probe") /\ UNCHANGED <<reply, reason, runs>>
               ELSE FallBack(r)
          ELSE IF asked[r].mode = "distributed"
               THEN Refuse(r)
               ELSE Inline(r) /\ UNCHANGED reason
  /\ UNCHANGED <<asked, outside, task>>

\* is_distributed_ready: the broker accepts a connection and a worker answers
\* a ping in time.
Probe(r) ==
  /\ pc[r] = "probe"
  /\ \/ celery /\ broker /\ worker
          /\ GoTo(r, "dispatch") /\ UNCHANGED <<reply, reason, runs>>
     \/ FallBack(r)
  /\ UNCHANGED <<asked, outside, task>>

Dispatch(r) ==
  /\ pc[r] = "dispatch"
  /\ \/ broker /\ GoTo(r, "wait") /\ task' = [task EXCEPT ![r] = "queued"]
          /\ UNCHANGED <<reply, reason, runs>>
     \/ FallBack(r) /\ UNCHANGED task
  /\ UNCHANGED <<asked, outside>>

Ready == {"succeeded", "failed"}

Poll(r) ==
  /\ pc[r] = "wait"
  /\ \/ broker /\ task[r] \in Ready
          /\ GoTo(r, "fetch") /\ UNCHANGED <<reply, reason, runs>>
     \/ ~broker /\ FallBack(r)
  /\ UNCHANGED <<asked, outside, task>>

\* Mutant: only a task that has begun can time out.
TimesOutRunning(r) ==
  /\ pc[r] = "wait" /\ task[r] # "queued"
  /\ FallBack(r)
  /\ UNCHANGED <<asked, outside, task>>

\* The deadline passes, whatever the task does; it is not revoked.
TimesOut(r) ==
  /\ pc[r] = "wait"
  /\ FallBack(r)
  /\ UNCHANGED <<asked, outside, task>>

\* Mutant: the failure of a task is taken for its result.
HasEnded(r)  == task[r] \in Ready
HasResult(r) == task[r] = "succeeded"

\* The result of a run in a worker, whose configuration knows the tenant but
\* not the tier; a failed task raises here what it raised there.
Fetch(r) ==
  /\ pc[r] = "fetch"
  /\ \/ broker /\ HasResult(r) /\ Answer(r, "distributed", DefaultTier)
          /\ UNCHANGED <<reason, runs>>
     \/ FallBack(r)
  /\ UNCHANGED <<asked, outside, task>>

InlineEnds(r) ==
  /\ pc[r] = "inline"
  /\ \/ Answer(r, "inline", asked[r].tier)
     \/ Answer(r, "error", "nobody")
  /\ UNCHANGED <<asked, outside, task, reason, runs>>

\* The client of a stream goes away at any await.  A dispatch that runs in
\* its thread by then is not stopped.
Leave(r) ==
  /\ asked[r].kind = "stream"
  /\ pc[r] \notin {"new"} \cup Over
  /\ GoTo(r, "gone")
  /\ \/ UNCHANGED task
     \/ pc[r] = "dispatch" /\ broker /\ task' = [task EXCEPT ![r] = "queued"]
  /\ UNCHANGED <<asked, outside, reply, reason, runs>>

-----------------------------------------------------------------------------
(* The worker, the broker and their failures.                              *)

TakeTask(r) ==
  /\ broker /\ worker /\ task[r] = "queued"
  /\ task' = [task EXCEPT ![r] = "running"]
  /\ BeginRun(r)
  /\ UNCHANGED <<asked, outside, pc, reply, reason>>

TaskEnds(r) ==
  /\ broker /\ worker /\ task[r] = "running"
  /\ \E outcome \in Ready : task' = [task EXCEPT ![r] = outcome]
  /\ UNCHANGED <<asked, outside, pc, reply, reason, runs>>


\* A task is acknowledged when it is taken: with its worker it is gone.
Orphaned(r) == IF task[r] = "running" THEN "lost" ELSE task[r]

WorkerDies ==
  /\ worker /\ worker' = FALSE
  /\ task' = [r \in Requests |-> Orphaned(r)]
  /\ UNCHANGED <<asked, celery, broker, pc, reply, reason, runs>>

WorkerStarts ==
  /\ ~worker /\ worker' = TRUE
  /\ UNCHANGED <<asked, celery, broker, pc, task, reply, reason, runs>>

BrokerFlips ==
  /\ broker' = ~broker
  /\ UNCHANGED <<asked, celery, worker, pc, task, reply, reason, runs>>

-----------------------------------------------------------------------------

Handler(r) ==
  \/ Probe(r) \/ Dispatch(r) \/ Poll(r) \/ TimesOut(r) \/ Fetch(r)
  \/ InlineEnds(r)

Next ==
  \/ \E r \in Requests :
       Accept(r) \/ Handler(r) \/ Leave(r) \/ TakeTask(r) \/ TaskEnds(r)
  \/ WorkerDies \/ WorkerStarts \/ BrokerFlips

Spec == Init /\ [][Next]_vars

\* A handler that was called goes on; nothing is promised by workers or by
\* the broker.
FairSpec == Spec /\ \A r \in Requests : WF_vars(Handler(r))

-----------------------------------------------------------------------------
(* Properties.                                                             *)

\* Every variable holds a value of its kind, and no request is researched
\* more than twice.
TypeOK ==
  /\ asked \in [Requests -> Asks]
  /\ celery \in BOOLEAN /\ broker \in BOOLEAN /\ worker \in BOOLEAN
  /\ pc \in [Requests -> {"new", "probe", "dispatch", "wait", "fetch",
                          "inline"} \cup Over]
  /\ task \in [Requests -> {"none", "queued", "running", "succeeded",
                            "failed", "lost"}]
  /\ answer \in [Requests -> {"none", "distributed", "inline", "refused",
                              "error"}]
  /\ reason \in [Requests -> BOOLEAN]
  /\ servedAs \in [Requests -> Tiers \cup {"nobody"}]
  /\ runs \in [Requests -> 0 .. 2]

\* tests/integration/test_stream_distributed_strict_fail.py: who asks for a
\* distributed run is never served inline, whatever fails and whenever.
StrictDistributed ==
  \A r \in Requests :
    asked[r].mode = "distributed"
      => pc[r] # "inline" /\ answer[r] \notin {"inline", "error"}

\* An answer that claims a distributed run is the result of the task of this
\* request, which has succeeded.
AnswerIsReal ==
  \A r \in Requests : answer[r] = "distributed" => task[r] = "succeeded"

\* A request is researched a second time only after the handler gave up its
\* task and said so: in auto mode, with the fallback announced.
SecondRunExplained ==
  \A r \in Requests :
    /\ runs[r] > 1 => asked[r].mode = "auto" /\ reason[r]
    /\ task[r] # "none" /\ answer[r] = "inline" => reason[r]

\* Every request that was accepted is answered, unless its client leaves.
Answered == \A r \in Requests : pc[r] # "new" ~> pc[r] \in Over

\* README.md "Tenant Context: Tier-based quotas and routing strategies": a
\* request is answered by a run of its own tier.
TierKept ==
  \A r \in Requests :
    servedAs[r] \in Tiers => servedAs[r] = asked[r].tier

\* The service implements the contract of its requests.  A request is open
\* as long as its handler hopes for a worker; a task that was lost or has
\* failed has been sent and brings no result.
StageOf(place) ==
  CASE place = "new"    -> "new"
    [] place = "inline" -> "alone"
    [] place \in Over   -> "settled"
    [] OTHER            -> "open"

WorkOf(state) ==
  CASE state = "none"      -> "none"
    [] state = "succeeded" -> "done"
    [] OTHER               -> "sent"

Contract == INSTANCE RequestContract WITH
  mode  <- [r \in Requests |-> asked[r].mode],
  stage <- [r \in Requests |-> StageOf(pc[r])],
  work  <- [r \in Requests |-> WorkOf(task[r])],
  told  <- reason

\* service/api.py research and stream, graph/distributed.py: whatever broker
\* and workers do and whenever a client leaves, a request is settled once,
\* with the result of its own task, the service's own work or a refusal, as
\* its mode allows, and a task is given up only aloud.
ImplementsContract == Contract!Spec

=============================================================================
