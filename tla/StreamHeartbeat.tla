--------------------------- MODULE StreamHeartbeat ---------------------------
(***************************************************************************)
(* The live stream of one inline run: _with_heartbeat of service/api.py    *)
(* between the graph's event stream and the server-sent events that        *)
(* mcp_server/sse.py writes.                                               *)
(*                                                                         *)
(* A producer task copies the graph's events into an unbounded queue and   *)
(* ends it with None.  The consumer waits on the queue for an interval at  *)
(* a time, reports when nothing arrives, and stops a run that has been     *)
(* silent or running for too long.  Between any two steps of either, time  *)
(* may pass: the graph works, and a client may be slow to read.            *)
(*                                                                         *)
(* Abstracted: an event is the stage it belongs to, or the result.  Of     *)
(* what was sent the model keeps errors, the result and the final "done".  *)
(***************************************************************************)
EXTENDS Integers, Sequences, FiniteSets

CONSTANTS
  Stages,       \* the stages a graph node maps to; the run starts in Planning
  Planning,
  IdleSeconds,  \* the configured idle limit of each stage
  WarnPercent,  \* warn_before_idle_ratio, in percent
  Interval,     \* seconds to wait for an event before a heartbeat
  MaxRuntimes,  \* stream_max_runtime_seconds of the runs; 0 is no limit
  MaxEvents,    \* bound: progress events a run emits
  Patience      \* bound: where the clock of a silence stops counting

Result == "result"
End    == "end"

VARIABLES
  maxRuntime, \* max_runtime_seconds
  graph,    \* "running", "finishing", "finished", "raised" or "cancelled"
  emitted,  \* progress events emitted so far
  queue,    \* the asyncio queue
  elapsed,  \* seconds since started_at, up to maxRuntime
  pc,       \* where the consumer is
  waited,   \* seconds it has waited on the queue, up to Interval
  stage,    \* active_stage
  silent,   \* seconds since last_real_event_at, up to Patience
  warned,   \* warned_idle
  idle,     \* idle_sec as measured before the warning was sent
  errors,   \* error events sent to the client, by cause
  final,    \* final_emitted
  done      \* has the closing "done" been sent?

producer == <<maxRuntime, graph, emitted>>
clocks   == <<elapsed, waited, silent>>
progress == <<stage, warned, idle>>
sent     == <<errors, final, done>>
vars     == <<producer, queue, pc, clocks, progress, sent>>

AtLeastOne(n) == IF n < 1 THEN 1 ELSE n

Threshold(s) == AtLeastOne(IdleSeconds[s])

\* Mutant: the ratio of the configuration is used as it is.
UnclampedRatio == WarnPercent
ClampedRatio ==
  IF WarnPercent < 10 THEN 10 ELSE IF WarnPercent > 95 THEN 95 ELSE WarnPercent

WarnThreshold(s) == AtLeastOne((Threshold(s) * ClampedRatio) \div 100)

ASSUME Assumption ==
  /\ IsFiniteSet(Stages) /\ Planning \in Stages
  /\ Stages \cap {Result, End} = {}
  /\ IdleSeconds \in [Stages -> Int]
  /\ WarnPercent \in Int
  /\ Interval \in Nat \ {0}
  /\ MaxRuntimes \subseteq Nat /\ MaxEvents \in Nat /\ Patience \in Nat
  /\ \A s \in Stages : Threshold(s) <= Patience

Init ==
  /\ maxRuntime \in MaxRuntimes
  /\ graph = "running" /\ emitted = 0
  /\ queue = <<>>
  /\ elapsed = 0 /\ waited = 0 /\ silent = 0
  /\ pc = "check"
  /\ stage = Planning /\ warned = FALSE /\ idle = 0
  /\ errors = {} /\ final = FALSE /\ done = FALSE

-----------------------------------------------------------------------------
(* The graph and the producer task.                                        *)

\* Mutant: a queue with room for one event drops the next.
PutIfRoom(e) == queue' = IF queue = <<>> THEN <<e>> ELSE queue
Put(e) == queue' = Append(queue, e)

GraphEvent(s) ==
  /\ graph = "running"
  /\ emitted < MaxEvents
  /\ emitted' = emitted + 1
  /\ Put(s)
  /\ UNCHANGED <<maxRuntime, graph, pc, clocks, progress, sent>>

\* The end of the graph carries the state with the report.
GraphResult ==
  /\ graph = "running"
  /\ graph' = "finishing"
  /\ Put(Result)
  /\ UNCHANGED <<maxRuntime, emitted, pc, clocks, progress, sent>>

\* The finally block ends the queue when the events are exhausted ...
ProducerEnds ==
  /\ graph = "finishing"
  /\ graph' = "finished"
  /\ Put(End)
  /\ UNCHANGED <<maxRuntime, emitted, pc, clocks, progress, sent>>

\* ... and when the graph raises.  Nobody awaits the producer task after
\* that, so the exception goes no further.
GraphRaises ==
  /\ graph = "running"
  /\ graph' = "raised"
  /\ Put(End)
  /\ UNCHANGED <<maxRuntime, emitted, pc, clocks, progress, sent>>

-----------------------------------------------------------------------------
(* The consumer.                                                           *)

\* Stopping with an error leaves the loop.
Stop(cause) ==
  /\ errors' = errors \cup {cause}
  /\ pc' = "closing"

CheckRuntime ==
  /\ pc = "check"
  /\ IF maxRuntime > 0 /\ elapsed >= maxRuntime
     THEN Stop("max_runtime") ELSE pc' = "wait" /\ UNCHANGED errors
  /\ waited' = 0
  /\ UNCHANGED <<producer, queue, elapsed, silent, progress, final, done>>

\* The stage an event puts the run in.  The result leaves it alone.
StageOf(e) == IF e = Result THEN stage ELSE e

\* A real event is passed on.
Get ==
  /\ pc = "wait"
  /\ queue # <<>>
  /\ Head(queue) # End
  /\ queue' = Tail(queue)
  /\ stage' = StageOf(Head(queue))
  /\ warned' = (warned /\ stage' = stage)
  /\ final' = (final \/ Head(queue) = Result)
  /\ silent' = 0
  /\ pc' = "check"
  /\ UNCHANGED <<producer, elapsed, waited, idle, errors, done>>

GetEnd ==
  /\ pc = "wait"
  /\ queue # <<>>
  /\ Head(queue) = End
  /\ queue' = Tail(queue)
  /\ pc' = "closing"
  /\ UNCHANGED <<producer, clocks, progress, sent>>

\* A silent stage is stopped; otherwise a heartbeat goes out.
IdleVerdict(seconds) ==
  IF seconds >= Threshold(stage) THEN Stop("idle")
  ELSE pc' = "check" /\ UNCHANGED errors

TimedOut == pc = "wait" /\ queue = <<>> /\ waited = Interval

\* The first long silence of a stage sends a warning, and the generator is
\* suspended until the client has taken it.
WarnIdle ==
  /\ TimedOut
  /\ ~warned /\ silent >= WarnThreshold(stage)
  /\ warned' = TRUE
  /\ idle' = silent
  /\ pc' = "warning"
  /\ UNCHANGED <<producer, queue, clocks, stage, sent>>

\* It goes on with the silence measured before the warning.
AfterWarning ==
  /\ pc = "warning"
  /\ IdleVerdict(idle)
  /\ UNCHANGED <<producer, queue, clocks, progress, final, done>>

\* Mutant: a heartbeat counts as progress.
HeartbeatResets ==
  /\ TimedOut
  /\ warned \/ silent < WarnThreshold(stage)
  /\ IdleVerdict(silent)
  /\ silent' = 0
  /\ UNCHANGED <<producer, queue, elapsed, waited, progress, final, done>>

Heartbeat ==
  /\ TimedOut
  /\ warned \/ silent < WarnThreshold(stage)
  /\ IdleVerdict(silent)
  /\ UNCHANGED <<producer, queue, clocks, progress, final, done>>

\* Mutants: the finally block leaves the producer task alone, or puts an end
\* mark even when the producer has put its own.
LeaveProducer == UNCHANGED <<graph, queue>>
EndAgain ==
  /\ Put(End)
  /\ graph' = IF graph \in {"running", "finishing"} THEN "cancelled" ELSE graph

\* The finally block cancels a producer that is still copying and waits for
\* it; its own finally block still puts the end mark.
CancelProducer ==
  IF graph \in {"running", "finishing"}
  THEN graph' = "cancelled" /\ Put(End)
  ELSE UNCHANGED <<graph, queue>>

\* Whatever happened, event_generator ends with "done".  If the graph raises
\* instead of being cancelled, awaiting the producer raises too, and that is
\* sent as one more error.
Close ==
  /\ pc = "closing"
  /\ CancelProducer
  /\ errors' \in {errors} \cup IF graph \in {"running", "finishing"}
                              THEN {errors \cup {"exception"}} ELSE {}
  /\ done' = TRUE
  /\ pc' = "closed"
  /\ UNCHANGED <<maxRuntime, emitted, clocks, progress, final>>

\* A client that goes away closes the generator where it is.
Disconnect ==
  /\ pc # "closed"
  /\ CancelProducer
  /\ pc' = "closed"
  /\ UNCHANGED <<maxRuntime, emitted, clocks, progress, sent>>

-----------------------------------------------------------------------------

Advance(clock, limit) == IF clock < limit THEN clock + 1 ELSE clock

Tick ==
  /\ pc # "closed"
  /\ elapsed' = Advance(elapsed, maxRuntime)
  /\ waited' = Advance(waited, Interval)
  /\ silent' = Advance(silent, Patience)
  /\ UNCHANGED <<producer, queue, pc, progress, sent>>

\* The stream is over once the producer has stopped as well.
Over == pc = "closed" /\ graph \notin {"running", "finishing"} /\ UNCHANGED vars

Consumer ==
  CheckRuntime \/ Get \/ GetEnd \/ WarnIdle \/ AfterWarning \/ Heartbeat
    \/ Close

Next ==
  \/ \E s \in Stages : GraphEvent(s)
  \/ GraphResult \/ ProducerEnds \/ GraphRaises
  \/ Consumer \/ Disconnect \/ Tick \/ Over

Spec == Init /\ [][Next]_vars

\* Time passes, the producer task is scheduled, and the client keeps reading
\* (or goes away).  Nothing is assumed of the graph.
FairSpec ==
  /\ Spec
  /\ WF_vars(Tick) /\ WF_vars(Consumer) /\ WF_vars(ProducerEnds)

-----------------------------------------------------------------------------
(* Properties.                                                             *)

\* Every variable holds a value of its kind; the clocks stay within their
\* bounds.
TypeOK ==
  /\ graph \in {"running", "finishing", "finished", "raised", "cancelled"}
  /\ emitted \in 0 .. MaxEvents
  /\ queue \in Seq(Stages \cup {Result, End})
  /\ maxRuntime \in MaxRuntimes /\ elapsed \in 0 .. maxRuntime
  /\ waited \in 0 .. Interval
  /\ silent \in 0 .. Patience /\ idle \in 0 .. Patience
  /\ pc \in {"check", "wait", "warning", "closing", "closed"}
  /\ stage \in Stages
  /\ warned \in BOOLEAN /\ final \in BOOLEAN /\ done \in BOOLEAN
  /\ errors \subseteq {"max_runtime", "idle", "exception"}

\* A stream that closes with "done", without the result and without an error,
\* is the stream of a graph that raised: the result of a finished run is
\* neither overtaken by the end mark nor dropped while the client is slow.
QuietEndMeansFailure ==
  done /\ ~final /\ errors = {} => graph = "raised"

\* A run is stopped for being idle only after the client has been warned
\* about the stage it is in, whatever warn_before_idle_ratio says.
WarnedBeforeStopped == "idle" \in errors => warned

\* When the generator is closed, by whatever path and also by the client, no
\* producer is left behind that copies events into a queue nobody reads.
ProducerStopped ==
  pc = "closed" => graph \in {"finished", "raised", "cancelled"}

\* The end mark is put once and nothing follows it, although three pieces of
\* code put it and a cancellation may come between the result and the mark.
EndIsLast ==
  \A i \in 1 .. Len(queue) :
    queue[i] = End =>
      i = Len(queue) /\ graph \in {"finished", "raised", "cancelled"}

\* Every stream ends, even when the graph hangs and no maximum runtime is
\* set: heartbeats do not count as progress.
StreamEnds == <>(pc = "closed")

\* The comment "Yield error event" on service/api.py's handler of a failing
\* inline run: when the graph raises, the client is sent an error event.
FailureReported == done /\ graph = "raised" => errors # {}

=============================================================================
