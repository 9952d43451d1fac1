# A TLA+ model of Cloud Hive

This directory models the control of Cloud Hive: the LangGraph research
pipeline, the dispatch of requests to it, the tool client, the sessions and the
tool server under it, the evidence and the report it makes, the live stream of
a run and the page that shows it, and what a run leaves on disk.  The modules
are translated from the source; the README of the repository and its docs are
only quoted where a run shows that the code does something else.

Run a check with `tlc -config ResearchGraph_safety.cfg MCResearchGraph.tla`, a
proof with `tlapm ResearchGraphProofs.tla`.  `PROJECT.json` lists components,
runs, mutants, the source lines of every definition, hazards and theorems.

## The system

| Part | State | Operations | Talks to |
|---|---|---|---|
| Research pipeline (`graph/pipeline.py`, `graph/nodes`) | the channels of `ResearchState`, reducers that append | 12 nodes, three conditional edges | tools through the MCP client, models through the router, memory, artifacts |
| Live stream (`service/api.py`, `mcp_server/sse.py`) | queue, producer task, stage, three clocks | copy, wait, heartbeat, warn, stop, close | the graph's events, a client that may be slow or gone |
| Run store (`core/run_registry.py`, `core/retention.py`, finalize, `main.py`) | `run_registry.jsonl`, artifact directories | write artifacts, sweep, upsert, resume | every process on the data directory |
| MCP client (`mcp_server/client.py`, `core/rate_limit.py`) | transport and fallback flags, a breaker per server | probe, call, fall back | transport sessions, the in-process tool servers |
| Transport sessions (`mcp_server/transport_runtime.py`) | a thread, a loop, a session, events | start, call, list, close | MCP server processes |
| Request dispatch (`service/api.py`, `graph/distributed.py`) | broker readiness, task result | dispatch, wait, fall back to inline | Celery, Redis, the pipeline |
| Evaluation and judges (`evals`) | none | score, retry, fall back to the stub judge | models |
| Web tool server (`mcp_server/web_server.py`, `core/rate_limit.py`) | a token bucket per provider, a degradation flag and its reason | search, retry, fall back | search providers |
| Evidence (`core/verification.py`, `core/citations.py`, the lanes, branches and synthesizer of `graph/nodes`) | documents, claims, citations, failures of branches | filter, take back, verify, merge, cite, judge | pipeline channels |
| Report text (`core/report_formatter.py`, `core/report_quality.py`) | none of its own: the sections of the draft | format, correct, fill, replace | synthesizer, gate, finalize |
| Model router (`agents/model_router.py`) | none | choose provider and model | the tenant's tier |
| Memory (`memory/chroma_store.py`) | a JSONL file or Chroma | add, retrieve | planner, finalize |
| Research page (`web-ui/app/page.tsx`) | form lock, stream, timers, two refs, the report shown | search, stop, reset, callbacks of a stream | `/health`, the stream |
| CLI, configuration, metrics, storage, tool server applications, deployment | | | |

What is hard in it:

* **Loops with two guards.**  The gate sends a draft back while corrections are
  left, a human may send it back once more; both meet in one counter, and the
  status is computed at the end from flags set in different rounds.
* **Fan-out.**  One branch per subtopic, in any order, into channels that only
  append; a failed branch may leave a placeholder, a record, or both.
* **Time.**  An idle limit per stage, a warning before it, a maximum runtime, a
  heartbeat interval; the generator is suspended whenever the client is slow.
* **Silent failure.**  Exceptions end tasks that nobody awaits; files are
  written one after the other inside one `try`.
* **Shared files.**  Request threads, workers and the command line read and
  rewrite the same files without locks; a write may be cut short.
* **Threads behind one object.**  A session, a token bucket and a degradation
  flag are used by the parallel nodes of several runs; a thread that was given
  up on goes on writing to fields that belong to its successor.
* **Evidence that is filtered, taken back and counted.**  Every stage may drop
  documents, and some put them back; claims meet their documents again only
  through identifiers a language model had a hand in.
* **Callbacks that outlive their question.**  The page's health checks, timers
  and streams of one search may still come when the next one has begun.

What makes each part correct: the pipeline delivers only what was judged, ends,
and says honestly how; no evidence means no claim of success; the fan-out loses
nothing.  A tool call answers as its mode promises, and an open circuit lets
nobody in; sessions do not mix and leave nothing running; limiters are kept and
nobody waits for ever.  What a report verifies and cites can be found in the
evidence, and formatting it does not wear it down.  A request is answered once,
honestly about who did the work, and never researched more often than
announced.  The stream ends, says why, loses no result and leaves nothing
running; the page shows the answer to its last question.  The store keeps what
it has registered and never resumes half a run, and only a write that was cut
short costs a memory.

## Modules

### ReviewContract

The abstract promise of the pipeline: draft, judge, rework within a budget
fixed at the start, deliver what was judged with a status that follows the
verdict, or raise.  Five variables, four actions.

### ResearchGraph

One action per node of the compiled graph.  `at` is the superstep in progress
and `pending` the parallel members that have not returned, so members of a
superstep interleave and the join waits for all of them, as LangGraph does.

| Action | Code |
|---|---|
| `Planner` | `planner_node`; an empty list of subtopics is replaced, so never empty in map_reduce mode |
| `Tavily`, `Ddg`, `Firecrawl` | the parallel lanes of `subtopic_mode = disabled` |
| `ResearchPool`, `SubResearch(b)` | the shared pool and one branch per subtopic |
| `Synthesizer` | the order of its fail-closed checks and fallbacks (`SynthesisBasis`) |
| `SelfCorrection`, `SelfCorrectionRetry` | one body, the second also counts |
| `EvalGate`, `Hitl`, `Finalize` | verdict and flags, decision, status and the last replacement |
| `NodeRaises` | a tool call or the memory lookup raises out of a node |

Abstractions.  A document is "citable or not, per lane"; of a report the model
keeps what it was built from, how often it was rewritten and which rewrite was
judged (`drafts`, `judged`, history of `report_draft`).  The verdict is free
wherever the coverage threshold allows both; a fail-closed draft contains no
claim identifier, its coverage is zero, and with a threshold above zero it
cannot pass.  `retry_once` only repeats the extraction, so a branch that
retries is a branch.  A timeout inside `extract_claims` is caught there and
becomes "no claims", which is why `SubResearch` has no outcome for it.
`pass` records what the last correction pass did.

### RequestDispatch

POST /research, the part of the stream before its inline run, and
`run_graph(distributed=True)`, which share their decisions; `asked[r].kind`
says which one a request is.

| Action | Code |
|---|---|
| `Accept` | startup guard, profile, `_should_use_distributed`, the look for Celery |
| `Probe`, `Dispatch`, `Poll`, `TimesOut`, `Fetch` | `is_distributed_ready`, `delay`, the polling loop and its deadline, `task.get` |
| `FallBack` | the one place all failures lead to: refuse in distributed mode, else announce and run inline |
| `InlineEnds` | the result, a 500, an error event |
| `Leave` | a stream cancelled at an await, also while `delay` runs in its thread |
| `TakeTask`, `TaskEnds` | `execute_research_task` |
| `WorkerDies`, `WorkerStarts`, `BrokerFlips` | Celery and Redis, external |

A probe may say no although everything is up (a ping that is late); it says yes
only if broker and worker were up when it looked.  The deadline may pass
before, while and after the task runs, so time itself is left out.  A task is
acknowledged when it is taken (Celery's default, which `conf.update` does not
change).  `servedAs` is the tier in the configuration of the run that answered.

### RequestContract

The abstract promise to a client: a request is open while a worker may still
answer it, alone once the service researches it itself, and settled for good.
It knows neither broker nor probe, deadline or loss of a task; a worker works on
what was sent to it whether or not anybody still waits.  `RequestDispatch`
implements it with `StageOf` and `WorkOf`, which read stage and work off the
place of the handler and the state of the task.

### McpClient

`MultiServerClient` with its two `CircuitBreaker`s.  The client has no lock; its
callers are graph nodes in parallel threads, so every look at a shared field is
a step of its own.

| Action | Code |
|---|---|
| `Start`, `Ready`, `Close` | `GraphRuntime.start` with the first probe, the second probe of `run_research`, `close`, which may come while nodes still run |
| `Call(t, s)` | the head of `call_web_tool` / `call_local_tool`: mode, then `transport_active` |
| `TransportAnswers`, `TransportFails` | the call over the transport; on failure the flag is looked up again (`MayFallBack`) |
| `Admit`, `PrimaryAnswers`, `PrimaryRaises` | `_invoke`: `allow`, the in-process tool without the lock, `success` or `failure` |
| `Repeat` | the fallback of `write_report_output`, which is the same call outside the breaker |

An answer is kept as where it came from.  The history variable
`openedAt` keeps the failures counted when a circuit opened.  A call over the
transport asks no breaker and reports to none; the two breakers guard the
in-process calls only.  Searches all go to the web
server; of the local server only the report is ever written.
`call_with_retries` and the token bucket live inside the tools: `WebTools`.

Two things the module shows that no document forbids: transport calls go past
the circuit breaker altogether (client.py:228), and writing the report is
repeated outside it (client.py:207).

### CircuitBreaker

The abstract promise of the breakers: a circuit per service, closed with a
count below the threshold or tripped until a time, and the callers it has let
in.  `McpClient` implements it with `Circuit`, which reads a circuit off the two
fields of a breaker: `open_until` is zero exactly when it is closed.  A thread
is inside while it is at "primary".  Two things the contract says that a
textbook breaker does not: after its time a tripped circuit lets everybody in,
not one probe, and a success that comes late closes it before its time.

### McpTransport

`_ManagedSession` and its owner, for both servers.  A session object is reused:
every start puts a new thread behind the same fields, so the model keeps of
each field the number of the start its value comes from.

| Actions | Code |
|---|---|
| `OwnerStep` | processes, `start` and its wait, the probe, a second start, `close` (look up the event, set it, join), step by step |
| `ThreadStep(s, g)` | the thread of start `g`: make the loop, connect, publish session and lock, wait for the shutdown event, clear the fields, close the loop it finds |
| `CallStep(k)` | look the loop up, post the coroutine, wait for the lock, call, answer; the caller's own timeout runs from the start |
| `Tick` | a second for the calls |

`late` and `broke` are history: sessions with a thread that outlived a wait,
and sessions that ended on their own while they were being closed.  What the
model brought to light, and the properties describe:

* a thread that outlives the wait of `start` or the join of `close` clears the
  fields of the next start and may close its loop, and a start that timed out
  leaves a thread without a shutdown event, which nothing can end;
* `close` looks the event up twice; a session that ends by itself in between
  makes it raise, and the other session and the processes stay;
* waiting for the lock counts against the caller's timeout, not the session's;
  the coroutine goes on when the caller has given up.

### WebTools

The three tools of the web server, called by threads at the same time, with
their limiters (`Acquire`: look, sleep outside the lock, look again) and
retries.  The text search's degradation is two assignments (`DdgDegrades`,
`DdgNames`), and other threads may look in between.  A bucket is counted in
ticks, so that a token's refill can be exact; `excess` is history, the most by
which tokens granted exceed the time passed over any stretch of it.

### MemoryStore

`memory_store.jsonl` as a sequence of pieces, each of which ends with its line,
without its newline, or torn; the next append continues the same line.
`AddRunCut` is a crash or a full disk in the middle of an append, `RecallRaises`
a planner that finds a line it cannot read.

### ClaimLedger

The evidence of one run from the plan to the gate: the filters of the retrieval
lanes and how they are taken back (`LaneResults`), the pool, one claim per
branch (`VerifyClaim`, `ClaimRow`; a bound), merging and citations, the
fallback report from the corpus, and what the gate can ask of each (`MayPass`).
Whether a page is on the topic, dated or located is left open, because words
decide it.  What it shows about the code: only coverage counts at the gate, and the identifiers
in the list of citations count as claims of the text; gap filling asks the
providers past the filters; the fallback report verifies by tier alone and
always leaves the open status unknown, so it never passes when the query asks
for what is open.

With one claim per branch a branch uses the first of the hundred numbers
`ClaimId` reserves for it.  The code puts no limit on the claims of a branch: a
model that answered with more than a hundred would run into the numbers of the
next one.  It is asked for one to three per source and is shown at most twelve
sources, and the model leaves that case out.

### ReportFormat

The sections of a report from the synthesizer over correction passes, gate and
retries to finalize.  A section is its heading and its place in what the
language model wrote, so that losing, moving and doubling can be told apart.
`Format` is translated step by step; `Corrected`, `Fill`, `Constrained` and
`WithTrace` are the places that add or replace.

`WithTrace` is the last step of finalize: after all formatting it writes up to
five lines about the run (lanes, providers, tiers, tasks) behind the first
mention of "## How This Research Was Done".  The code looks for it as a
substring, so a heading that goes on in other words, or a mention in a
paragraph, is found as well.  The field `traced` of a text says in which
section the lines stand.  The program's own method section mentions its
heading; whether another section does is a free choice, so the lines may stand
anywhere ahead of that section, and if there is none, anywhere or nowhere.  A
heading whose words go on keeps its identity in the model.  No gate has seen
these lines: `DeliveredExplained` leaves them out of the comparison (`Untraced`)
and asks instead that a report the program wrote has them at the end
(`RunIsTold`).

Whether a report has placeholder text is chosen when the gate reads it, and
kept for finalize, which looks for the same patterns in the same words: a
report with placeholders never passes the gate, and is replaced in strict mode.
`strict` and `fill` are the two completion modes; `template_fill` without
`allow_placeholder_sections` is neither, and neither fills nor replaces.

### ModelRouter

`select_model` as a ladder of providers, of which the first with a credential
is taken; the run goes through every request there is.

### MCServices

WebTools, MemoryStore, ClaimLedger, ReportFormat and ModelRouter share no
state.  They are checked in one run, as a disjoint sum: a behaviour is one of
one of them, the others stay as they were at the start.  Each is explored
completely; products of their states, which cannot matter, are not.

### StreamHeartbeat

`_with_heartbeat`: the producer task and the consumer are separate processes
over the queue, and `Tick` may fall between any two steps.  `AfterWarning` goes
on with the silence measured before the client took the warning, which may be
stale by then, as in the code.  `Close` is the closing of `event_generator`,
`Disconnect` a client that goes away at any point.  The result is the event
that carries the final state; of what was sent the model keeps errors, the
result and "done".

### ResearchPage

`page.tsx`: what the user does (`Search`, `StopRun`, `ResetWorkspace`, each
enabled where its button is) and what happens to the page.  A search waits for
its health check and then opens its stream (`HealthAnswers`), whether it is
still wanted or not; the timer of a search reads the refs all searches share.
`givenUp` and `staleTimer` are history: the two ways in which an earlier search
can reach into a later one.  Both are real: a search stopped during its health
check opens a stream no button closes before the next search's own is opened,
and its report can appear under the next question; and the timer of a search
that was stopped can end the next one.

`MCFront` checks the page together with `RequestDispatch`, again as a disjoint
sum.  The events of a stream come in any order, which is more than
`StreamHeartbeat` allows.

### RunStore

Every file operation of a run is a step: three artifacts, the sweep file by
file, and the upsert as read, truncate, write.  A write that finds bytes of
another writer keeps what is longer than its own lines (`behind`), as writing
at an offset does.  Any process may die between two steps.  `resume` checks,
then reads, report, citations and eval in the code's order.  The sweep goes
through a directory in reverse order of names, hence `final_report.md`,
`eval.json`, `citations.json` (`Expired`).  The files of one run are assumed to
pass the retention limit together: they are written milliseconds apart and the
limit is at least a day.

## Runs

| Run | Bounds | What it shows |
|---|---|---|
| `ResearchGraph_safety` | 3 branches, limits 0 to 2, recursion limit 15 | the judged draft is the one delivered, honest status, no claim without evidence, no branch lost, supersteps bounded |
| `ResearchGraph_contract` | 2 branches, limits 0 and 1 | refinement of `ReviewContract`, and termination |
| `ResearchGraph_corrector` | 2 branches, limit 0 | violation: the correction model is never asked |
| `RequestDispatch_dispatch` (`MCFront`) | 2 requests of any kind; 3 searches of a page | refinement of `RequestContract`; strict requests are never served inline, no request is researched a third time or a second time unannounced, every accepted request is answered; the page follows its last search unless one was given up during its health check, and is always unlocked again |
| `RequestDispatch_tier` | 1 request, tiers free and pro | violation: a run in a worker has the default tier |
| `McpClient_breaker` | 3 threads, threshold 2, recovery 2, 6 calls, clock up to 4 | the mode is respected, searches degrade, the fallback is reported; refinement of `CircuitBreaker`, and an open circuit is shut |
| `McpTransport_sessions` | 2 calls to one server, 2 starts of each session, call timeout 1, margin 1, 1 mishap | sessions and calls are kept apart, a caller gives up for a reason, every way in which closing leaves something |
| `Services_components` | 2 threads, burst 1, a token in 2 ticks, 1 retry, 2 text queries; 3 runs, 2 cut writes; 2 documents, 2 branches, threshold 85; reports of up to 3 sections, 1 round; every request of the router | limiters kept, degradation told, every call returns; only cut writes lose a memory; stale, closed, uncited and uncounted evidence only where the code is known to let it through; formatting settles and keeps text, what is delivered is explained; calls go where the configuration means |
| `StreamHeartbeat_ends` | 2 stages (limits 0 and 3 s), 3 events, maximum runtime none or 5 | no lost result, warned before stopped, no producer left, one end mark; every stream ends |
| `StreamHeartbeat_failure` | the same | violation: a failing graph ends the stream without an error |
| `RunStore_concurrent` | 3 runs at a time, crashes | a resumed run has its citations; records are lost only in a race |
| `RunStore_lost` | 2 runs | violation: one of two records is lost |

Why the bounds are enough.  Branches do not read each other's state, so with
three of them there is one that succeeded, one that failed and one still
running.  The loops only compare the counter with the limit: limit 2 has a
first, a middle and a last round, and a human retry after it.  15 is the
smallest recursion limit that fits limit 2, so an extra superstep would show;
the default of LangGraph is 25, which fits limits up to 7.  In the stream the
idle limits 0 (raised to 1) and 3, the interval 1 and the cap `Patience` = 4
beyond the largest limit let a warning, a stale warning and a stop happen in
each order; `WarnPercent` = 150 exercises the clamp.  Requests meet
only in the worker and the broker they share, so two of them show every
interference.  With threshold 2
three threads can be admitted before a circuit opens, so that one of them
succeeds or fails after it; six calls open a circuit, fall back behind it and
probe it after the recovery time, for which the clock goes two steps further
than the recovery.  Two runs suffice for the
lost update; three let a sweeper, a resumed run and a writer meet.

A session has at most two starts, because a run probes its transport twice.
Two calls make one wait for the lock of the other; timeout 1 and margin 1 let
either limit come first; one mishap is enough for a thread to outlive its start
or its close and for a session to end on its own.  The two servers differ only
in the order in which the owner takes them, so calls are made to one.  With two
threads and burst 1 one thread overtakes the other's sleep; two ticks per token
make a half-refilled bucket; one retry has a first and a last attempt, and two
text queries one before and one after the other thread's degradation.  Of three
runs on the memory file one is cut, one appends behind it, one reads.  Of the
two documents one may be stale or closed and in the top tier, the other is
neither; two branches can share a document, an identifier, or neither; 85 is the
default threshold, and lies between one and both of two claims cited.  Three
sections give an order, a duplicate and a foreign heading: each structure's
headings are foreign to the other.  Three searches are
one that was stopped, one whose timer or stream comes late, and one that
suffers it.

Deadlock is checked in every run but one: an ended pipeline, stream or session
stutters in an action of its own (`Done`, `Over`).  `Services_components` says
`CHECK_DEADLOCK FALSE`, because its components really stop: a run that has been
judged or remembered has no next step.

Type invariants are proved, not run: each is the first conjunct of an inductive
invariant below.  So is the bound on the corrections (`CorrectionBound`), whose
run would say no more than that of `WithinRecursionLimit`.  `ReportFormat` and
`ModelRouter` have none: what their few variables hold is read off the actions.

### Fairness

* `ResearchGraph!FairSpec`: weak fairness of `NodeReturns`, not of `NodeRaises`:
  a node returns or raises, because its calls have request timeouts and bounded
  retries; a human who is asked answers.  No fairness on what the gate decides,
  so termination rests on the loop bounds.
* `StreamHeartbeat!FairSpec`: weak fairness of the clock, of the consumer (the
  event loop schedules it and the client reads or goes away) and of the
  producer's end.  None on the graph: it may hang.
* `RequestDispatch!FairSpec`: weak fairness of each handler, whose every wait ends
  by a deadline or a request timeout.  None on workers and broker.
* `MCServices!Spec`: weak fairness of the web tool server as a whole
  (`WebPart`): threads that can run do, a sleep ends, a request to a provider
  has a timeout.  Nothing is asked of which thread goes first, so
  `EveryCallAnswered` rests on the sleeping thread finding a token in the end:
  each caller makes one call, so it is overtaken finitely often.  The code
  gives no more than that: under a stream of other callers a thread could be
  overtaken for ever.
* `MCFront!FrontSpec`: besides the handlers, weak fairness of `NetworkAnswers`:
  a health check ends (the request is aborted after 8 s; only reading its body
  has no limit, page.tsx:208), and so does a stream, which is what
  `StreamEnds` says of the server.  Nothing is asked of user and timers.
* `RunStore`, `McpClient` and `McpTransport` have no liveness property and no
  fairness.

## Disagreements the runs show

1. `CorrectorAsksModel`: README.md:37 says the corrector uses robust models.
   The node asks one only if `context_docs` is non-empty, and no node writes
   that channel.  Every pass over a wanting draft adds a note instead.
2. `FailureReported`: the stream of an inline run that raises should yield an
   error event (comment at service/api.py:795).  The exception stays in the
   producer task, and the client gets `done` with `final_emitted: false`.
3. `RegisteredStays` with two writers: the registry is read, merged and
   rewritten without a lock, so one of two runs that end together loses its
   record.  Only then, or when a process dies while it rewrites the file
   (`LostOnlyInARace`).
4. `TierKept`: README.md:38 promises tier-based quotas and routing.  A dispatch
   carries query and tenant only, so a worker runs every request with the tier
   of its own environment.

## Proofs

`ResearchGraphProofs` proves, for every finite set of branches, every set of
loop limits and every recursion limit that satisfies `Assumption`:

| Theorem | Property |
|---|---|
| `TypeCorrect` | `TypeOK` |
| `JudgedBeforeUse` | `DeliveredWasJudged` |
| `CorrectionsBounded` | `CorrectionBound` |
| `StatusAgrees` | `StatusHonest` |
| `RecursionLimitHolds` | `WithinRecursionLimit` |
| `FailsClosed` | `NoEvidenceFailsClosed` |
| `LedgerHolds` | `BranchLedger` |
| `ContractImplemented` | `ImplementsReview` |
| `NobodyWaitsForNobody` | a join always has a member that has not returned |
| `EveryStepCountsDown` | every step lowers a natural number |

The argument.  None of these is inductive alone.  `ReviewInv` is the inductive
invariant of the review loop, in three parts: `FreshInv` ties `judged` to
`drafts` by the place the run is in; `LoopInv` says what the gate's flags
allow where the run is (a run is at `self_correction_retry` only with
corrections left or with the human's one retry); `StatusInv` ties decision,
`low` and verdict.  `StepsInv` bounds the supersteps by what the corrections
begun so far account for (`Spent`), which is why the number of branches does
not matter: a fan-out is one superstep.  `EvidenceInv` carries "no evidence"
from the synthesizer through every correction to the end; `LedgerInv`
partitions the subtopics of a fan-out into those that returned and those
pending.  The refinement combines `ReviewInv` with the type invariant: the
budget of the contract is the limit plus one.

The last two are the safety half of `Termination`.  `CountsDown` is an action
property: the supersteps a run may still start, each weighed more than a
parallel superstep can have members, plus the members that have not returned,
is a natural number that every step lowers, a raise too.  It needs
`WithinRecursionLimit` for the first part and `LedgerInv` for the second.  So no
run is infinite, and since no join waits for nobody, all that is left to
fairness is that a node that runs returns.  TLC checked both with two branches and
limits up to 2 before they were proved.

`ToolProofs` is about both ends of a tool call.  Of the client it proves, for
every finite set of threads and every threshold and recovery time above zero:

| Theorem | Property |
|---|---|
| `TypeCorrect` | `TypeOK` |
| `ModesRespected` | `ModeRespected` |
| `SearchesAlwaysDegrade` | `SearchesDegrade` |
| `FallbackAlwaysReported` | `FallbackReported` |
| `BreakersConsistent` | `BreakerConsistent`, the invariant behind the next two |
| `BreakersImplemented` | `ImplementsBreakers` |
| `OpenCircuitsShut` | `OpenLetsNobodyIn` |

The argument.  `ClientInv` adds to the properties what they rest on: no call
before the client is ready, a call is out on an open client only while its
transport is active (so a failure that finds the flag cleared means a closed
client), and only the report is written again.  `OpenLetsNobodyIn` is inductive
next to `BreakerConsistent`: a failure while a circuit is open takes the place
of the call it was, and a count at the threshold is what keeps it open, so the
sum of calls under way and failures counted since it opened never grows.
For the refinement, `Admit` is `Enter` when the breaker allows and a stutter when
not, a report is `Succeed` or `Fail` (`CircuitAfter`, where `BreakerConsistent`
rules out a count at the threshold without a time), the clock is `Wait`, and
every other step leaves circuits and who is inside alone (`Stutters`).

Of the web tool server it proves, for every finite set of threads, capacity,
rate and number of retries:

| Theorem | Property |
|---|---|
| `WebTypeCorrect` | `WebTypeOK` |
| `RateAlwaysKept` | `RateKept` |
| `DegradationAlwaysReported` | `DegradationReported` |

The argument.  `GoodCalls` counts the requests of a call by where it is in which
attempt.  `BucketInv` is the invariant of a token bucket: what was granted
beyond the time passed and what the bucket could still grant are together at
most its burst.  `DegradedInv` keeps for each thread what it saw of the flag.

`RequestDispatchProofs` proves, for every set of requests and of tiers:

| Theorem | Property |
|---|---|
| `TypeCorrect` | `TypeOK`, with at most two runs per request |
| `StrictlyDistributed` | `StrictDistributed` |
| `AnswersAreReal` | `AnswerIsReal`, which the next one contains |
| `ContractKept` | `ImplementsContract` |
| `HandlersAdvance` | no step takes a handler back, each of its own takes it forward |
| `SecondRunsExplained` | `SecondRunExplained` |

The argument.  The bound on the runs is not inductive: a worker may take a task
long after the request was answered.  `RunsCounted` accounts for them instead,
one run for a task that was taken (`Taken`) and one for a handler that went
inline, and `FallBackKnown` says that whoever went inline past a task is in auto
mode and has announced it.  Requests do not touch each other (`OneAtATime`), so
the invariant is proved for one request and one step at a time; only the death
of a worker changes several.  The refinement maps each step of a request to one
step of its contract: accepting is `Ask`, sending the task `Send`, its success
`Work`, fetching it `Serve`, each fallback `GiveUp`, and probes, polls and all
that happens to a task without a result stutter.  It needs `FallBackKnown`: who
hopes for a worker did not ask for an inline run, and a dispatch finds no task.
`HandlersAdvance` is the safety half of `Answered`: places have a rank that no
step lowers and every step of the handler raises, so a worker is tried once, an
answer is final, and only fairness is left.

`RunStoreProofs` proves, for every finite set of runs:

| Theorem | Property |
|---|---|
| `TypeCorrect` | `TypeOK` |
| `ResumesWhole` | `ResumedWhole` |
| `LosesOnlyInARace` | `LostOnlyInARace` |

The argument.  `WriteOrder` says of each run that nothing of it is swept while
it writes, that it writes eval.json last, and hence that an eval.json that is
there has its citations beside it: the sweep takes them in the other order.
`ReaderInv` carries this over the reader's steps: who found no citations will
find no eval.json.  `RaceInv` says that before the first race there is one
upsert at a time and what it is about to write holds every record.

`StreamProofs` proves, for every set of stages, all limits, ratios and intervals:

| Theorem | Property |
|---|---|
| `TypeCorrect` | `TypeOK` |
| `MarkIsLast`, `ProducerAlwaysStopped` | `EndIsLast`, `ProducerStopped` |
| `QuietEnd` | `QuietEndMeansFailure` |
| `WarnedFirst` | `WarnedBeforeStopped` |
| `PageTypeCorrect`, `PageAlwaysFollows` | `PageTypeOK`, `PageFollowsLatest`, for any number of searches |

The argument.  `EndInv` ties the end mark in the queue to a producer that has
stopped, which makes it the last; `ResultInv` says where the result of a
finished graph is (sent, or still in the queue) and why the consumer is
closing.  For the warning, the arithmetic lemma `WarnInTime` shows that
the clamped ratio of an idle limit never exceeds the limit, and `WarnInv` keeps
the flag until the stop.  `PageInv` adds to the property what it rests on: as
long as no search was given up during its health check, only the last one can
be waiting for one, with the form locked, and the ref holds the only open
stream.

`EvidenceProofs` proves, for every finite set of runs, of documents and of
branches, any plan's numbers and any threshold:

| Theorem | Property |
|---|---|
| `MemoryTypeCorrect` | `MemoryTypeOK` |
| `OnlyCutWritesHurt` | `CutWritesExplain` |
| `LedgerTypeCorrect` | `LedgerTypeOK` |
| `StaleAlwaysExplained` | `StaleExplained` |
| `PassedIsOpen` | `PassedMeansOpen` |
| `CitationsAlwaysFaithful` | `CitationsFaithful` |
| `FailedCountAlwaysExplained` | `FailedCountExplained` |

The argument.  In the memory file every piece that is no line was cut
(`FileInv`), and a run has no piece before it adds itself (`NotYetWritten`).
`LedgerInv` follows the evidence: nothing is found before the plan and nothing
written before synthesis (`OrderInv`); what is stale in the pool was readmitted
(`PoolInv`); a branch adds at most one row, which is sound, under its own
identifier (`FindingSound`); what a written report may hold depends on who
wrote it (`DraftInv`).  The count of failed branches then is arithmetic of
cardinalities: branches with a row are those that reported.

`McpTransportProofs` proves, for every set of calls and all limits:

| Theorem | Property |
|---|---|
| `TypeCorrect` | `TypeOK` |
| `SessionsKeptApart` | `SessionsApart` |
| `GivenUpOnlyForAReason` | `GivenUpForAReason` |
| `ClosesExplained` | `CloseExplained` |

The argument.  `PlaceInv` ties the counts of starts and the fields to the place
the owner is in.  `CalmInv` says of a session no thread of which outlived a
wait that its fields follow the life of the last thread alone; `CallsInv` that a
lock has one holder, and that the age of a call without a reason to be given up
is the time it has held the lock, which the session's own limit bounds.

`ReportProofs` proves, for every pair of section lists that satisfies
`FormatAssumption`, any texts and any number of correction rounds, and for
every configuration of the router:

| Theorem | Property |
|---|---|
| `FormatTwice` | formatting what is formatted changes nothing, for any text |
| `FormatSettlesAlways` | `FormatSettles` |
| `TextKeptAlways` | `TextKept` |
| `DeliveredExplainedAlways` | `DeliveredExplained` |
| `RetryChangesNothing` | a correction retry leaves the report as it is |
| `RoutedAsConfiguredAlways` | `RoutedAsConfigured` |

The argument.  Nearly all of it is about the formatter, and stated as lemmas on
its operators: what `Keeping` takes of a sequence (by the rank of a position
among those taken, which needs no induction over the sequence), what `Listed`
and `Unlisted` return, that arranging sections by two lists loses no heading,
makes none up and leaves none twice (`ArrangedIs`), and that sections so
arranged stay where they are (`ArrangedAgain`).  `FormatTwice` follows, since
the sources the formatter adds are the first thing it cuts and the confidence
summary it adds is there the next time.  `FormatInv` then says that from the
first formatting on there is one text, the draft formatted once: a correction
pass notes its issues behind the sources, where formatting cuts them
(`CorrectedIs`).  Only the program's own drafts come to the first pass as they
were written, and these end with their sources (`ProgramEnds`).  The lines
about the run change no section (`TraceIs`), which is why they can be taken off
again to compare; a draft of the program has its method section on its own list
only (`OwnMethod`), and formatting keeps it (`FormatTells`, `OwnTells`), so that
the lines find their place.  `FormatInv`
was model-checked on the instance of `Services_components` before it was
proved.  `FormatAssumption` asks of the lists what the three lists in the code
(core/report_formatter.py:11, 21, 41) have: no heading twice, the sources on
none of them, and no technical section on the list of a decision brief.  For
the router, the ladder names only providers that may be asked (`LadderIs`), and
every free one.

Model-checked only: `Termination`, `StreamEnds`, `Answered`,
`EveryCallAnswered` and `SearchEnds`, because liveness is out of reach of the
proof system's provers.  Of `Termination` and `Answered` the safety half is proved
(`EveryStepCountsDown`, `NobodyWaitsForNobody`, `HandlersAdvance`); the step from
there to "eventually" needs the fairness.  Every other property of the passing
runs is proved.

## Not modelled

* What words decide: prompts, the heuristics that read dates, tiers, topics and
  scores off a text (`core/source_quality.py`, `core/query_profile.py`,
  `core/claim_scoring.py`, parts of `core/report_quality.py`), the judges'
  scores.  Where control depends on them the outcome is chosen freely, so the
  properties hold whatever they compute; what they compute is no state.
* Configuration loading (`core/config.py`): reads the environment once.  The
  fields control depends on are constants or initial choices.
* The command line, the tool server applications, metrics and tracing, the
  optional Postgres storage, scripts and deployment: they call what is
  modelled, or write what nothing in the control flow reads back.
* The display components of the web UI: they show what the page's state says.
* The pool of threads that serves POST requests (api.py:520 holds one for the
  whole wait): it belongs to the framework, and requests meet nowhere else but
  in the broker and worker of `RequestDispatch`.
* Crashes of the service process as a whole inside a run: nothing of a run is
  persisted before finalize, whose crashes `RunStore` has.
