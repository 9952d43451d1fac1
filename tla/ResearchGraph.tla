--------------------------- MODULE ResearchGraph ----------------------------
(***************************************************************************)
(* The compiled LangGraph pipeline of graph/pipeline.py: planner, parallel *)
(* retrieval or a map-reduce fan-out over subtopics, synthesizer,          *)
(* self-correction, evaluation gate, human in the loop, finalize.          *)
(*                                                                         *)
(* LangGraph runs the graph in supersteps: every node scheduled in one     *)
(* runs on the state the previous one left, and the next one starts when   *)
(* all of them have returned.  `at' is the superstep in progress and       *)
(* `pending' the members of a parallel one that have not returned yet.     *)
(* An exception leaving a node ends the invocation.                        *)
(*                                                                         *)
(* Abstracted: documents, citations and report text.  A retrieval lane     *)
(* either finds citable documents or does not; of a report the model keeps *)
(* what it was built from and how often it was rewritten.                  *)
(***************************************************************************)
EXTENDS Naturals, FiniteSets

CONSTANTS
  Branches,   \* positions in the list of subtopics the planner returns
  Limits,     \* the values of correction_loop_limit considered
  RecursionLimit  \* supersteps LangGraph runs before it gives up

Lanes == {"tavily", "ddg", "firecrawl"}

ASSUME Assumption ==
  /\ IsFiniteSet(Branches)
  /\ Branches # {}
  /\ Branches \cap Lanes = {}
  /\ Limits \subseteq Nat
  /\ RecursionLimit \in Nat
  /\ \A l \in Limits : 11 + 2 * l <= RecursionLimit

\* The fields of RunConfig the control flow of the graph reads.
Config ==
  [ mode        : {"disabled", "map_reduce"},
    policy      : {"continue_constrained", "retry_once", "fail_closed"},
    limit       : Limits,
    hitl        : {"on_low_confidence", "always", "never"},
    interactive : BOOLEAN ]

\* How a branch reported: with evidence at some confidence, with the
\* placeholder report of a failed branch, or not at all.
Evidenced == {"high", "mixed", "constrained"}
Report    == Evidenced \cup {"placeholder", "none"}

Supersteps ==
  { "planner", "research", "research_pool", "sub_research", "synthesizer",
    "self_correction", "eval_gate", "self_correction_retry", "hitl",
    "finalize", "end" }

Statuses ==
  {"running", "completed", "completed_low_confidence", "aborted", "raised"}

VARIABLES
  cfg,          \* the run's configuration, fixed at the start
  at,           \* the superstep in progress
  pending,      \* branches or lanes of it that have not returned
  steps,        \* supersteps started
  subtopics,    \* state["subtopics"]
  firecrawl,    \* state["firecrawl_requested"]
  docs,         \* lanes whose *_docs channel holds a citable document
  corpus,       \* is state["shared_corpus_docs"] non-empty?
  context,      \* is state["context_docs"] non-empty?
  reports,      \* state["sub_reports"], by the branch that wrote it
  failures,     \* branches named in state["subtopic_failures"]
  basis,        \* what state["report_draft"] was built from
  drafts,       \* how many times report_draft was written
  judged,       \* the value of `drafts' when eval_gate last looked
  verdict,      \* state["eval_result"].pass_gate; "none" before eval_gate
  corrections,  \* state["correction_count"]
  retry,        \* state["needs_correction"]
  low,          \* state["low_confidence"]
  decision,     \* state["hitl_decision"]
  humanRetry,   \* state["hitl_retry_used"]
  pass,         \* what the last correction pass did with the draft
  delivered,    \* what final_report holds: "none", "draft" or "actionable"
  status        \* what the caller of the graph is told

research == <<subtopics, firecrawl, docs, corpus, context, reports, failures>>
drafting == <<basis, drafts, pass>>
review   == <<judged, verdict, corrections, retry, low, decision, humanRetry>>
result   == <<delivered, status>>
vars     == <<cfg, at, pending, steps, research, drafting, review, result>>

-----------------------------------------------------------------------------
(* Scheduling.                                                             *)

\* The superstep `next' starts with the parallel members `members'.
Start(next, members) ==
  /\ at' = next
  /\ pending' = members
  /\ steps' = steps + 1

\* Mutant: the last member to return does not start the next superstep.
UnjoinedReturn(m, next) ==
  m \in pending /\ pending' = pending \ {m} /\ UNCHANGED <<at, steps>>

\* Member m of a parallel superstep returns; the last one starts `next'.
Return(m, next) ==
  /\ m \in pending
  /\ IF pending = {m} THEN Start(next, {})
     ELSE pending' = pending \ {m} /\ UNCHANGED <<at, steps>>

Init ==
  /\ cfg \in Config
  /\ at = "planner" /\ pending = {} /\ steps = 1
  /\ subtopics = {} /\ firecrawl = FALSE
  /\ docs = {} /\ corpus = FALSE /\ context = FALSE
  /\ reports = [b \in Branches |-> "none"] /\ failures = {}
  /\ basis = "none" /\ drafts = 0 /\ pass = "none"
  /\ judged = 0 /\ verdict = "none" /\ corrections = 0
  /\ retry = FALSE /\ low = FALSE
  /\ decision = "accept" /\ humanRetry = FALSE
  /\ delivered = "none" /\ status = "running"

-----------------------------------------------------------------------------
(* Planning and retrieval.                                                 *)

\* Every path of the planner ends with at least one subtopic in map_reduce
\* mode: an empty list is replaced by the heuristic facets.
Planner ==
  /\ at = "planner"
  /\ firecrawl' \in BOOLEAN
  /\ \/ /\ cfg.mode = "map_reduce"
        /\ subtopics' \in SUBSET Branches \ {{}}
        /\ Start("research_pool", {})
     \/ /\ cfg.mode = "disabled"
        /\ UNCHANGED subtopics
        /\ Start("research", Lanes)
  /\ UNCHANGED <<cfg, docs, corpus, context, reports, failures, drafting,
                 review, result>>

\* A retrieval lane returns; `found' says whether it may have documents.
LaneReturns(l, found) ==
  /\ at = "research"
  /\ Return(l, "synthesizer")
  /\ \E f \in found : docs' = IF f THEN docs \cup {l} ELSE docs
  /\ UNCHANGED <<cfg, subtopics, firecrawl, corpus, context, reports,
                 failures, drafting, review, result>>

\* Filtering may drop everything the provider returned, and a provider that
\* is down returns a placeholder without a URL.
Tavily == LaneReturns("tavily", BOOLEAN)
Ddg    == LaneReturns("ddg", BOOLEAN)

\* Firecrawl goes out only when the planner asked for it.
Firecrawl == LaneReturns("firecrawl", {FALSE, firecrawl})

\* The lanes that may have documents in the pool.
Searched == IF firecrawl THEN Lanes ELSE Lanes \ {"firecrawl"}

\* The pool calls the three lanes in turn and keeps what has a usable URL,
\* then one branch is sent out per subtopic.
ResearchPool ==
  /\ at = "research_pool"
  /\ docs' \in SUBSET Searched
  /\ corpus' \in {FALSE, docs' # {}}
  /\ IF subtopics = {} THEN Start("synthesizer", {})
     ELSE Start("sub_research", subtopics)
  /\ UNCHANGED <<cfg, subtopics, firecrawl, context, reports, failures,
                 drafting, review, result>>

\* Mutant: a branch that leaves a placeholder is not recorded as failed.
UnrecordedBranch(b) ==
  /\ reports' = [reports EXCEPT ![b] = "placeholder"]
  /\ UNCHANGED failures

\* A branch without documents, or without a claim, fails under
\* "fail_closed" and otherwise leaves a placeholder; both are recorded.
FailedBranch(b) ==
  /\ failures' = failures \cup {b}
  /\ reports' = IF cfg.policy = "fail_closed" THEN reports
                ELSE [reports EXCEPT ![b] = "placeholder"]

\* A branch has the shared corpus to read, or what gap filling finds; it
\* fails for want of documents, or of a claim in them.  extract_claims turns
\* what the model raises into an empty list, so a timeout is a missing claim.
SubResearch(b) ==
  /\ at = "sub_research"
  /\ Return(b, "synthesizer")
  /\ \/ FailedBranch(b)
     \/ /\ reports' \in {[reports EXCEPT ![b] = c] : c \in Evidenced}
        /\ UNCHANGED failures
  /\ UNCHANGED <<cfg, subtopics, firecrawl, docs, corpus, context, drafting,
                 review, result>>

-----------------------------------------------------------------------------
(* Drafting.                                                               *)

Reported == {b \in Branches : reports[b] # "none"}

\* Mutant: with branch reports to merge, the empty corpus goes unnoticed.
MergeAnyReports ==
  IF subtopics # {}
  THEN IF Reported = {} THEN {"fail_closed"} ELSE {"merged", "timeout_brief"}
  ELSE IF docs = {} THEN {"fail_closed"} ELSE {"merged", "analytical"}

\* The map-reduce path fails closed on an empty corpus before it looks at
\* the branch reports; a model failure falls back to the reports (timeout)
\* or to the corpus.  The inline path falls back to the documents.
SynthesisBasis ==
  IF subtopics # {}
  THEN IF ~corpus \/ Reported = {} THEN {"fail_closed"}
       ELSE {"merged", "timeout_brief", "analytical"}
  ELSE IF docs = {} THEN {"fail_closed"} ELSE {"merged", "analytical"}

Synthesizer ==
  /\ at = "synthesizer"
  /\ basis' \in SynthesisBasis
  /\ drafts' = drafts + 1
  /\ Start("self_correction", {})
  /\ UNCHANGED <<cfg, research, pass, review, result>>

\* Both correction nodes lead to the gate; mutant: they lead past it.
PastTheGate == "finalize"
AfterCorrection == "eval_gate"

\* The body of self_correction: a draft in order is reformatted; one that is
\* not gets a rewrite by the correction model if there are context documents
\* to rewrite from, else a note.  report_draft is written in every case.
CorrectionPass ==
  /\ drafts' = drafts + 1
  /\ pass' \in {"in_order", IF context THEN "asked_model" ELSE "noted"}
  /\ UNCHANGED basis

SelfCorrection ==
  /\ at = "self_correction"
  /\ CorrectionPass
  /\ Start(AfterCorrection, {})
  /\ UNCHANGED <<cfg, research, review, result>>

SelfCorrectionRetry ==
  /\ at = "self_correction_retry"
  /\ CorrectionPass
  /\ corrections' = corrections + 1
  /\ Start(AfterCorrection, {})
  /\ UNCHANGED <<cfg, research, judged, verdict, retry, low, decision,
                 humanRetry, result>>

-----------------------------------------------------------------------------
(* Review.                                                                 *)

\* pass_gate needs the citation coverage threshold.  A fail-closed draft
\* holds no claim identifier, so its coverage is zero.
PossibleVerdicts ==
  IF basis = "fail_closed" THEN {"fail"} ELSE {"pass", "fail"}

\* Mutant: while corrections are left, a draft that passed is corrected too.
CorrectFirst(v, r) ==
  IF corrections < cfg.limit THEN "self_correction_retry"
  ELSE IF v = "pass" THEN "finalize" ELSE "hitl"

RouteAfterEval(v, r) ==
  IF v = "pass" THEN "finalize"
  ELSE IF r THEN "self_correction_retry" ELSE "hitl"

\* Mutant: an off-by-one in the loop limit.
LoopsLeftInclusive == corrections <= cfg.limit
LoopsLeft == corrections < cfg.limit

EvalGate ==
  /\ at = "eval_gate"
  /\ judged' = drafts
  /\ verdict' \in PossibleVerdicts
  /\ retry' = (verdict' = "fail" /\ LoopsLeft)
  /\ low' = (verdict' = "fail" /\ ~retry')
  /\ Start(RouteAfterEval(verdict', retry'), {})
  /\ UNCHANGED <<cfg, research, drafting, corrections, decision, humanRetry,
                 result>>

\* Mutant: the retry that was already used is forgotten.
ForgetfulAnswers ==
  IF ~low \/ cfg.hitl = "never" \/ ~cfg.interactive THEN {"accept_with_warning"}
  ELSE {"accept", "accept_with_warning", "abort", "retry"}

\* The human is asked only in an interactive run; any other answer, and a
\* second request to retry, count as accepting with a warning.
Answers ==
  IF ~low THEN {"accept"}
  ELSE IF cfg.hitl = "never" \/ ~cfg.interactive THEN {"accept_with_warning"}
  ELSE {"accept", "accept_with_warning", "abort"}
         \cup IF humanRetry THEN {} ELSE {"retry"}

RouteAfterHitl(d) ==
  IF d = "retry" THEN "self_correction_retry" ELSE "finalize"

Hitl ==
  /\ at = "hitl"
  /\ decision' \in Answers
  /\ humanRetry' = (humanRetry \/ decision' = "retry")
  /\ Start(RouteAfterHitl(decision'), {})
  /\ UNCHANGED <<cfg, research, drafting, judged, verdict, corrections, retry,
                 low, result>>

\* Mutant: the status follows the human's answer, not the verdict.
StatusByAnswer ==
  IF decision = "abort" THEN "aborted"
  ELSE IF decision = "accept_with_warning" THEN "completed_low_confidence"
  ELSE "completed"

FinalStatus ==
  IF decision = "abort" THEN "aborted"
  ELSE IF low THEN "completed_low_confidence" ELSE "completed"

\* strict_no_placeholders replaces a draft with missing sections or
\* placeholder text by the constrained report, unless it is fail-closed.
Finalize ==
  /\ at = "finalize"
  /\ delivered' \in IF basis = "fail_closed" THEN {"draft"}
                    ELSE {"draft", "actionable"}
  /\ status' = FinalStatus
  /\ at' = "end"
  /\ UNCHANGED <<cfg, pending, steps, research, drafting, review>>

-----------------------------------------------------------------------------

\* Tool calls (strict transport) and the memory lookup are made outside any
\* try block; what they raise leaves the node and ends the invocation.
NodeRaises ==
  /\ at \in {"planner", "research", "research_pool", "sub_research"}
  /\ at' = "end"
  /\ pending' = {}
  /\ status' = "raised"
  /\ UNCHANGED <<cfg, steps, research, drafting, review, delivered>>

\* The invocation is over; nothing more happens.
Done == at = "end" /\ UNCHANGED vars

NodeReturns ==
  \/ Planner \/ ResearchPool \/ Synthesizer \/ SelfCorrection \/ EvalGate
  \/ SelfCorrectionRetry \/ Hitl \/ Finalize
  \/ Tavily \/ Ddg \/ Firecrawl
  \/ \E b \in Branches : SubResearch(b)

Step == NodeReturns \/ NodeRaises

Next == Step \/ Done

Spec == Init /\ [][Next]_vars

\* Every node returns unless one raises: the calls a node makes are bounded
\* by request timeouts and retry limits, and a human who is asked answers.
FairSpec == Spec /\ WF_vars(NodeReturns)

-----------------------------------------------------------------------------
(* Properties.                                                             *)

Passes == {"none", "in_order", "asked_model", "noted"}

\* Every channel of the state holds a value of its kind.
TypeOK ==
  /\ cfg \in Config
  /\ at \in Supersteps
  /\ pending \subseteq Branches \cup Lanes
  /\ steps \in Nat
  /\ subtopics \subseteq Branches
  /\ firecrawl \in BOOLEAN /\ corpus \in BOOLEAN /\ context \in BOOLEAN
  /\ docs \subseteq Lanes
  /\ reports \in [Branches -> Report]
  /\ failures \subseteq Branches
  /\ basis \in {"none", "fail_closed", "merged", "timeout_brief", "analytical"}
  /\ drafts \in Nat /\ judged \in Nat /\ corrections \in Nat
  /\ pass \in Passes
  /\ verdict \in {"none", "pass", "fail"}
  /\ retry \in BOOLEAN /\ low \in BOOLEAN /\ humanRetry \in BOOLEAN
  /\ decision \in {"accept", "accept_with_warning", "abort", "retry"}
  /\ delivered \in {"none", "draft", "actionable"}
  /\ status \in Statuses

Finished == status \in {"completed", "completed_low_confidence", "aborted"}

\* What a human decides on, what is sent back for correction and what is
\* finalized is the draft the evaluation gate last judged: nothing writes
\* report_draft between the verdict and its use, over any number of loops
\* (pipeline.py routes every correction pass back to eval_gate).
DeliveredWasJudged ==
  at \in {"hitl", "self_correction_retry", "finalize"} \/ Finished
    => judged = drafts /\ drafts > 0

\* The two ways back to self-correction together never exceed the
\* configured loop limit plus the one retry a human may ask for: the
\* automatic guard of eval_gate counts the human's retry too.
CorrectionBound ==
  corrections <= cfg.limit + (IF humanRetry THEN 1 ELSE 0)

\* The reported status agrees with the last verdict, although it is computed
\* from low_confidence and from a hitl_decision that may date from before the
\* last correction; a low-confidence or aborted run has used up its loops.
StatusHonest ==
  /\ status = "completed" => verdict = "pass"
  /\ status \in {"completed_low_confidence", "aborted"}
       => verdict = "fail" /\ corrections >= cfg.limit

NoEvidence == IF subtopics # {} THEN ~corpus ELSE docs = {}

\* README "fail-closed reporting when no valid external evidence is
\* available": such a run ends with the fail-closed report itself and is
\* never called completed, however often it is corrected and judged.
NoEvidenceFailsClosed ==
  Finished /\ NoEvidence =>
    basis = "fail_closed" /\ delivered = "draft" /\ status # "completed"

Fanning == at \in {"planner", "research", "research_pool"}
             \/ status = "raised"

\* After the fan-out has been joined the reducers have lost no branch: each
\* subtopic brought evidence or a recorded failure, never both, and a failed
\* branch is missing from the reports exactly under "fail_closed".
BranchLedger ==
  LET returned == IF Fanning THEN {} ELSE subtopics \ pending IN
  /\ failures \subseteq subtopics
  /\ \A b \in returned :
       IF b \in failures
       THEN reports[b] = (IF cfg.policy = "fail_closed" THEN "none"
                          ELSE "placeholder")
       ELSE reports[b] \in Evidenced

\* A run needs at most 11 supersteps and two per configured correction, so
\* with the limits assumed LangGraph's recursion limit never ends it.
WithinRecursionLimit == steps <= 11 + 2 * cfg.limit /\ steps <= RecursionLimit

\* README "Corrector: Uses robust models for self-correction": a pass over a
\* draft that is not in order, in a run that has documents, asks the model.
CorrectorAsksModel == corpus \/ docs # {} => pass # "noted"

\* Every run ends, whatever the judge and the human answer.
Termination == <>(at = "end")

\* The pipeline implements the review contract.
Phase ==
  IF status = "raised" THEN "raised"
  ELSE IF Finished THEN "delivered"
  ELSE IF at \in {"hitl", "self_correction_retry", "finalize"} THEN "judged"
  ELSE "drafting"

Review == INSTANCE ReviewContract WITH
  phase <- Phase, verdict <- verdict, reworks <- corrections,
  budget <- cfg.limit + 1, status <- status

ImplementsReview == Review!Spec

=============================================================================
