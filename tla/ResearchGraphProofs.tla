------------------------- MODULE ResearchGraphProofs -------------------------
(***************************************************************************)
(* Proofs about the research graph, for every finite set of branches and   *)
(* every set of correction limits.                                         *)
(*                                                                         *)
(* The safety properties are not inductive: they speak of the superstep    *)
(* where a value is used and follow from facts about the ones before it.   *)
(* The invariants below say, for each superstep, what holds when it        *)
(* starts.  Type correctness is proved first, the others rest on it.       *)
(***************************************************************************)
EXTENDS ResearchGraph, TLAPS, FiniteSetTheorems

Extra == IF humanRetry THEN 1 ELSE 0

\* Before the first verdict the review channels have their initial values.
Unjudged ==
  {"planner", "research", "research_pool", "sub_research", "synthesizer",
   "self_correction"}

FreshInv ==
  at \in Unjudged =>
    /\ verdict = "none" /\ corrections = 0 /\ ~low
    /\ ~humanRetry /\ decision = "accept"

\* What each step of the review loop relies on.
LoopInv ==
  /\ corrections <= cfg.limit + Extra
  /\ at \in {"self_correction", "eval_gate"} => drafts > 0
  /\ at \in {"hitl", "self_correction_retry", "finalize"} =>
       judged = drafts /\ drafts > 0 /\ verdict \in {"pass", "fail"}
  /\ at = "eval_gate" => decision # "abort"
  /\ at = "self_correction_retry" =>
       verdict = "fail" /\ corrections < cfg.limit + Extra /\ decision # "abort"
  /\ at = "hitl" =>
       verdict = "fail" /\ low /\ corrections >= cfg.limit
         /\ decision # "abort"
  /\ at = "finalize" =>
       IF verdict = "pass" THEN ~low /\ decision # "abort"
       ELSE low /\ corrections >= cfg.limit

\* The caller is told something exactly when the invocation is over, and
\* what it is told agrees with the verdict.
StatusInv ==
  /\ (status = "running") <=> (at # "end")
  /\ Finished => judged = drafts /\ drafts > 0
  /\ StatusHonest

\* Supersteps used up when a superstep starts: every correction costs two,
\* the human's retry one more.
Spent ==
  CASE at = "planner"         -> 1
    [] at = "research"        -> 2
    [] at = "research_pool"   -> 2
    [] at = "sub_research"    -> 3
    [] at = "synthesizer"     -> 4
    [] at = "self_correction" -> 5
    [] at = "eval_gate"       -> 6 + 2 * corrections + Extra
    [] at = "hitl"            -> 7 + 2 * corrections + Extra
    [] at = "self_correction_retry" -> 7 + 2 * corrections + Extra
    [] at = "finalize"        -> 8 + 2 * corrections + Extra
    [] at = "end"             -> 8 + 2 * corrections + Extra

StepsInv == steps <= Spent

\* A draft written without evidence is the fail-closed report, and that
\* report has never passed.
Undrafted ==
  {"planner", "research", "research_pool", "sub_research", "synthesizer"}

EvidenceInv ==
  /\ at \in Undrafted => basis = "none"
  /\ basis # "none" /\ NoEvidence => basis = "fail_closed"
  /\ basis = "fail_closed" => verdict # "pass"
  /\ Finished => basis # "none"
  /\ at \in Supersteps \ (Undrafted \cup {"end"}) => basis # "none"
  /\ Finished /\ basis = "fail_closed" => delivered = "draft"

\* Which branches have returned, and what they left behind.
LedgerInv ==
  /\ at \in {"planner", "research", "research_pool"} =>
       failures = {} /\ \A b \in Branches : reports[b] = "none"
  /\ at = "planner" => subtopics = {}
  /\ at = "research" => pending \subseteq Lanes /\ subtopics = {}
  /\ at = "sub_research" =>
       /\ pending \subseteq subtopics
       /\ \A b \in pending : b \notin failures /\ reports[b] = "none"
  /\ at \notin {"research", "sub_research"} => pending = {}
  /\ BranchLedger

-----------------------------------------------------------------------------
(* Type correctness.                                                       *)

\* The three retrieval nodes are instances of one action.
LEMMA LaneNodes ==
  ASSUME TypeOK, Tavily \/ Ddg \/ Firecrawl
  PROVE  \E l \in Lanes, found \in SUBSET BOOLEAN : LaneReturns(l, found)
<1>1. {FALSE, firecrawl} \in SUBSET BOOLEAN
  BY DEF TypeOK
<1> QED
  BY <1>1 DEF Tavily, Ddg, Firecrawl, Lanes

\* Every step keeps the state well typed: each node returns values of the
\* channels' kinds, and the parallel members are branches or lanes.
LEMMA TypeStep == TypeOK /\ [Next]_vars => TypeOK'
<1> SUFFICES ASSUME TypeOK, [Next]_vars PROVE TypeOK'
  OBVIOUS
<1> USE Assumption DEF TypeOK, Config, Supersteps, Statuses, Report, Evidenced,
                       Passes, research, drafting, review, result
<1>1. CASE Planner
  BY <1>1 DEF Planner, Start
<1>2. CASE ResearchPool
  <2>1. docs' \subseteq Lanes /\ corpus' \in BOOLEAN
    BY <1>2, Zenon DEF ResearchPool, Searched
  <2>2. at' \in Supersteps /\ steps' \in Nat
          /\ pending' \subseteq Branches \cup Lanes
    BY <1>2 DEF ResearchPool, Start
  <2> QED
    BY <1>2, <2>1, <2>2 DEF ResearchPool
<1>3. CASE Synthesizer
  BY <1>3 DEF Synthesizer, SynthesisBasis, Start
<1>4. CASE SelfCorrection
  BY <1>4 DEF SelfCorrection, CorrectionPass, AfterCorrection, Start
<1>5. CASE EvalGate
  BY <1>5 DEF EvalGate, LoopsLeft, PossibleVerdicts, RouteAfterEval, Start
<1>6. CASE SelfCorrectionRetry
  BY <1>6 DEF SelfCorrectionRetry, CorrectionPass, AfterCorrection, Start
<1>7. CASE Hitl
  BY <1>7 DEF Hitl, Answers, RouteAfterHitl, Start
<1>8. CASE Finalize
  BY <1>8 DEF Finalize, FinalStatus
<1>9. CASE NodeRaises
  BY <1>9 DEF NodeRaises
<1>10. CASE Tavily \/ Ddg \/ Firecrawl
  <2> PICK l \in Lanes, found \in SUBSET BOOLEAN : LaneReturns(l, found)
    BY <1>10, LaneNodes
  <2>1. docs' \subseteq Lanes
    BY DEF LaneReturns
  <2>2. at' \in Supersteps /\ steps' \in Nat
          /\ pending' \subseteq Branches \cup Lanes
    BY DEF LaneReturns, Return, Start
  <2> QED
    BY <2>1, <2>2 DEF LaneReturns
<1>11. CASE \E b \in Branches : SubResearch(b)
  <2> PICK b \in Branches : SubResearch(b)
    BY <1>11
  <2>1. reports' \in [Branches -> Report] /\ failures' \subseteq Branches
    BY DEF SubResearch, FailedBranch
  <2> QED
    BY <2>1 DEF SubResearch, Return, Start
<1>12. CASE UNCHANGED vars
  BY <1>12 DEF vars
<1> QED
  BY <1>1, <1>2, <1>3, <1>4, <1>5, <1>6, <1>7, <1>8, <1>9, <1>10, <1>11,
     <1>12 DEF Next, Step, NodeReturns, Done

\* The state of the graph is well typed in every run.
THEOREM TypeCorrect == Spec => []TypeOK
<1>1. Init => TypeOK
  <2> SUFFICES ASSUME Init PROVE TypeOK
    OBVIOUS
  <2>1. reports \in [Branches -> Report]
    BY DEF Init, Report
  <2> QED
    BY <2>1 DEF Init, TypeOK, Supersteps, Statuses, Passes
<1> QED
  BY <1>1, TypeStep, PTL DEF Spec

-----------------------------------------------------------------------------
(* The review loop.                                                        *)

ReviewInv == FreshInv /\ LoopInv /\ StatusInv

\* The configured limit is a natural number.
LEMMA LimitNat == TypeOK => cfg.limit \in Nat /\ cfg.limit \in Limits
BY Assumption DEF TypeOK, Config

\* The steps that gather evidence leave the review channels alone.
LEMMA GatheringKeepsReview ==
  ASSUME TypeOK, ReviewInv,
         \/ Planner \/ ResearchPool \/ Synthesizer \/ NodeRaises
         \/ Tavily \/ Ddg \/ Firecrawl
         \/ \E b \in Branches : SubResearch(b)
  PROVE  ReviewInv'
<1> USE LimitNat DEF ReviewInv, FreshInv, LoopInv, StatusInv, StatusHonest,
                     Extra, Unjudged, Finished, TypeOK, Supersteps, Statuses,
                     review, result, drafting
<1>1. CASE Planner
  BY <1>1 DEF Planner, Start
<1>2. CASE ResearchPool
  BY <1>2 DEF ResearchPool, Start
<1>3. CASE Synthesizer
  BY <1>3 DEF Synthesizer, Start
<1>4. CASE NodeRaises
  BY <1>4 DEF NodeRaises
<1>5. CASE Tavily \/ Ddg \/ Firecrawl
  <2> PICK l \in Lanes, found \in SUBSET BOOLEAN : LaneReturns(l, found)
    BY <1>5, LaneNodes
  <2>1. at = "research" /\ at' \in {"research", "synthesizer"}
    BY DEF LaneReturns, Return, Start
  <2> QED
    BY <2>1 DEF LaneReturns
<1>6. CASE \E b \in Branches : SubResearch(b)
  <2> PICK b \in Branches : SubResearch(b)
    BY <1>6
  <2>1. at = "sub_research" /\ at' \in {"sub_research", "synthesizer"}
    BY DEF SubResearch, Return, Start
  <2> QED
    BY <2>1 DEF SubResearch
<1> QED
  BY <1>1, <1>2, <1>3, <1>4, <1>5, <1>6

\* Every step keeps the facts each node of the review loop relies on.
LEMMA ReviewStep == TypeOK /\ ReviewInv /\ [Next]_vars => ReviewInv'
<1> SUFFICES ASSUME TypeOK, ReviewInv, [Next]_vars PROVE ReviewInv'
  OBVIOUS
<1> USE LimitNat DEF ReviewInv, FreshInv, LoopInv, StatusInv, StatusHonest,
                     Extra, Unjudged, Finished, TypeOK, Supersteps, Statuses
<1>1. CASE SelfCorrection
  BY <1>1 DEF SelfCorrection, CorrectionPass, AfterCorrection, Start, review,
              result
<1>2. CASE EvalGate
  <2>1. /\ at = "eval_gate" /\ verdict' \in {"pass", "fail"}
        /\ judged' = drafts /\ drafts' = drafts
        /\ cfg' = cfg /\ corrections' = corrections
        /\ humanRetry' = humanRetry /\ decision' = decision
        /\ status' = status
    BY <1>2 DEF EvalGate, PossibleVerdicts, drafting, result
  <2>2. /\ retry' <=> verdict' = "fail" /\ corrections < cfg.limit
        /\ low' <=> verdict' = "fail" /\ ~retry'
    BY <1>2, Zenon DEF EvalGate, LoopsLeft
  <2>3. at' = IF verdict' = "pass" THEN "finalize"
              ELSE IF retry' THEN "self_correction_retry" ELSE "hitl"
    BY <1>2, Zenon DEF EvalGate, RouteAfterEval, Start
  <2> QED
    BY <2>1, <2>2, <2>3
<1>3. CASE SelfCorrectionRetry
  BY <1>3 DEF SelfCorrectionRetry, CorrectionPass, AfterCorrection, Start,
              result
<1>4. CASE Hitl
  <2>1. /\ at = "hitl" /\ UNCHANGED <<cfg, drafts, judged, verdict,
                                       corrections, low, status>>
        /\ decision' \in {"accept", "accept_with_warning", "abort", "retry"}
        /\ decision' = "retry" => ~humanRetry
    BY <1>4 DEF Hitl, Answers, drafting, result
  <2>2. humanRetry' <=> humanRetry \/ decision' = "retry"
    BY <1>4, Zenon DEF Hitl
  <2>3. at' = IF decision' = "retry" THEN "self_correction_retry"
              ELSE "finalize"
    BY <1>4 DEF Hitl, RouteAfterHitl, Start
  <2> QED
    BY <2>1, <2>2, <2>3
<1>5. CASE Finalize
  BY <1>5 DEF Finalize, FinalStatus, drafting, review
<1>6. CASE UNCHANGED vars
  BY <1>6 DEF vars, review, drafting, result
<1> QED
  BY <1>1, <1>2, <1>3, <1>4, <1>5, <1>6, GatheringKeepsReview
     DEF Next, Step, NodeReturns, Done

\* The review invariant holds in every run.
LEMMA ReviewInvariant == Spec => []ReviewInv
<1>1. Init => ReviewInv
  <2> SUFFICES ASSUME Init PROVE ReviewInv
    OBVIOUS
  <2>1. cfg.limit \in Nat
    BY Assumption DEF Init, Config
  <2> QED
    BY <2>1 DEF Init, ReviewInv, FreshInv, LoopInv, StatusInv, StatusHonest,
                Extra, Unjudged, Finished
<1> QED
  BY <1>1, ReviewStep, TypeCorrect, PTL DEF Spec

\* The draft a human sees, that is sent back or that is finalized is the one
\* the evaluation gate judged last.
THEOREM JudgedBeforeUse == Spec => []DeliveredWasJudged
<1>1. ReviewInv => DeliveredWasJudged
  BY DEF ReviewInv, LoopInv, StatusInv, DeliveredWasJudged
<1> QED
  BY <1>1, ReviewInvariant, PTL

\* Automatic and human retries together stay within the configured limit
\* plus one.
THEOREM CorrectionsBounded == Spec => []CorrectionBound
<1>1. ReviewInv => CorrectionBound
  BY DEF ReviewInv, LoopInv, CorrectionBound, Extra
<1> QED
  BY <1>1, ReviewInvariant, PTL

\* What the caller is told agrees with the last verdict.
THEOREM StatusAgrees == Spec => []StatusHonest
<1>1. ReviewInv => StatusHonest
  BY DEF ReviewInv, StatusInv
<1> QED
  BY <1>1, ReviewInvariant, PTL

-----------------------------------------------------------------------------
(* Supersteps.                                                             *)

\* A superstep costs one step more than what was spent to get there.
LEMMA StepsStep == TypeOK /\ ReviewInv /\ StepsInv /\ [Next]_vars => StepsInv'
<1> SUFFICES ASSUME TypeOK, ReviewInv, StepsInv, [Next]_vars PROVE StepsInv'
  OBVIOUS
<1>0. /\ steps \in Nat /\ corrections \in Nat /\ at \in Supersteps
      /\ FreshInv
  BY DEF TypeOK, ReviewInv
<1> USE <1>0 DEF StepsInv, Spent, Extra, FreshInv, Unjudged, Supersteps
<1>1. CASE Planner
  BY <1>1 DEF Planner, Start, review
<1>2. CASE ResearchPool
  BY <1>2 DEF ResearchPool, Start, review
<1>3. CASE Synthesizer
  BY <1>3 DEF Synthesizer, Start, review
<1>4. CASE SelfCorrection
  BY <1>4 DEF SelfCorrection, AfterCorrection, Start, review
<1>5. CASE EvalGate
  <2>1. at' \in {"finalize", "self_correction_retry", "hitl"}
    BY <1>5 DEF EvalGate, RouteAfterEval, Start
  <2> QED
    BY <1>5, <2>1 DEF EvalGate, Start
<1>6. CASE SelfCorrectionRetry
  BY <1>6 DEF SelfCorrectionRetry, AfterCorrection, Start
<1>7. CASE Hitl
  <2>1. /\ at' = IF decision' = "retry" THEN "self_correction_retry"
                 ELSE "finalize"
        /\ steps' = steps + 1
    BY <1>7 DEF Hitl, RouteAfterHitl, Start
  <2>2. humanRetry' <=> humanRetry \/ decision' = "retry"
    BY <1>7, Zenon DEF Hitl
  <2>3. decision' = "retry" => ~humanRetry
    BY <1>7 DEF Hitl, Answers
  <2>4. at = "hitl" /\ corrections' = corrections
    BY <1>7 DEF Hitl
  <2> QED
    BY <2>1, <2>2, <2>3, <2>4
<1>8. CASE Finalize
  BY <1>8 DEF Finalize, review
<1>9. CASE NodeRaises
  BY <1>9 DEF NodeRaises, review
<1>10. CASE Tavily \/ Ddg \/ Firecrawl
  <2> PICK l \in Lanes, found \in SUBSET BOOLEAN : LaneReturns(l, found)
    BY <1>10, LaneNodes
  <2> QED
    BY DEF LaneReturns, Return, Start, review
<1>11. CASE \E b \in Branches : SubResearch(b)
  <2> PICK b \in Branches : SubResearch(b)
    BY <1>11
  <2> QED
    BY DEF SubResearch, Return, Start, review
<1>12. CASE UNCHANGED vars
  BY <1>12 DEF vars, review
<1> QED
  BY <1>1, <1>2, <1>3, <1>4, <1>5, <1>6, <1>7, <1>8, <1>9, <1>10, <1>11,
     <1>12 DEF Next, Step, NodeReturns, Done

\* What was spent stays below the bound.
LEMMA StepsBounded == TypeOK /\ ReviewInv /\ StepsInv => WithinRecursionLimit
<1> SUFFICES ASSUME TypeOK, ReviewInv, StepsInv PROVE WithinRecursionLimit
  OBVIOUS
<1>1. cfg.limit \in Nat /\ 11 + 2 * cfg.limit <= RecursionLimit
  BY LimitNat, Assumption
<1>2. Spent <= 11 + 2 * cfg.limit /\ Spent \in Nat
  <2>1. /\ corrections \in Nat /\ Extra \in {0, 1} /\ at \in Supersteps
        /\ corrections <= cfg.limit + Extra
    BY DEF TypeOK, ReviewInv, LoopInv, Extra
  <2>2. corrections + corrections + Extra <= cfg.limit + cfg.limit + 3
    BY <1>1, <2>1
  <2> QED
    BY <1>1, <2>1, <2>2 DEF Spent, Supersteps
<1> QED
  BY <1>1, <1>2, Assumption DEF StepsInv, WithinRecursionLimit, TypeOK

\* No run needs more supersteps than LangGraph grants.
THEOREM RecursionLimitHolds == Spec => []WithinRecursionLimit
<1>1. Init => StepsInv
  BY DEF Init, StepsInv, Spent
<1> QED
  BY <1>1, StepsStep, StepsBounded, TypeCorrect, ReviewInvariant, PTL DEF Spec

-----------------------------------------------------------------------------
(* Evidence.                                                               *)

\* Once a draft is written its basis and the evidence no longer change, and
\* a fail-closed draft cannot pass.
LEMMA EvidenceStep ==
  TypeOK /\ ReviewInv /\ EvidenceInv /\ [Next]_vars => EvidenceInv'
<1> SUFFICES ASSUME TypeOK, ReviewInv, EvidenceInv, [Next]_vars
             PROVE  EvidenceInv'
  OBVIOUS
<1> USE DEF EvidenceInv, NoEvidence, Undrafted, Supersteps, Finished, TypeOK,
            Statuses
<1>1. CASE Planner
  BY <1>1 DEF Planner, Start, drafting, review, result
<1>2. CASE ResearchPool
  BY <1>2 DEF ResearchPool, Start, drafting, review, result
<1>3. CASE Synthesizer
  <2>1. NoEvidence => basis' = "fail_closed"
    BY <1>3 DEF Synthesizer, SynthesisBasis
  <2>2. verdict' # "pass" /\ basis' # "none"
    BY <1>3 DEF Synthesizer, SynthesisBasis, ReviewInv, FreshInv, Unjudged,
                review
  <2>3. ~ Finished
    BY <1>3 DEF Synthesizer, ReviewInv, StatusInv
  <2> QED
    BY <1>3, <2>1, <2>2, <2>3 DEF Synthesizer, Start, research, result
<1>4. CASE SelfCorrection
  BY <1>4 DEF SelfCorrection, CorrectionPass, AfterCorrection, Start,
              research, review, result
<1>5. CASE EvalGate
  <2>1. at' \in {"finalize", "self_correction_retry", "hitl"}
    BY <1>5 DEF EvalGate, RouteAfterEval, Start
  <2> QED
    BY <1>5, <2>1 DEF EvalGate, PossibleVerdicts, research, drafting, result
<1>6. CASE SelfCorrectionRetry
  BY <1>6 DEF SelfCorrectionRetry, CorrectionPass, AfterCorrection, Start,
              research, result
<1>7. CASE Hitl
  <2>1. at' \in {"self_correction_retry", "finalize"}
    BY <1>7 DEF Hitl, RouteAfterHitl, Start
  <2> QED
    BY <1>7, <2>1 DEF Hitl, research, drafting, result
<1>8. CASE Finalize
  BY <1>8 DEF Finalize, research, drafting, review
<1>9. CASE NodeRaises
  BY <1>9 DEF NodeRaises, research, drafting, review
<1>10. CASE Tavily \/ Ddg \/ Firecrawl
  <2> PICK l \in Lanes, found \in SUBSET BOOLEAN : LaneReturns(l, found)
    BY <1>10, LaneNodes
  <2>1. at' \in {"research", "synthesizer"}
    BY DEF LaneReturns, Return, Start
  <2> QED
    BY <2>1 DEF LaneReturns, drafting, review, result
<1>11. CASE \E b \in Branches : SubResearch(b)
  <2> PICK b \in Branches : SubResearch(b)
    BY <1>11
  <2>1. at' \in {"sub_research", "synthesizer"}
    BY DEF SubResearch, Return, Start
  <2> QED
    BY <2>1 DEF SubResearch, drafting, review, result
<1>12. CASE UNCHANGED vars
  BY <1>12 DEF vars, research, drafting, review, result
<1> QED
  BY <1>1, <1>2, <1>3, <1>4, <1>5, <1>6, <1>7, <1>8, <1>9, <1>10, <1>11,
     <1>12 DEF Next, Step, NodeReturns, Done

\* A run that found no evidence ends with the fail-closed report and is not
\* called completed.
THEOREM FailsClosed == Spec => []NoEvidenceFailsClosed
<1>1. Init => EvidenceInv
  BY DEF Init, EvidenceInv, Undrafted, Finished, Supersteps
<1>2. ReviewInv /\ EvidenceInv => NoEvidenceFailsClosed
  BY DEF ReviewInv, StatusInv, StatusHonest, EvidenceInv, Finished,
         NoEvidenceFailsClosed
<1> QED
  BY <1>1, <1>2, EvidenceStep, TypeCorrect, ReviewInvariant, PTL DEF Spec

-----------------------------------------------------------------------------
(* The fan-out.                                                            *)

\* What a branch leaves behind when it returns.
Settled(b) ==
  IF b \in failures
  THEN reports[b] = (IF cfg.policy = "fail_closed" THEN "none"
                     ELSE "placeholder")
  ELSE reports[b] \in Evidenced

\* A branch that returns for the first time settles its own record and
\* touches no other.
LEMMA BranchSettles ==
  ASSUME TypeOK, NEW b \in Branches, SubResearch(b),
         b \notin failures, reports[b] = "none"
  PROVE  /\ Settled(b)'
         /\ failures' \subseteq failures \cup {b}
         /\ \A c \in Branches \ {b} :
              reports'[c] = reports[c] /\ (c \in failures' <=> c \in failures)
<1>1. reports \in [Branches -> Report] /\ cfg' = cfg
  BY DEF TypeOK, SubResearch
<1>2. CASE FailedBranch(b)
  BY <1>1, <1>2 DEF FailedBranch, Settled
<1>3. CASE /\ failures' = failures
           /\ reports' \in {[reports EXCEPT ![b] = c] : c \in Evidenced}
  BY <1>1, <1>3 DEF Settled
<1> QED
  BY <1>2, <1>3 DEF SubResearch

\* Every step keeps the ledger of the branches.
LEMMA LedgerStep ==
  TypeOK /\ ReviewInv /\ LedgerInv /\ [Next]_vars => LedgerInv'
<1> SUFFICES ASSUME TypeOK, ReviewInv, LedgerInv, [Next]_vars
             PROVE  LedgerInv'
  OBVIOUS
<1>0. ~ (at # "end" /\ status = "raised")
  BY DEF ReviewInv, StatusInv
<1> USE <1>0 DEF LedgerInv, BranchLedger, Fanning
<1>1. CASE Planner
  BY <1>1 DEF Planner, Start, result, TypeOK
<1>2. CASE ResearchPool
  BY <1>2 DEF ResearchPool, Start, result, TypeOK
<1>3. CASE Synthesizer
  BY <1>3 DEF Synthesizer, Start, research, result
<1>4. CASE SelfCorrection
  BY <1>4 DEF SelfCorrection, AfterCorrection, Start, research, result
<1>5. CASE EvalGate
  <2>1. at' \in {"finalize", "self_correction_retry", "hitl"}
    BY <1>5 DEF EvalGate, RouteAfterEval, Start
  <2> QED
    BY <1>5, <2>1 DEF EvalGate, Start, research, result
<1>6. CASE SelfCorrectionRetry
  BY <1>6 DEF SelfCorrectionRetry, AfterCorrection, Start, research, result
<1>7. CASE Hitl
  <2>1. at' \in {"self_correction_retry", "finalize"}
    BY <1>7 DEF Hitl, RouteAfterHitl, Start
  <2> QED
    BY <1>7, <2>1 DEF Hitl, Start, research, result
<1>8. CASE Finalize
  BY <1>8 DEF Finalize, FinalStatus, research
<1>9. CASE NodeRaises
  BY <1>9 DEF NodeRaises, research, TypeOK
<1>10. CASE Tavily \/ Ddg \/ Firecrawl
  <2> PICK l \in Lanes, found \in SUBSET BOOLEAN : LaneReturns(l, found)
    BY <1>10, LaneNodes
  <2> QED
    BY DEF LaneReturns, Return, Start, result
<1>11. CASE \E b \in Branches : SubResearch(b)
  <2> PICK b \in Branches : SubResearch(b)
    BY <1>11
  <2>1. /\ at = "sub_research" /\ b \in pending
        /\ UNCHANGED <<cfg, subtopics, status>>
        /\ \/ pending = {b} /\ pending' = {} /\ at' = "synthesizer"
           \/ pending # {b} /\ pending' = pending \ {b} /\ at' = at
    BY DEF SubResearch, Return, Start, result
  <2>2. b \notin failures /\ reports[b] = "none" /\ b \in subtopics
    BY <2>1
  <2>3. /\ Settled(b)'
        /\ failures' \subseteq failures \cup {b}
        /\ \A c \in Branches \ {b} :
             reports'[c] = reports[c] /\ (c \in failures' <=> c \in failures)
    BY <2>2, BranchSettles
  <2>4. pending' = pending \ {b}
    BY <2>1
  <2>5. \A c \in subtopics \ pending : Settled(c)
    BY <2>1 DEF Settled
  <2>6. \A c \in subtopics' \ pending' : Settled(c)'
    <3> SUFFICES ASSUME NEW c \in subtopics' \ pending' PROVE Settled(c)'
      OBVIOUS
    <3>1. CASE c = b
      BY <3>1, <2>3
    <3>2. CASE c # b
      <4>1. c \in Branches \ {b} /\ c \in subtopics \ pending
        BY <3>2, <2>1, <2>4 DEF TypeOK
      <4> QED
        BY <4>1, <2>1, <2>3, <2>5 DEF Settled
    <3> QED
      BY <3>1, <3>2
  <2>7. failures' \subseteq subtopics' /\ pending' \subseteq subtopics'
    BY <2>1, <2>2, <2>3, <2>4
  <2>8. at' = "sub_research" =>
          \A c \in pending' : c \notin failures' /\ reports'[c] = "none"
    BY <2>1, <2>3, <2>4 DEF TypeOK
  <2> QED
    BY <2>1, <2>6, <2>7, <2>8 DEF Settled
<1>12. CASE UNCHANGED vars
  BY <1>12 DEF vars, research, result
<1> QED
  BY <1>1, <1>2, <1>3, <1>4, <1>5, <1>6, <1>7, <1>8, <1>9, <1>10, <1>11,
     <1>12 DEF Next, Step, NodeReturns, Done

\* No branch is lost or counted twice when the fan-out is joined.
THEOREM LedgerHolds == Spec => []BranchLedger
<1>1. Init => LedgerInv
  BY DEF Init, LedgerInv, BranchLedger, Fanning
<1>2. LedgerInv => BranchLedger
  BY DEF LedgerInv
<1> QED
  BY <1>1, <1>2, LedgerStep, TypeCorrect, ReviewInvariant, PTL DEF Spec

-----------------------------------------------------------------------------
(* Progress.                                                               *)

\* The members of a parallel superstep, and nothing else, are waited for: a
\* join in progress always has somebody who has not returned, and no other
\* superstep holds one back (LangGraph starts the next superstep when the
\* last member has returned, pipeline.py add_edge of a list and Send).
JoinsWaitForSomebody == pending # {} <=> at \in {"research", "sub_research"}

LEMMA JoinStep ==
  TypeOK /\ LedgerInv /\ LedgerInv' /\ JoinsWaitForSomebody /\ [Next]_vars
    => JoinsWaitForSomebody'
<1> SUFFICES ASSUME TypeOK, LedgerInv, LedgerInv', JoinsWaitForSomebody,
                    [Next]_vars
             PROVE  JoinsWaitForSomebody'
  OBVIOUS
<1>0. at' \notin {"research", "sub_research"} => pending' = {}
  BY DEF LedgerInv
<1> USE <1>0 DEF JoinsWaitForSomebody
<1>1. CASE Planner
  BY <1>1 DEF Planner, Start, Lanes
<1>2. CASE ResearchPool
  BY <1>2 DEF ResearchPool, Start
<1>3. CASE Synthesizer
  BY <1>3 DEF Synthesizer, Start
<1>4. CASE SelfCorrection
  BY <1>4 DEF SelfCorrection, AfterCorrection, Start
<1>5. CASE EvalGate
  BY <1>5 DEF EvalGate, RouteAfterEval, Start
<1>6. CASE SelfCorrectionRetry
  BY <1>6 DEF SelfCorrectionRetry, AfterCorrection, Start
<1>7. CASE Hitl
  BY <1>7 DEF Hitl, RouteAfterHitl, Start
<1>8. CASE Finalize
  BY <1>8 DEF Finalize
<1>9. CASE NodeRaises
  BY <1>9 DEF NodeRaises
<1>10. CASE Tavily \/ Ddg \/ Firecrawl
  <2> PICK l \in Lanes, found \in SUBSET BOOLEAN : LaneReturns(l, found)
    BY <1>10, LaneNodes
  <2> QED
    BY DEF LaneReturns, Return, Start
<1>11. CASE \E b \in Branches : SubResearch(b)
  <2> PICK b \in Branches : SubResearch(b)
    BY <1>11
  <2> QED
    BY DEF SubResearch, Return, Start
<1>12. CASE UNCHANGED vars
  BY <1>12 DEF vars
<1> QED
  BY <1>1, <1>2, <1>3, <1>4, <1>5, <1>6, <1>7, <1>8, <1>9, <1>10, <1>11,
     <1>12 DEF Next, Step, NodeReturns, Done

\* A join never waits for nobody, so a run that has not ended always has a
\* node that is running: with every node returning, Termination follows.
THEOREM NobodyWaitsForNobody == Spec => []JoinsWaitForSomebody
<1>1. Init => JoinsWaitForSomebody /\ LedgerInv
  BY DEF Init, JoinsWaitForSomebody, LedgerInv, BranchLedger, Fanning
<1> QED
  BY <1>1, JoinStep, LedgerStep, TypeCorrect, ReviewInvariant, PTL DEF Spec

\* How far a run is from its end: the supersteps it may still start, each
\* weighed more than a parallel superstep has members, and the members that
\* have not returned.
Width == Cardinality(Branches) + 4
Left ==
  IF at = "end" THEN 0
  ELSE 1 + (11 + 2 * cfg.limit - steps) * Width + Cardinality(pending)

CountsDown == Left' \in Nat /\ Left' < Left

\* There are finitely many members to wait for, fewer than Width.
Small ==
  /\ IsFiniteSet(pending)
  /\ Cardinality(pending) \in Nat
  /\ Width \in Nat
  /\ Cardinality(pending) < Width

LEMMA PendingSmall == TypeOK /\ LedgerInv => Small
<1> SUFFICES ASSUME TypeOK, LedgerInv PROVE Small
  OBVIOUS
<1> USE DEF Small
<1>1. IsFiniteSet(Branches) /\ Cardinality(Branches) \in Nat
  BY Assumption, FS_CardinalityType
<1>2. /\ IsFiniteSet(Lanes)
      /\ Cardinality(Lanes) \in Nat /\ Cardinality(Lanes) <= 3
  <2>1. IsFiniteSet({}) /\ Cardinality({}) = 0
    BY FS_EmptySet
  <2>2. /\ IsFiniteSet({"tavily"}) /\ Cardinality({"tavily"}) = 1
    BY FS_Singleton
  <2>3. /\ IsFiniteSet({"tavily"} \cup {"ddg"})
        /\ Cardinality({"tavily"} \cup {"ddg"}) = 2
    BY <2>2, FS_AddElement
  <2>4. /\ IsFiniteSet({"tavily"} \cup {"ddg"} \cup {"firecrawl"})
        /\ Cardinality({"tavily"} \cup {"ddg"} \cup {"firecrawl"}) = 3
    BY <2>3, FS_AddElement
  <2>5. Lanes = {"tavily"} \cup {"ddg"} \cup {"firecrawl"}
    BY DEF Lanes
  <2> QED
    BY <2>4, <2>5
<1>3. pending \subseteq Lanes \/ pending \subseteq Branches
  BY DEF TypeOK, LedgerInv
<1> QED
  <2>1. Width \in Nat /\ Cardinality(Branches) < Width
        /\ Cardinality(Lanes) < Width
    BY <1>1, <1>2 DEF Width
  <2>2. CASE pending \subseteq Lanes
    <3>1. IsFiniteSet(pending) /\ Cardinality(pending) <= Cardinality(Lanes)
      BY <1>2, <2>2, FS_Subset
    <3>2. Cardinality(pending) \in Nat
      BY <3>1, FS_CardinalityType
    <3> QED
      BY <1>2, <2>1, <3>1, <3>2
  <2>3. CASE pending \subseteq Branches
    <3>1. /\ IsFiniteSet(pending)
          /\ Cardinality(pending) <= Cardinality(Branches)
      BY <1>1, <2>3, FS_Subset
    <3>2. Cardinality(pending) \in Nat
      BY <3>1, FS_CardinalityType
    <3> QED
      BY <1>1, <2>1, <3>1, <3>2
  <2> QED
    BY <1>3, <2>2, <2>3

\* What a step does to the superstep in progress.
Moves ==
  /\ at # "end"
  /\ \/ at' = "end"
     \/ steps' = steps + 1 /\ at' # "end"
     \/ /\ steps' = steps /\ at' # "end"
        /\ \E m \in pending : pending' = pending \ {m}

LEMMA StepMoves == TypeOK /\ Step => Moves /\ cfg' = cfg
<1> SUFFICES ASSUME TypeOK, Step PROVE Moves /\ cfg' = cfg
  OBVIOUS
<1> USE DEF Moves
<1>1. CASE Planner
  BY <1>1 DEF Planner, Start
<1>2. CASE ResearchPool
  BY <1>2 DEF ResearchPool, Start
<1>3. CASE Synthesizer
  BY <1>3 DEF Synthesizer, Start
<1>4. CASE SelfCorrection
  BY <1>4 DEF SelfCorrection, AfterCorrection, Start
<1>5. CASE EvalGate
  BY <1>5 DEF EvalGate, RouteAfterEval, Start
<1>6. CASE SelfCorrectionRetry
  BY <1>6 DEF SelfCorrectionRetry, AfterCorrection, Start
<1>7. CASE Hitl
  BY <1>7 DEF Hitl, RouteAfterHitl, Start
<1>8. CASE Finalize
  BY <1>8 DEF Finalize
<1>9. CASE NodeRaises
  BY <1>9 DEF NodeRaises
<1>10. CASE Tavily \/ Ddg \/ Firecrawl
  <2> PICK l \in Lanes, found \in SUBSET BOOLEAN : LaneReturns(l, found)
    BY <1>10, LaneNodes
  <2> QED
    BY DEF LaneReturns, Return, Start
<1>11. CASE \E b \in Branches : SubResearch(b)
  <2> PICK b \in Branches : SubResearch(b)
    BY <1>11
  <2> QED
    BY DEF SubResearch, Return, Start
<1> QED
  BY <1>1, <1>2, <1>3, <1>4, <1>5, <1>6, <1>7, <1>8, <1>9, <1>10, <1>11
     DEF Step, NodeReturns

\* Starting a superstep costs more than its members can add.
LEMMA Weighed ==
  ASSUME NEW w \in Nat, NEW x \in Int, NEW p \in Nat, NEW q \in Nat, q < w
  PROVE  1 + (x - 1) * w + q < 1 + x * w + p
<1>1. (x - 1) * w = x * w - w
  OBVIOUS
<1>2. x * w \in Int
  OBVIOUS
<1> QED
  BY <1>1, <1>2

\* Every step of a run, whichever node takes it and whatever the judge and
\* the human answer, brings it nearer to its end: no run is infinite, and
\* the corrections, the human's retry and the joins cannot keep one going.
THEOREM EveryStepCountsDown == Spec => [][CountsDown]_vars
<1>1. TypeOK /\ TypeOK' /\ Small /\ Small' /\ WithinRecursionLimit
        /\ WithinRecursionLimit' /\ [Next]_vars => [CountsDown]_vars
  <2> SUFFICES ASSUME TypeOK, TypeOK', Small, Small',
                      WithinRecursionLimit, WithinRecursionLimit', Step
               PROVE  CountsDown
    BY DEF Next, Done
  <2> DEFINE x == 11 + 2 * cfg.limit - steps
             p == Cardinality(pending)
             q == Cardinality(pending')
  <2>1. Moves /\ cfg' = cfg
    BY StepMoves
  <2>2. cfg.limit \in Nat /\ steps \in Nat /\ steps' \in Nat
    BY LimitNat DEF TypeOK
  <2>3. x \in Nat /\ 11 + 2 * cfg.limit - steps' \in Nat
    BY <2>1, <2>2 DEF WithinRecursionLimit
  <2>4. Width \in Nat /\ p \in Nat /\ q \in Nat /\ q < Width
        /\ IsFiniteSet(pending)
    BY DEF Small, Width
  <2>5. Left = 1 + x * Width + p
    BY <2>1 DEF Left, Moves
  <2>6. at' # "end" =>
          Left' = 1 + (11 + 2 * cfg.limit - steps') * Width + q
    BY <2>1 DEF Left, Width
  <2>7. x * Width \in Nat
        /\ (11 + 2 * cfg.limit - steps') * Width \in Nat
    BY <2>3, <2>4
  <2>8. CASE at' = "end"
    BY <2>4, <2>5, <2>7, <2>8 DEF Left, CountsDown
  <2>9. CASE steps' = steps + 1 /\ at' # "end"
    <3>1. 11 + 2 * cfg.limit - steps' = x - 1
      BY <2>2, <2>9
    <3>2. 1 + (x - 1) * Width + q < 1 + x * Width + p
      BY <2>3, <2>4, Weighed
    <3> QED
      BY <2>4, <2>5, <2>6, <2>7, <2>9, <3>1, <3>2 DEF CountsDown
  <2>10. CASE steps' = steps /\ at' # "end"
              /\ \E m \in pending : pending' = pending \ {m}
    <3>1. q = p - 1
      BY <2>4, <2>10, FS_RemoveElement
    <3> QED
      BY <2>4, <2>5, <2>6, <2>7, <2>10, <3>1 DEF CountsDown
  <2> QED
    BY <2>1, <2>8, <2>9, <2>10 DEF Moves
<1>2. Init => LedgerInv
  BY DEF Init, LedgerInv, BranchLedger, Fanning
<1> QED
  BY <1>1, <1>2, LedgerStep, PendingSmall, TypeCorrect, ReviewInvariant,
     RecursionLimitHolds, PTL DEF Spec

-----------------------------------------------------------------------------
(* Refinement.                                                             *)

\* Every behaviour of the pipeline is one of the review contract: gathering,
\* drafting and the human's answer stutter, each gate is a judgement, each
\* correction after one is a rework, finalize delivers.
THEOREM ContractImplemented == Spec => ImplementsReview
<1> USE DEF Phase, Finished, Statuses, Supersteps
<1>1. Init => Review!Init
  <2> SUFFICES ASSUME Init PROVE Review!Init
    OBVIOUS
  <2>1. cfg.limit \in Nat
    BY Assumption DEF Init, Config
  <2> QED
    BY <2>1 DEF Init, Review!Init
<1>2. TypeOK /\ ReviewInv /\ ReviewInv' /\ [Next]_vars
        => [Review!Next]_Review!vars
  <2> SUFFICES ASSUME TypeOK, ReviewInv, ReviewInv', [Next]_vars
               PROVE  [Review!Next]_Review!vars
    OBVIOUS
  <2>0. cfg.limit \in Nat /\ corrections \in Nat /\ status \in Statuses
        /\ (status = "running" <=> at # "end")
    BY LimitNat DEF TypeOK, ReviewInv, StatusInv
  <2> USE <2>0 DEF Review!vars
  <2>1. CASE Planner
    BY <2>1 DEF Planner, Start, review, result
  <2>2. CASE ResearchPool
    BY <2>2 DEF ResearchPool, Start, review, result
  <2>3. CASE Synthesizer
    BY <2>3 DEF Synthesizer, Start, review, result
  <2>4. CASE SelfCorrection
    BY <2>4 DEF SelfCorrection, AfterCorrection, Start, review, result
  <2>5. CASE EvalGate
    <3>1. at' \in {"finalize", "self_correction_retry", "hitl"}
      BY <2>5 DEF EvalGate, RouteAfterEval, Start
    <3> QED
      BY <2>5, <3>1 DEF EvalGate, PossibleVerdicts, result, Review!Next,
                        Review!Judge
  <2>6. CASE SelfCorrectionRetry
    <3>1. corrections < cfg.limit + 1 /\ verdict = "fail"
      BY <2>6 DEF SelfCorrectionRetry, ReviewInv, LoopInv, Extra
    <3> QED
      BY <2>6, <3>1 DEF SelfCorrectionRetry, AfterCorrection, Start, result,
                        Review!Next, Review!Rework
  <2>7. CASE Hitl
    <3>1. at' \in {"self_correction_retry", "finalize"}
      BY <2>7 DEF Hitl, RouteAfterHitl, Start
    <3> QED
      BY <2>7, <3>1 DEF Hitl, result
  <2>8. CASE Finalize
    <3>1. status' = IF decision = "abort" THEN "aborted"
                    ELSE IF low THEN "completed_low_confidence"
                    ELSE "completed"
      BY <2>8 DEF Finalize, FinalStatus
    <3>2. /\ verdict = "pass" => ~low /\ decision # "abort"
          /\ verdict # "pass" => low
      BY <2>8 DEF Finalize, ReviewInv, LoopInv
    <3>3. status' \in IF verdict = "pass" THEN {"completed"}
                      ELSE {"completed_low_confidence", "aborted"}
      BY <3>1, <3>2
    <3> QED
      BY <2>8, <3>3 DEF Finalize, review, Review!Next, Review!Deliver
  <2>9. CASE NodeRaises
    BY <2>9 DEF NodeRaises, review, Review!Next, Review!Raise
  <2>10. CASE Tavily \/ Ddg \/ Firecrawl
    <3> PICK l \in Lanes, found \in SUBSET BOOLEAN : LaneReturns(l, found)
      BY <2>10, LaneNodes
    <3>1. at = "research" /\ at' \in {"research", "synthesizer"}
      BY DEF LaneReturns, Return, Start
    <3> QED
      BY <3>1 DEF LaneReturns, review, result
  <2>11. CASE \E b \in Branches : SubResearch(b)
    <3> PICK b \in Branches : SubResearch(b)
      BY <2>11
    <3>1. at = "sub_research" /\ at' \in {"sub_research", "synthesizer"}
      BY DEF SubResearch, Return, Start
    <3> QED
      BY <3>1 DEF SubResearch, review, result
  <2>12. CASE UNCHANGED vars
    BY <2>12 DEF vars, review, result
  <2> QED
    BY <2>1, <2>2, <2>3, <2>4, <2>5, <2>6, <2>7, <2>8, <2>9, <2>10, <2>11,
       <2>12 DEF Next, Step, NodeReturns, Done
<1> QED
  BY <1>1, <1>2, TypeCorrect, ReviewInvariant, PTL
     DEF Spec, ImplementsReview, Review!Spec

=============================================================================
