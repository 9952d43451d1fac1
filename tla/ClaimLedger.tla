------------------------------ MODULE ClaimLedger -----------------------------
(***************************************************************************)
(* The evidence of one run: documents pass the filters of the retrieval    *)
(* lanes into the pool, each branch turns one of them into a claim and     *)
(* verifies it (core/verification.py), the synthesizer makes a report and  *)
(* its citations (graph/nodes/synthesizer.py, core/citations.py), and the  *)
(* gate judges it (evals/deepeval_node.py).                                *)
(*                                                                         *)
(* Of a document the model keeps whether it is out of date, whether it     *)
(* says that what it offers is open, and its tier.  Whether it is on the   *)
(* topic and all other proof a claim may miss are left open.  A report     *)
(* that a language model wrote may say anything; of a report the program   *)
(* writes the model keeps the rows of its register.                        *)
(*                                                                         *)
(* The configuration is one whose crawl_strategy filters, with             *)
(* fact_mode = "strict" and gap filling enabled.                           *)
(***************************************************************************)
EXTENDS Integers, FiniteSets, SequencesExt

CONSTANTS
  Docs,      \* what the search providers may return, one per address
  Doubtful,  \* bound: the documents that may be stale or not open
  TopTier,   \* the documents of tier A or B
  Branches,  \* bound: subtopics, each of which makes at most one claim
  Numbers,   \* bound: the numbers a plan may give them, with repeats
  Threshold  \* citation_threshold, in per cent

ASSUME LedgerAssumption ==
  /\ IsFiniteSet(Docs) /\ Doubtful \subseteq Docs /\ TopTier \subseteq Docs
  /\ IsFiniteSet(Branches) /\ Numbers \subseteq [Branches -> Nat]
  /\ Threshold \in 0 .. 100

VARIABLES
  phase,       \* the node that runs next
  page,        \* [Docs -> [stale, open]]
  setting,     \* configuration and plan of the run
  pool,        \* the documents found so far, then the shared corpus
  readmitted,  \* history: the stale documents a lane let through
  finding,     \* [Branches -> what the branch added to the state]
  draft,       \* report_draft: who wrote it, and the rows of its register
  citations,   \* claim identifiers and the documents they stand for
  passed       \* pass_gate

ledgerVars == <<phase, page, setting, pool, readmitted, finding, draft,
                citations, passed>>

NoDoc == "no document"
Pages == [stale : BOOLEAN, open : {"open", "closed", "unknown"}]

\* label is the branch's entry in subtopic_failures, rows its sub-report.
NoFinding == [done |-> FALSE, label |-> "none", rows |-> {}]
NoDraft == [by |-> "nobody", rows |-> {}]

LedgerInit ==
  /\ phase = "plan"
  /\ page = [d \in Docs |-> [stale |-> FALSE, open |-> "open"]]
  /\ setting = [mode |-> "map_reduce", policy |-> "retry_once",
                asks |-> FALSE, number |-> [b \in Branches |-> 1]]
  /\ pool = {} /\ readmitted = {}
  /\ finding = [b \in Branches |-> NoFinding]
  /\ draft = NoDraft /\ citations = {} /\ passed = FALSE

\* Chosen before the run: the documents, the configuration, whether the query
\* asks for what is open now, and the number at the end of each subtopic's
\* identifier, which the planning model writes.
LedgerPlan ==
  /\ phase = "plan"
  /\ page' \in [Docs -> Pages]
  /\ \A d \in Docs \ Doubtful : page'[d] = page[d]
  /\ \E mode \in {"map_reduce", "disabled"}, asks \in BOOLEAN,
        policy \in {"retry_once", "fail_closed"},
        number \in Numbers :
       setting' = [mode |-> mode, policy |-> policy, asks |-> asks,
                   number |-> number]
  /\ phase' = "tavily"
  /\ UNCHANGED <<pool, readmitted, finding, draft, citations, passed>>

-----------------------------------------------------------------------------
(* Retrieval.                                                              *)

\* wide_then_hard_filter: what is stale goes, and so may anything without
\* signal or off the topic.
\* Mutant: what is stale stays.
KeepStale(hits) == SUBSET hits
HardFilter(hits) == SUBSET {d \in hits : ~page[d].stale}

\* A lane takes the filter back when nothing is left of the hits, ...
TakenBack(hits, kept) ==
  IF kept = {} /\ hits # {} THEN SUBSET hits \ {{}} ELSE {{}}

\* ... and when too few documents of tier A or B are left it puts those of the
\* hits in front, unfiltered.
LaneResults(hits) ==
  LET top == SUBSET (hits \cap TopTier)
  IN UNION {{[kept |-> kept, back |-> back \cup more] :
               back \in TakenBack(hits, kept), more \in top} :
            kept \in HardFilter(hits)}

Found(kept, back) ==
  /\ pool' = pool \cup kept \cup back
  /\ readmitted' = readmitted \cup {d \in back : page[d].stale}
  /\ UNCHANGED <<page, setting, finding, draft, citations, passed>>

\* In peak mode a second pass, filtered the same way, adds to the first.
SearchLane(lane, next) ==
  /\ phase = lane
  /\ \E hits, again \in SUBSET Docs :
       \E first \in LaneResults(hits), second \in LaneResults(again) :
         Found(first.kept \cup second.kept, first.back \cup second.back)
  /\ phase' = next

TavilyLane == SearchLane("tavily", "ddg")
DdgLane == SearchLane("ddg", "firecrawl")

\* Firecrawl is asked if the planner wanted it, and does not take the filter
\* back.
FirecrawlLane ==
  /\ phase = "firecrawl"
  /\ \E hits \in SUBSET Docs : \E kept \in HardFilter(hits) : Found(kept, {})
  /\ phase' = "pool"

\* The pool drops what does not match the query, unless that is everything;
\* without branches, the synthesizer drops what exceeds its budgets.
SharedPool ==
  /\ phase = "pool"
  /\ pool' \in SUBSET pool
  /\ pool # {} => pool' # {}
  /\ phase' = IF setting.mode = "disabled" THEN "synthesizer" ELSE "branches"
  /\ UNCHANGED <<page, setting, readmitted, finding, draft, citations, passed>>

-----------------------------------------------------------------------------
(* Verification of a claim.                                                *)

StaleCode(d) == IF page[d].stale THEN {"stale_source"} ELSE {}

OpenCode(d, asked) ==
  CASE asked /\ page[d].open = "closed" -> {"missing_open_status"}
    [] asked /\ page[d].open = "unknown" -> {"open_status_unknown"}
    [] OTHER -> {}

\* Proof of location, eligibility, date, origin or a second source.
MissingProof == {{}, {"single_source_only"}}

Status(codes) ==
  IF codes \cap {"off_topic", "stale_source", "missing_open_status"} # {}
  THEN "withheld"
  ELSE IF codes # {} THEN "constrained" ELSE "verified"

VerifyClaim(d, asked) ==
  {{"off_topic"}}
    \cup {StaleCode(d) \cup OpenCode(d, asked) \cup other :
            other \in MissingProof}

-----------------------------------------------------------------------------
(* Branches, in any order.                                                 *)

\* Mutant: the number of the subtopic is left out.
IndexOnly(b) == 1
ClaimId(b) == setting.number[b] * 100 + 1

\* Whether a branch asks for what is open depends on the words of its own
\* query: asked.
ClaimRow(b, d, asked, codes) ==
  [id |-> ClaimId(b), doc |-> d, status |-> Status(codes),
   asked |-> asked, unknown |-> "open_status_unknown" \in codes]

PlaceholderRow == [id |-> 0, doc |-> NoDoc, status |-> "constrained",
                   asked |-> FALSE, unknown |-> FALSE]

BranchAdds(b, label, rows) ==
  /\ phase = "branches" /\ ~finding[b].done
  /\ finding' = [finding EXCEPT
                   ![b] = [done |-> TRUE, label |-> label, rows |-> rows]]
  /\ UNCHANGED <<phase, page, setting, pool, readmitted, draft, citations,
                 passed>>

\* Mutant: a placeholder under every policy.
AlwaysARow == {PlaceholderRow}
FailedRows == IF setting.policy = "fail_closed" THEN {} ELSE {PlaceholderRow}

\* Neither the corpus nor the gap filling has a document for the branch.
BranchWithoutDocs(b) ==
  /\ pool = {}
  /\ BranchAdds(b, "no_relevant_docs", FailedRows)

\* The first extraction timed out; under every policy.
BranchTimesOut(b) == BranchAdds(b, "llm_timeout_subresearch", {PlaceholderRow})

\* No extraction, of two under retry_once, found a claim.
BranchWithoutClaims(b) ==
  BranchAdds(b, "claim_extraction_failed", FailedRows)

\* Gap filling asks the providers past the filters, so the claim may stand on
\* any document.
BranchClaims(b) ==
  \E d \in Docs, asked \in BOOLEAN : \E codes \in VerifyClaim(d, asked) :
    BranchAdds(b, "none", {ClaimRow(b, d, asked, codes)})

BranchesJoin ==
  /\ phase = "branches"
  /\ \A b \in Branches : finding[b].done
  /\ phase' = "synthesizer"
  /\ UNCHANGED <<page, setting, pool, readmitted, finding, draft, citations,
                 passed>>

Reports == {b \in Branches : finding[b].rows # {}}
ReportRows == UNION {finding[b].rows : b \in Branches}

-----------------------------------------------------------------------------
(* Synthesis.                                                              *)

\* What the citations of a report are told apart by when duplicates go.
Cite(id, d) == [id |-> id, doc |-> d]

MergedCitations ==
  LET claims == {r \in ReportRows : r.doc # NoDoc}
  IN {Cite(r.id, r.doc) : r \in claims}

\* build_analytical_fallback: a row and a citation for each document of the
\* corpus, verified by tier alone, the open status always unknown.
Numbered == LET order == SetToSeq(pool)
            IN {[n |-> n, doc |-> order[n]] : n \in DOMAIN order}

FallbackRows ==
  {[id |-> e.n, doc |-> e.doc, asked |-> setting.asks, unknown |-> TRUE,
    status |-> IF e.doc \in TopTier THEN "verified" ELSE "constrained"] :
     e \in Numbered}

FallbackCitations == {Cite(e.n, e.doc) : e \in Numbered}

Write(by, rows, cites) ==
  /\ draft' = [by |-> by, rows |-> rows]
  /\ citations' = cites
  /\ phase' = "gate"
  /\ UNCHANGED <<page, setting, pool, readmitted, finding, passed>>

FailClosed ==
  /\ phase = "synthesizer"
  /\ pool = {} \/ (setting.mode = "map_reduce" /\ Reports = {})
  /\ Write("fail_closed", {}, {})

\* The language model merges the sub-reports, or on a timeout their records
\* are the report; on another error the fallback is.
MergeReports ==
  /\ phase = "synthesizer"
  /\ setting.mode = "map_reduce" /\ pool # {} /\ Reports # {}
  /\ LET cites == IF MergedCitations = {} THEN FallbackCitations
                  ELSE MergedCitations
     IN \/ Write("model", {}, cites)
        \/ Write("records", ReportRows, cites)
        \/ Write("fallback", FallbackRows, FallbackCitations)

\* Without branches: the model writes from the claims it extracted and cites
\* some of the documents, and its report counts if quality and sources do.
SinglePass ==
  /\ phase = "synthesizer"
  /\ setting.mode = "disabled" /\ pool # {}
  /\ \/ \E cites \in SUBSET FallbackCitations :
          Write("model", {}, cites)
     \/ Write("fallback", FallbackRows, FallbackCitations)

-----------------------------------------------------------------------------
(* The gate.                                                               *)

CitedIds == {c.id : c \in citations}

\* The identifiers in the whole text, which ends with the list of citations.
ReportIds == {r.id : r \in draft.rows} \cup CitedIds

CoverageMet ==
  /\ ReportIds # {}
  /\ 100 * Cardinality(ReportIds \cap CitedIds)
       >= Threshold * Cardinality(ReportIds)

VerifiedRows == {r \in draft.rows : r.status = "verified"}

\* Mutant: the gate does not ask for the open status.
NeverChecked == TRUE
OpenStatusMet == setting.asks => \A r \in draft.rows : ~r.unknown

\* Nothing can be said of the text of a model.  A report that failed closed
\* has neither a register nor a claim.  Scores, sources and style are left open.
MayPass ==
  \/ draft.by = "model"
  \/ /\ draft.by \in {"records", "fallback"}
     /\ CoverageMet /\ VerifiedRows # {} /\ OpenStatusMet

JudgeDraft ==
  /\ phase = "gate"
  /\ passed' \in {FALSE} \cup (IF MayPass THEN {TRUE} ELSE {})
  /\ phase' = "judged"
  /\ UNCHANGED <<page, setting, pool, readmitted, finding, draft, citations>>

\* The count the gate reports, from the lengths of two lists.
SubtopicFailedCount ==
  LET subtopics == IF setting.mode = "map_reduce" THEN Cardinality(Branches)
                   ELSE 0
      missing == subtopics - Cardinality(Reports)
  IN IF missing > 0 THEN missing ELSE 0

LedgerNext ==
  \/ LedgerPlan \/ TavilyLane \/ DdgLane \/ FirecrawlLane \/ SharedPool
  \/ \E b \in Branches : \/ BranchWithoutDocs(b) \/ BranchTimesOut(b)
                         \/ BranchWithoutClaims(b) \/ BranchClaims(b)
  \/ BranchesJoin \/ FailClosed \/ MergeReports \/ SinglePass \/ JudgeDraft

LedgerSpec == LedgerInit /\ [][LedgerNext]_ledgerVars

-----------------------------------------------------------------------------
(* Properties.                                                             *)

Rows == [id : Nat, doc : Docs \cup {NoDoc}, asked : BOOLEAN,
         unknown : BOOLEAN, status : {"verified", "constrained", "withheld"}]

Settings == [mode : {"map_reduce", "disabled"}, asks : BOOLEAN,
             policy : {"retry_once", "fail_closed"},
             number : [Branches -> Nat]]

Findings == [done : BOOLEAN, rows : SUBSET Rows,
             label : {"none", "no_relevant_docs", "claim_extraction_failed",
                      "llm_timeout_subresearch"}]

Drafts == [by : {"nobody", "fail_closed", "model", "records", "fallback"},
           rows : SUBSET Rows]

\* What a branch adds has the shape that the synthesizer and the gate read,
\* and every citation names a document.
LedgerTypeOK ==
  /\ phase \in {"plan", "tavily", "ddg", "firecrawl", "pool", "branches",
                "synthesizer", "gate", "judged"}
  /\ page \in [Docs -> Pages] /\ setting \in Settings
  /\ pool \subseteq Docs /\ readmitted \subseteq Docs
  /\ finding \in [Branches -> Findings] /\ draft \in Drafts
  /\ citations \subseteq [id : Nat, doc : Docs]
  /\ passed \in BOOLEAN

\* A document that is out of date is presented as verified only by the
\* fallback report, which goes by tiers, and only because a lane took its
\* filter back: verification of a claim never lets it through
\* (verification.py:358, research_tavily.py:143, doc_helpers.py:172).
StaleExplained ==
  \A r \in VerifiedRows :
    page[r.doc].stale => draft.by = "fallback" /\ r.doc \in readmitted

\* When the query asks for what is open, a passed report the program wrote
\* verifies nothing that is not, except for a branch whose own query did not
\* ask (deepeval_node.py:152, verification.py:363, sub_research.py:376).
PassedMeansOpen ==
  passed /\ setting.asks =>
    \A r \in VerifiedRows : page[r.doc].open = "open" \/ ~r.asked

\* The two parts of CitationsFaithful.  One claim identifier stands for two
\* documents only if the planning model gave two subtopics the same number
\* (sub_research.py:362).
CitationsMatch ==
  \A c1, c2 \in citations :
    c1.id = c2.id /\ c1.doc # c2.doc =>
      \E b1, b2 \in Branches :
        b1 # b2 /\ setting.number[b1] = setting.number[b2]

\* Whatever two branches share, every row of a report the program wrote is
\* cited with its own document, but for the rows of failed branches: merging
\* and removing duplicates loses no evidence (synthesizer.py:60,
\* citations.py:52).
RowsCited ==
  \A r \in draft.rows : r.doc # NoDoc => Cite(r.id, r.doc) \in citations

\* What a report's claims rest on can be found under their identifiers.
CitationsFaithful == CitationsMatch /\ RowsCited

\* The number of failed branches the gate reports misses exactly those that
\* left a placeholder, and when branches are to fail closed only a timeout
\* leaves one (eval_gate.py:26, sub_research.py:311).
FailedCountExplained ==
  phase = "judged" /\ setting.mode = "map_reduce" =>
    LET failed == {b \in Branches : finding[b].label # "none"}
        hidden == {b \in failed : finding[b].rows # {}}
    IN /\ SubtopicFailedCount = Cardinality(failed \ hidden)
       /\ setting.policy = "fail_closed" =>
            \A b \in hidden : finding[b].label = "llm_timeout_subresearch"

=============================================================================
