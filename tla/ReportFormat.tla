----------------------------- MODULE ReportFormat -----------------------------
(***************************************************************************)
(* The text of the report on its way from the synthesizer over the         *)
(* self-correction passes and the gate to finalize: which sections the     *)
(* formatter (core/report_formatter.py) keeps, moves and adds, which the   *)
(* gate (core/report_quality.py) and finalize (graph/pipeline.py) ask for. *)
(*                                                                         *)
(* A report is a text ahead of the first level-two heading and a sequence  *)
(* of sections; of a section the model keeps its heading and the position  *)
(* it had in the text the language model wrote, 0 for what the program     *)
(* writes, and whether finalize put lines about the run into it.  Words,   *)
(* style and scores are left open: they decide whether a report whose      *)
(* sections are in order passes, and which section mentions a heading.     *)
(***************************************************************************)
EXTENDS Integers, FiniteSets, Sequences, SequencesExt

CONSTANTS
  Order,        \* [report_structure_mode -> its headings, in order]
  Insisted,     \* [mode -> the headings the gate names one by one]
  MinSections,  \* [mode -> min_required_sections]
  OtherHeadings,\* headings of no list a language model may make up
  MaxSections,  \* bound: sections of a text a language model writes
  MaxRounds     \* bound: correction_loop_limit

Modes == {"decision_brief", "academic_17"}

\* Those of TECHNICAL_SECTION_ORDER that the program looks for by name.
Method == "How This Research Was Done"
Confidence == "Evidence Confidence Summary"
Agreement == "Evidence Agreement and Disagreement"
Technical == <<Method, Confidence, Agreement>>

Sources == "Sources Used"
Notes == "Quality Notes"
Summary == "Executive Summary"
Register == "Verified Findings Register"
Risks == "Risks, Gaps, and Uncertainty"

Headings == ToSet(Order["decision_brief"]) \cup ToSet(Order["academic_17"])
              \cup ToSet(Technical) \cup OtherHeadings \cup {Sources}

ASSUME FormatAssumption ==
  /\ Order \in [Modes -> Seq(STRING)]
  /\ \A m \in Modes :
       /\ \A i, j \in DOMAIN Order[m] : Order[m][i] = Order[m][j] => i = j
       /\ Sources \notin ToSet(Order[m])
       /\ Insisted[m] \subseteq ToSet(Order[m])
       /\ MinSections[m] \in Nat
  /\ Summary \in ToSet(Order["decision_brief"])
  /\ ToSet(Order["decision_brief"]) \cap ToSet(Technical) = {}
  /\ Notes \notin Headings
  /\ MaxSections \in Nat /\ MaxRounds \in Nat

VARIABLES
  node,       \* the node that runs next
  style,      \* the configuration
  raw,        \* history: what was written first
  report,     \* report_draft, then final_report
  origin,     \* how it was written
  judged,     \* history: the report the gate saw last
  placeholders, \* whether that one holds placeholder text
  verdict,    \* pass_gate
  rounds      \* correction_count

formatVars ==
  <<node, style, raw, report, origin, judged, placeholders, verdict, rounds>>

\* "traced": where finalize put its lines about the run, 0 for the text ahead.
Text(ahead, sections) ==
  [ahead |-> ahead, sections |-> sections, traced |-> {}]
NoText == Text(FALSE, <<>>)
Added(heading) == [heading |-> heading, from |-> 0]

FormatInit ==
  /\ node = "synthesizer"
  /\ style = [mode |-> "academic_17", confidence |-> FALSE, show |-> FALSE,
              strict |-> TRUE, fill |-> FALSE]
  /\ raw = NoText /\ report = NoText /\ origin = "none"
  /\ judged = NoText /\ placeholders = FALSE
  /\ verdict = FALSE /\ rounds = 0

HeadingsOf(sections) == {sections[i].heading : i \in DOMAIN sections}
Has(sections, h) == \E i \in DOMAIN sections : sections[i].heading = h

-----------------------------------------------------------------------------
(* The formatter.                                                          *)

\* _remove_sources_section: all from the first such heading on is cut.
CutSources(sections) ==
  IF ~Has(sections, Sources) THEN sections
  ELSE LET first == CHOOSE i \in DOMAIN sections :
                      /\ sections[i].heading = Sources
                      /\ \A j \in 1 .. i - 1 : sections[j].heading # Sources
       IN SubSeq(sections, 1, first - 1)

InjectConfidence(sections, s) ==
  IF s.confidence /\ ~Has(sections, Confidence)
  THEN Append(sections, Added(Confidence))
  ELSE sections

\* The elements of a sequence at some of its positions, in order.
Nth(positions, k) ==
  CHOOSE i \in positions : Cardinality({j \in positions : j < i}) = k - 1

Keeping(seq, positions) ==
  [k \in 1 .. Cardinality(positions) |-> seq[Nth(positions, k)]]

LastWith(sections, h) ==
  CHOOSE i \in DOMAIN sections :
    /\ sections[i].heading = h
    /\ \A j \in DOMAIN sections : sections[j].heading = h => j <= i

\* section_map: of sections with the same heading the last.
Listed(list, sections) ==
  LET found == Keeping(list, {k \in DOMAIN list : Has(sections, list[k])})
  IN [k \in DOMAIN found |-> sections[LastWith(sections, found[k])]]

\* The headings of no list in the order they came, of equal ones the first.
NewOnes(lists, sections) ==
  {i \in DOMAIN sections :
     /\ sections[i].heading \notin lists
     /\ \A j \in 1 .. i - 1 : sections[j].heading # sections[i].heading}

\* Mutant: they are turned round.
NewestFirst(lists, sections) ==
  Reverse(Keeping(sections, NewOnes(lists, sections)))

Unlisted(lists, sections) == Keeping(sections, NewOnes(lists, sections))

TechnicalLast(s) ==
  IF s.mode = "decision_brief" /\ ~s.show THEN Technical ELSE <<>>

\* One list first, one last, what is on neither between them.
Arranged(first, last, sections) ==
  Listed(first, sections)
    \o Unlisted(ToSet(first) \cup ToSet(last), sections)
    \o Listed(last, sections)

Reorder(sections, s) == Arranged(Order[s.mode], TechnicalLast(s), sections)

\* What is ahead of the first heading is kept only if there is no heading.
Format(text, s) ==
  LET body == InjectConfidence(CutSources(text.sections), s)
      empty == body = <<>> /\ ~text.ahead
      kept == IF empty THEN <<Added(Summary)>> ELSE Reorder(body, s)
  IN Text(text.ahead /\ body = <<>>, Append(kept, Added(Sources)))

-----------------------------------------------------------------------------
(* The synthesizer.                                                        *)

\* Any text, with the sections numbered.
Written ==
  {Text(ahead, [i \in DOMAIN hs |-> [heading |-> hs[i], from |-> i]]) :
     ahead \in BOOLEAN,
     hs \in UNION {[1 .. n -> Headings] : n \in 0 .. MaxSections}}

\* _ensure_conflict_reconciliation_section, for merged reports.
WithAgreement(text) ==
  IF text = NoText \/ Has(text.sections, Agreement) THEN text
  ELSE [text EXCEPT !.sections = Append(@, Added(Agreement))]

\* "strict" is strict_no_placeholders; "fill" is template_fill where
\* allow_placeholder_sections is on, without which it does nothing.
Styles ==
  {s \in [mode : Modes, confidence : BOOLEAN, show : BOOLEAN,
          strict : BOOLEAN, fill : BOOLEAN] :
     (s.show => s.confidence) /\ ~(s.strict /\ s.fill)}

Draft(text, shown) ==
  /\ raw' = text
  /\ report' = shown
  /\ node' = "self_correction"
  /\ UNCHANGED <<judged, placeholders, verdict, rounds>>

MergedDraft ==
  /\ node = "synthesizer"
  /\ \E text \in Written, s \in Styles :
       /\ style' = s /\ origin' = "merged"
       /\ Draft(text, Format(WithAgreement(text), s))

SinglePassDraft ==
  /\ node = "synthesizer"
  /\ \E text \in Written, s \in Styles :
       /\ style' = s /\ origin' = "single_pass"
       /\ Draft(text, Format(text, s))

Program(headings) ==
  Text(FALSE, [i \in DOMAIN headings |-> Added(headings[i])])

\* build_analytical_fallback: a decision brief in either mode.
FallbackHeadings == Order["decision_brief"] \o <<Method, Confidence>>

\* build_fail_closed_report has no register, and its risks come last.
FailClosedHeadings ==
  LET brief == Order["decision_brief"]
      early == {i \in DOMAIN brief : brief[i] \notin {Register, Risks}}
      late == {i \in DOMAIN brief : brief[i] = Risks}
  IN Keeping(brief, early) \o Technical \o Keeping(brief, late)

\* The reports written by the program end with their sources and are not
\* formatted yet.
ProgramDraft ==
  /\ node = "synthesizer"
  /\ \E s \in Styles, failed \in BOOLEAN :
       LET text == Program(Append(IF failed THEN FailClosedHeadings
                                  ELSE FallbackHeadings, Sources))
       IN /\ style' = s
          /\ origin' = IF failed THEN "fail_closed" ELSE "fallback"
          /\ Draft(text, text)

\* The fail-closed report is known by its first sentence.
Closed == origin = "fail_closed"

-----------------------------------------------------------------------------
(* Quality and correction.                                                 *)

RequiredHeadings(s) == ToSet(Order[s.mode]) \cup {Sources}

MissingRequired(text, s) == RequiredHeadings(s) \ HeadingsOf(text.sections)

\* assess_report_quality, as far as it reads the headings.  The summary of a
\* decision brief must have words enough, so it is insisted on too.
SectionsInOrder(text, s) ==
  LET present == RequiredHeadings(s) \cap HeadingsOf(text.sections)
      needed == Insisted[s.mode]
                  \cup (IF s.mode = "decision_brief" THEN {Summary} ELSE {})
  IN needed \subseteq present /\ Cardinality(present) >= MinSections[s.mode]

\* Mutant: the note is put ahead of the report.
NoteFirst(text) ==
  [text EXCEPT !.sections = <<Added(Notes)>> \o @]

\* "## Quality Notes", written behind the sources.
WithNote(text) == [text EXCEPT !.sections = Append(@, Added(Notes))]

\* No node fills context_docs, so no model is asked to rewrite a draft that is
\* not in order.
Corrected(text, s) ==
  {Format(WithNote(text), s)}
    \cup (IF SectionsInOrder(text, s) THEN {Format(text, s)} ELSE {})

SelfCorrect ==
  /\ node = "self_correction"
  /\ report' \in Corrected(report, style)
  /\ node' = "eval_gate"
  /\ UNCHANGED <<style, raw, origin, judged, placeholders, verdict, rounds>>

MayPassGate(text, s) == SectionsInOrder(text, s)

\* The fail-closed report has no claims, and so never passes; nor does one
\* with placeholder text.
GateDraft ==
  /\ node = "eval_gate"
  /\ placeholders' \in BOOLEAN
  /\ verdict' \in {FALSE} \cup (IF /\ MayPassGate(report, style)
                                  /\ ~Closed /\ ~placeholders'
                               THEN {TRUE} ELSE {})
  /\ judged' = report
  /\ node' = IF ~verdict' /\ rounds < MaxRounds THEN "retry" ELSE "finalize"
  /\ UNCHANGED <<style, raw, report, origin, rounds>>

CorrectAgain ==
  /\ node = "retry"
  /\ report' \in Corrected(report, style)
  /\ rounds' = rounds + 1
  /\ node' = "eval_gate"
  /\ UNCHANGED <<style, raw, origin, judged, placeholders, verdict>>

-----------------------------------------------------------------------------
(* Finalize.                                                               *)

\* Mutant: filling starts from an empty report.
FillAll(text) ==
  LET all == Order["decision_brief"]
  IN [text EXCEPT !.sections = CutSources(@)
                    \o [i \in DOMAIN all |-> Added(all[i])]]

\* ensure_required_sections: the missing headings of a decision brief, ahead
\* of the sources, in either mode.
Fill(text) ==
  LET body == CutSources(text.sections)
      all == Order["decision_brief"]
      missing == Keeping(all, {i \in DOMAIN all : ~Has(body, all[i])})
  IN Text(text.ahead,
          body \o [i \in DOMAIN missing |-> Added(missing[i])]
            \o <<Added(Sources)>>)

\* build_constrained_actionable_report has every section of its mode.
Constrained(s) == Program(Append(Order[s.mode], Sources))

\* Finalize reads the words the gate has read, and finds the same in them.
Blocked(text, s) ==
  (MissingRequired(text, s) # {} \/ placeholders) /\ ~Closed

Finalized ==
  IF style.fill THEN Fill(report)
  ELSE IF style.strict /\ Blocked(report, style) THEN Constrained(style)
  ELSE report

\* _inject_method_trace_summary: lines about the run, written under the first
\* mention of "## How This Research Was Done" after all formatting.  A section
\* of the program's with that heading mentions it; the words of any other,
\* and the text ahead, may.
WithTrace(text) ==
  LET own == {i \in DOMAIN text.sections : text.sections[i] = Added(Method)}
      places == DOMAIN text.sections \cup (IF text.ahead THEN {0} ELSE {})
      first == {i \in places : \A j \in own : i <= j}
  IN {[text EXCEPT !.traced = {i}] : i \in first}
       \cup (IF own = {} THEN {text} ELSE {})

FinalizeReport ==
  /\ node = "finalize"
  /\ report' \in WithTrace(Format(Finalized, style))
  /\ node' = "end"
  /\ UNCHANGED <<style, raw, origin, judged, placeholders, verdict, rounds>>

FormatNext ==
  \/ MergedDraft \/ SinglePassDraft \/ ProgramDraft
  \/ SelfCorrect \/ GateDraft \/ CorrectAgain \/ FinalizeReport

FormatSpec == FormatInit /\ [][FormatNext]_formatVars

-----------------------------------------------------------------------------
(* Properties.                                                             *)

Formatted == node \in {"eval_gate", "retry", "finalize"}

\* The two parts of FormatSettles.  Formatting a draft again changes nothing:
\* the sections stay where they are however often a correction pass, a retry
\* or finalize formats them (report_formatter.py:178, 235).
FormatStable == Formatted => Format(report, style) = report

\* The list of sources is the program's own and comes last, whatever list or
\* text a language model wrote (report_formatter.py:61).
LedgerIsLast ==
  node # "synthesizer" =>
    \A i \in DOMAIN report.sections :
      report.sections[i].heading = Sources <=> i = Len(report.sections)

\* Loops and retries do not wear a report down.
FormatSettles == FormatStable /\ LedgerIsLast

\* The three parts of TextKept.  Every heading ahead of the sources survives
\* formatting, with the text of one of its sections; the text ahead of the
\* headings is lost if there are headings, those the program adds included
\* (report_formatter.py:168).
HeadingsKept ==
  Formatted =>
    LET body == CutSources(raw.sections)
    IN /\ HeadingsOf(body) \subseteq HeadingsOf(report.sections)
       /\ \A i \in DOMAIN report.sections :
            Has(body, report.sections[i].heading) =>
              \E j \in DOMAIN body : report.sections[i] = body[j]
       /\ report.ahead <=> raw.ahead /\ Len(report.sections) = 1

\* A merged report says where its branches disagree unless the language model
\* had written a list of sources of its own: the section is added behind it
\* and cut with it (synthesizer.py:97, report_formatter.py:68).
AgreementShown ==
  Formatted /\ origin = "merged" /\ raw # NoText
    /\ ~Has(report.sections, Agreement) => Has(raw.sections, Sources)

\* The outstanding issues a correction pass notes never reach the gate or the
\* reader: they stand behind the sources, which formatting cuts, so that a
\* pass leaves the draft it was given (self_correction.py:166).
NotesNeverShow == ~Has(report.sections, Notes)

\* What a writer wrote and formatting does not show is behind its sources,
\* ahead of its headings or under a heading it used twice, nowhere else.
TextKept == HeadingsKept /\ AgreementShown /\ NotesNeverShow

\* The three parts of DeliveredExplained.  But for the lines about the run,
\* which no gate has seen, a reader gets what the gate saw, or the constrained
\* report; template_fill adds to it, and nothing is taken away
\* (pipeline.py:255, 272, 318, 364).
Untraced(text) == [text EXCEPT !.traced = {}]
Replaced ==
  style.strict /\ Untraced(report) = Format(Constrained(style), style)

DeliveredIsJudged ==
  node = "end" =>
    \/ Untraced(report) = judged
    \/ Replaced
    \/ style.fill /\ \A i \in DOMAIN judged.sections :
                       \E j \in DOMAIN report.sections :
                         report.sections[j] = judged.sections[i]

\* A report that passed the gate is exchanged for the constrained one only
\* for want of a section that finalize requires and the gate does not
\* (pipeline.py:272, report_quality.py:276, 294).
PassedButReplaced ==
  node = "end" /\ verdict /\ ~style.fill /\ Untraced(report) # judged =>
    LET missing == MissingRequired(judged, style)
    IN missing # {} /\ missing \cap Insisted[style.mode] = {}

\* A report no language model wrote tells how the run went, after any number
\* of passes, unless it is exchanged for the constrained one, which a
\* fail-closed report never is (pipeline.py:222, 364, report_formatter.py:222).
RunIsTold ==
  node = "end" /\ origin \in {"fallback", "fail_closed"} =>
    \/ report.traced # {}
    \/ origin = "fallback" /\ Replaced

\* What a run delivers is what its verdict is about, but for these.
DeliveredExplained == DeliveredIsJudged /\ PassedButReplaced /\ RunIsTold

=============================================================================
