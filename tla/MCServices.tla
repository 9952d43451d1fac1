------------------------------ MODULE MCServices -----------------------------
(***************************************************************************)
(* Small instances for TLC of the five components that share no state: the *)
(* web tool server, the memory of runs, the ledger of claims, the report   *)
(* and the model router.  Nothing one of them does can matter to another,  *)
(* so a behaviour is one of one of them, while the others stay as they     *)
(* were at the start.                                                      *)
(***************************************************************************)
EXTENDS WebTools, MemoryStore, ClaimLedger, ReportFormat, ModelRouter

CONSTANTS t1, t2, m1, m2, m3, d1, d2, b1, b2

TwoThreads  == {t1, t2}
ThreeRuns   == {m1, m2, m3}
TwoDocs     == {d1, d2}
OneDoc      == {d1}
TwoBranches == {b1, b2}

\* The planning model numbers the subtopics in order, or gives both the same.
OneTwoOrOneOne ==
  {[b \in TwoBranches |-> 1], [b \in TwoBranches |-> IF b = b1 THEN 1 ELSE 2]}

\* Some of each structure's headings, in the order the formatter gives them,
\* and how many of them a report needs.  In a report of one structure those of
\* the other are headings of no list.
ShortOrder ==
  [ decision_brief |-> <<Summary, Register, Risks>>,
    academic_17    |-> <<"Abstract">> ]
Essential == [decision_brief |-> {Register}, academic_17 |-> {"Abstract"}]
TwoEach   == [decision_brief |-> 2, academic_17 |-> 2]

-----------------------------------------------------------------------------
Init == WebInit /\ MemoryInit /\ LedgerInit /\ FormatInit /\ RouterInit

vars == <<webVars, memoryVars, ledgerVars, formatVars, routerVars>>

WebPart ==
  /\ MemoryInit /\ LedgerInit /\ FormatInit /\ RouterInit
  /\ WebNext
  /\ UNCHANGED <<memoryVars, ledgerVars, formatVars, routerVars>>

MemoryPart ==
  /\ WebInit /\ LedgerInit /\ FormatInit /\ RouterInit
  /\ MemoryNext
  /\ UNCHANGED <<webVars, ledgerVars, formatVars, routerVars>>

LedgerPart ==
  /\ WebInit /\ MemoryInit /\ FormatInit /\ RouterInit
  /\ LedgerNext
  /\ UNCHANGED <<webVars, memoryVars, formatVars, routerVars>>

FormatPart ==
  /\ WebInit /\ MemoryInit /\ LedgerInit /\ RouterInit
  /\ FormatNext
  /\ UNCHANGED <<webVars, memoryVars, ledgerVars, routerVars>>

RouterPart ==
  /\ WebInit /\ MemoryInit /\ LedgerInit /\ FormatInit
  /\ RouterNext
  /\ UNCHANGED <<webVars, memoryVars, ledgerVars, formatVars>>

Next == WebPart \/ MemoryPart \/ LedgerPart \/ FormatPart \/ RouterPart

Spec == Init /\ [][Next]_vars /\ WF_webVars(WebPart)

=============================================================================
