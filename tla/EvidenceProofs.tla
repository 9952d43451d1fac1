----------------------------- MODULE EvidenceProofs ---------------------------
(***************************************************************************)
(* Proofs about what a run bases its report on: the evidence it collects,  *)
(* for any documents and any number of branches, and the memory of earlier *)
(* runs, for any number of runs and of writes that are cut short.          *)
(***************************************************************************)
EXTENDS MemoryStore, ClaimLedger, FiniteSetTheorems, TLAPS

-----------------------------------------------------------------------------
(* The memory of runs (MemoryStore).                                       *)

Pieces == [run : Remembered, ends : {"line", "unended", "torn"}]

\* Before it adds itself a run has no piece in the file.
NotYetWritten ==
  \A i \in DOMAIN pieces :
    step[pieces[i].run] \notin {"planner", "research", "add"}

\* What is not a whole line was cut short; a run that is being indexed, or
\* is, has its whole line; a planner has failed only on a file that cannot be
\* read.
FileInv ==
  /\ \A i \in DOMAIN pieces : pieces[i].ends # "line" => pieces[i].run \in cut
  /\ \A r \in Remembered : step[r] = "index" \/ r \in collection =>
       \E i \in DOMAIN pieces : pieces[i] = [run |-> r, ends |-> "line"]
  /\ LostToACutWrite

MemoryInv == MemoryTypeOK /\ NotYetWritten /\ FileInv

\* A step appends one piece of the run that takes it, or leaves the file alone.
LEMMA Appended ==
  ASSUME MemoryTypeOK, NEW p \in Pieces, pieces' = Append(pieces, p)
  PROVE  /\ pieces' \in Seq(Pieces)
         /\ DOMAIN pieces = 1 .. Len(pieces) /\ Len(pieces) \in Nat
         /\ DOMAIN pieces' = 1 .. Len(pieces) + 1
         /\ Len(pieces') = Len(pieces) + 1
         /\ \A i \in DOMAIN pieces : pieces'[i] = pieces[i]
         /\ pieces'[Len(pieces) + 1] = p
BY DEF MemoryTypeOK, Pieces

\* The types are kept by every step, and a run is written once.
LEMMA MemoryTypeStep ==
  MemoryTypeOK /\ NotYetWritten /\ [MemoryNext]_memoryVars
    => (MemoryTypeOK /\ NotYetWritten)'
<1> SUFFICES ASSUME MemoryTypeOK, NotYetWritten, [MemoryNext]_memoryVars
             PROVE  (MemoryTypeOK /\ NotYetWritten)'
  OBVIOUS
<1> DEFINE Steps == {"planner", "research", "add", "index", "done", "failed",
                     "unplanned", "dead"}
<1>t. /\ step \in [Remembered -> Steps] /\ pieces \in Seq(Pieces)
      /\ \A i, j \in DOMAIN pieces : pieces[i].run = pieces[j].run => i = j
      /\ collection \subseteq Remembered
      /\ cut \subseteq Remembered /\ Cardinality(cut) <= MaxCuts
      /\ \A i \in DOMAIN pieces : pieces[i].run \in Remembered
  <2>1. pieces \in Seq(Pieces)
    BY DEF MemoryTypeOK, Pieces
  <2>2. \A i \in DOMAIN pieces : pieces[i] \in Pieces
    BY <2>1
  <2>3. \A p \in Pieces : p.run \in Remembered
    BY DEF Pieces
  <2>4. \A i \in DOMAIN pieces : pieces[i].run \in Remembered
    BY <2>2, <2>3
  <2> QED
    BY <2>1, <2>4 DEF MemoryTypeOK
<1> HIDE DEF Steps
<1>1. ASSUME NEW r \in Remembered, NEW place \in Steps, Becomes(r, place),
             UNCHANGED pieces,
             \/ step[r] \in {"planner", "research"}
             \/ place \notin {"planner", "research", "add"}
      PROVE  /\ step' \in [Remembered -> Steps]
             /\ NotYetWritten'
  BY <1>t, <1>1 DEF Becomes, NotYetWritten
<1>2. ASSUME NEW r \in Remembered, NEW place \in Steps, Becomes(r, place),
             NEW ends \in {"line", "unended", "torn"}, AppendPiece(r, ends),
             step[r] = "add", place \notin {"planner", "research", "add"}
      PROVE  /\ step' \in [Remembered -> Steps] /\ pieces' \in Seq(Pieces)
             /\ \A i, j \in DOMAIN pieces' :
                  pieces'[i].run = pieces'[j].run => i = j
             /\ NotYetWritten'
  <2> DEFINE p == [run |-> r, ends |-> ends]
  <2>1. p \in Pieces /\ p.run = r /\ pieces' = Append(pieces, p)
    BY <1>2 DEF Pieces, AppendPiece
  <2> HIDE DEF p
  <2>2. /\ pieces' \in Seq(Pieces)
        /\ DOMAIN pieces = 1 .. Len(pieces) /\ Len(pieces) \in Nat
        /\ DOMAIN pieces' = 1 .. Len(pieces) + 1
        /\ \A i \in DOMAIN pieces : pieces'[i] = pieces[i]
        /\ pieces'[Len(pieces) + 1] = p
    BY <2>1, Appended
  <2>3. \A i \in DOMAIN pieces : pieces[i].run # r
    BY <1>2, <1>t DEF NotYetWritten
  <2>4. step' \in [Remembered -> Steps] /\ step'[r] = place
        /\ \A q \in Remembered : q # r => step'[q] = step[q]
    BY <1>2, <1>t DEF Becomes
  <2>5. ASSUME NEW i \in DOMAIN pieces'
        PROVE  \/ i \in DOMAIN pieces /\ pieces'[i] = pieces[i]
               \/ i = Len(pieces) + 1 /\ pieces'[i] = p
    BY <2>2
  <2>6. \A i, j \in DOMAIN pieces' : pieces'[i].run = pieces'[j].run => i = j
    BY <1>t, <2>1, <2>3, <2>5
  <2>7. NotYetWritten'
    BY <1>2, <1>t, <2>1, <2>3, <2>4, <2>5 DEF NotYetWritten
  <2> QED
    BY <2>2, <2>4, <2>6, <2>7
<1>3. ASSUME NEW r \in Remembered,
             RecallFromCollection(r) \/ RecallFromFile(r) \/ RecallRaises(r)
               \/ Research(r)
      PROVE  (MemoryTypeOK /\ NotYetWritten)'
  <2>1. PICK place \in Steps : Becomes(r, place)
    BY <1>3 DEF RecallFromCollection, RecallFromFile, RecallRaises, Research,
       Steps
  <2>2. /\ UNCHANGED <<pieces, collection, cut>>
        /\ step[r] = "planner" \/ step[r] = "research"
    BY <1>3 DEF RecallFromCollection, RecallFromFile, RecallRaises, Research
  <2> QED
    BY <1>1, <1>t, <2>1, <2>2 DEF MemoryTypeOK, Steps, Pieces
<1>4. ASSUME NEW r \in Remembered, AddRun(r)
      PROVE  (MemoryTypeOK /\ NotYetWritten)'
  <2>1. /\ Becomes(r, "index") /\ "index" \in Steps /\ step[r] = "add"
        /\ AppendPiece(r, "line") /\ UNCHANGED <<collection, cut>>
    BY <1>4 DEF AddRun, Steps, WholeLine
  <2> QED
    BY <1>2, <1>t, <2>1 DEF MemoryTypeOK, Steps, Pieces
<1>5. ASSUME NEW r \in Remembered, AddRunCut(r)
      PROVE  (MemoryTypeOK /\ NotYetWritten)'
  <2>1. PICK place \in {"done", "dead"} : Becomes(r, place)
    BY <1>5 DEF AddRunCut
  <2>2. place \in Steps
    BY DEF Steps
  <2>3. /\ step[r] = "add" /\ UNCHANGED collection
        /\ cut' = cut \cup {r} /\ Cardinality(cut) < MaxCuts
    BY <1>5 DEF AddRunCut
  <2>4. cut' \subseteq Remembered /\ Cardinality(cut') <= MaxCuts
    <3>1. IsFiniteSet(cut)
      BY <1>t, MemoryAssumption, FS_Subset
    <3>2. Cardinality(cut) \in Nat
      BY <3>1, FS_CardinalityType
    <3>3. \/ Cardinality(cut \cup {r}) = Cardinality(cut)
          \/ Cardinality(cut \cup {r}) = Cardinality(cut) + 1
      BY <3>1, FS_AddElement
    <3> QED
      BY <1>t, <2>3, <3>2, <3>3, MemoryAssumption
  <2>5. CASE UNCHANGED pieces
    BY <1>1, <1>t, <2>1, <2>2, <2>3, <2>4, <2>5 DEF MemoryTypeOK, Steps, Pieces
  <2>6. CASE \E ends \in {"unended", "torn"} : AppendPiece(r, ends)
    BY <1>2, <1>t, <2>1, <2>2, <2>3, <2>4, <2>6 DEF MemoryTypeOK, Steps, Pieces
  <2> QED
    BY <1>5, <2>5, <2>6 DEF AddRunCut
<1>6. ASSUME NEW r \in Remembered, Index(r)
      PROVE  (MemoryTypeOK /\ NotYetWritten)'
  <2>1. PICK place \in {"done", "dead"} : Becomes(r, place)
    BY <1>6 DEF Index
  <2>2. place \in Steps
    BY DEF Steps
  <2>3. UNCHANGED <<pieces, cut>> /\ collection' \subseteq Remembered
    BY <1>6, <1>t DEF Index
  <2> QED
    BY <1>1, <1>t, <2>1, <2>2, <2>3 DEF MemoryTypeOK, Steps, Pieces
<1>7. CASE UNCHANGED memoryVars
  BY <1>7 DEF memoryVars, MemoryTypeOK, NotYetWritten
<1> QED
  BY <1>3, <1>4, <1>5, <1>6, <1>7 DEF MemoryNext

\* A step keeps what the file says of the runs.
LEMMA FileStep ==
  MemoryTypeOK /\ FileInv /\ [MemoryNext]_memoryVars => FileInv'
<1> SUFFICES ASSUME MemoryTypeOK, FileInv, [MemoryNext]_memoryVars
             PROVE  FileInv'
  OBVIOUS
<1>t. /\ pieces \in Seq(Pieces) /\ DOMAIN pieces = 1 .. Len(pieces)
      /\ Len(pieces) \in Nat /\ cut \subseteq Remembered
      /\ DOMAIN step = Remembered
  BY DEF MemoryTypeOK, Pieces
<1>u. \A r, q \in Remembered : \A place :
        Becomes(r, place) => step'[q] = IF q = r THEN place ELSE step[q]
  BY <1>t DEF Becomes, MemoryTypeOK
<1>1. ASSUME NEW r \in Remembered,
             RecallFromCollection(r) \/ RecallFromFile(r) \/ Research(r)
      PROVE  FileInv'
  <2>1. /\ UNCHANGED <<pieces, collection, cut>>
        /\ step'[r] \notin {"index", "unplanned"}
        /\ \A q \in Remembered : q # r => step'[q] = step[q]
    BY <1>1, <1>u DEF RecallFromCollection, RecallFromFile, Research
  <2> QED
    BY <2>1 DEF FileInv, LostToACutWrite
<1>2. ASSUME NEW r \in Remembered, RecallRaises(r) PROVE FileInv'
  <2>1. /\ UNCHANGED <<pieces, collection, cut>>
        /\ step'[r] # "index"
        /\ \A q \in Remembered : q # r => step'[q] = step[q]
    BY <1>2, <1>u DEF RecallRaises
  <2>2. PICK i \in DOMAIN pieces : ~Readable(i)
    BY <1>2 DEF RecallRaises, FileReadable
  <2>3. CASE pieces[i].ends = "torn"
    BY <2>1, <2>3 DEF FileInv, LostToACutWrite
  <2>4. CASE pieces[i].ends # "torn"
    <3>p. pieces[i].ends \in {"line", "unended"}
      <4>1. pieces[i] \in Pieces
        BY <1>t
      <4> QED
        BY <2>4, <4>1 DEF Pieces
    <3>1. i > 1 /\ pieces[i - 1].ends # "line"
      BY <1>t, <2>2, <3>p DEF Readable
    <3>2. i - 1 \in DOMAIN pieces /\ i - 1 < Len(pieces)
      BY <1>t, <3>1
    <3> QED
      BY <2>1, <3>1, <3>2 DEF FileInv, LostToACutWrite
  <2> QED
    BY <2>3, <2>4
\* Appending a piece of r, whole or cut.
<1>3. ASSUME NEW r \in Remembered, NEW ends \in {"line", "unended", "torn"},
             AppendPiece(r, ends), cut \subseteq cut',
             ends # "line" => r \in cut',
             UNCHANGED collection,
             step'[r] # "unplanned", step'[r] = "index" => ends = "line",
             \A q \in Remembered : q # r => step'[q] = step[q]
      PROVE  FileInv'
  <2> DEFINE p == [run |-> r, ends |-> ends]
             n == Len(pieces) + 1
  <2>1. p \in Pieces /\ p.run = r /\ p.ends = ends
    BY DEF Pieces
  <2>2. pieces' = Append(pieces, p)
    BY <1>3 DEF AppendPiece
  <2> HIDE DEF p
  <2>3. /\ DOMAIN pieces' = 1 .. n /\ Len(pieces') = n
        /\ \A i \in DOMAIN pieces : pieces'[i] = pieces[i]
        /\ pieces'[n] = p
    BY <2>1, <2>2, Appended
  <2>4. n \in DOMAIN pieces' /\ DOMAIN pieces \subseteq DOMAIN pieces'
    BY <1>t, <2>3
  <2>5. ASSUME NEW i \in DOMAIN pieces', pieces'[i].ends # "line"
        PROVE  pieces'[i].run \in cut'
    <3>1. i \in DOMAIN pieces \/ i = n
      BY <1>t, <2>3
    <3> QED
      BY <1>3, <2>1, <2>3, <2>5, <3>1 DEF FileInv
  <2>6. ASSUME NEW q \in Remembered, step'[q] = "index" \/ q \in collection'
        PROVE  \E i \in DOMAIN pieces' :
                 pieces'[i] = [run |-> q, ends |-> "line"]
    <3>1. CASE step[q] = "index" \/ q \in collection
      BY <2>3, <2>4, <3>1 DEF FileInv
    <3>2. CASE ~(step[q] = "index" \/ q \in collection)
      <4>1. q = r /\ ends = "line"
        BY <1>3, <2>6, <3>2
      <4> QED
        BY <2>3, <2>4, <4>1 DEF p
    <3> QED
      BY <3>1, <3>2
  <2>7. LostToACutWrite'
    <3> SUFFICES ASSUME NEW q \in Remembered, step'[q] = "unplanned"
                 PROVE  \E i \in DOMAIN pieces' :
                          /\ pieces'[i].run \in cut'
                          /\ pieces'[i].ends = "torn" \/ i < Len(pieces')
      BY DEF LostToACutWrite
    <3>1. step[q] = "unplanned"
      BY <1>3
    <3>2. PICK i \in DOMAIN pieces :
            /\ pieces[i].run \in cut
            /\ pieces[i].ends = "torn" \/ i < Len(pieces)
      BY <3>1 DEF FileInv, LostToACutWrite
    <3> QED
      BY <1>3, <1>t, <2>3, <2>4, <3>2
  <2> QED
    BY <2>5, <2>6, <2>7 DEF FileInv
<1>4. ASSUME NEW r \in Remembered, AddRun(r) PROVE FileInv'
  <2>1. /\ AppendPiece(r, "line") /\ UNCHANGED <<collection, cut>>
        /\ step'[r] = "index"
        /\ \A q \in Remembered : q # r => step'[q] = step[q]
    BY <1>4, <1>u DEF AddRun, WholeLine
  <2> QED
    BY <1>3, <2>1
<1>5. ASSUME NEW r \in Remembered, AddRunCut(r) PROVE FileInv'
  <2>1. /\ cut' = cut \cup {r} /\ UNCHANGED collection
        /\ step'[r] \in {"done", "dead"}
        /\ \A q \in Remembered : q # r => step'[q] = step[q]
    BY <1>5, <1>u DEF AddRunCut
  <2>2. CASE UNCHANGED pieces
    BY <2>1, <2>2 DEF FileInv, LostToACutWrite
  <2>3. CASE \E ends \in {"unended", "torn"} : AppendPiece(r, ends)
    BY <1>3, <2>1, <2>3
  <2> QED
    BY <1>5, <2>2, <2>3 DEF AddRunCut
<1>6. ASSUME NEW r \in Remembered, Index(r) PROVE FileInv'
  <2>1. /\ UNCHANGED <<pieces, cut>>
        /\ collection' \subseteq collection \cup {r}
        /\ step[r] = "index" /\ step'[r] \in {"done", "dead"}
        /\ \A q \in Remembered : q # r => step'[q] = step[q]
    BY <1>6, <1>u DEF Index
  <2> QED
    BY <2>1 DEF FileInv, LostToACutWrite
<1>7. CASE UNCHANGED memoryVars
  BY <1>7 DEF memoryVars, FileInv, LostToACutWrite
<1> QED
  BY <1>1, <1>2, <1>4, <1>5, <1>6, <1>7 DEF MemoryNext

\* All of it holds of every reachable state.
LEMMA MemoryCorrect == MemorySpec => []MemoryInv
<1>1. MemoryInit => MemoryInv
  BY MemoryAssumption, FS_EmptySet
  DEF MemoryInit, MemoryInv, MemoryTypeOK, NotYetWritten, FileInv,
      LostToACutWrite
<1>2. MemoryInv /\ [MemoryNext]_memoryVars => MemoryInv'
  BY MemoryTypeStep, FileStep DEF MemoryInv
<1> QED
  BY <1>1, <1>2, PTL DEF MemorySpec

\* The runs, the pieces of the file and the collection are well typed, and a
\* run is written once (memory/chroma_store.py).
THEOREM MemoryTypeCorrect == MemorySpec => []MemoryTypeOK
<1>1. MemoryInv => MemoryTypeOK
  BY DEF MemoryInv
<1> QED
  BY <1>1, MemoryCorrect, PTL

\* Only a write that was cut short costs another run its planner or a run its
\* line (retrieve_similar and add_run), whatever order the runs come in.
THEOREM OnlyCutWritesHurt == MemorySpec => []CutWritesExplain
<1>1. MemoryInv => CutWritesExplain
  BY DEF MemoryInv, FileInv, MemoryTypeOK, CutWritesExplain, IndexedAreWritten
<1> QED
  BY <1>1, MemoryCorrect, PTL

-----------------------------------------------------------------------------
(* The evidence of a run (ClaimLedger): its invariant.                     *)

\* A verified row of a branch stands on a document that is not out of date and,
\* if the branch asked, is open.
RowSound(r) ==
  r.status = "verified" =>
    /\ r.doc \in Docs /\ ~page[r.doc].stale
    /\ r.asked => page[r.doc].open = "open"

\* A branch adds at most one row, its claim or a placeholder; it has none
\* before it is done, and one when it found a claim.
FindingSound(b) ==
  /\ ~finding[b].done => finding[b].rows = {} /\ finding[b].label = "none"
  /\ finding[b].done /\ finding[b].label = "none" => finding[b].rows # {}
  /\ setting.policy = "fail_closed" /\ finding[b].rows # {} =>
       finding[b].label \in {"none", "llm_timeout_subresearch"}
  /\ \A r \in finding[b].rows :
       /\ RowSound(r)
       /\ r.doc # NoDoc => r.id = ClaimId(b)
       /\ \A q \in finding[b].rows : q = r

\* Nothing is found before the plan, and nothing written before synthesis.
OrderInv ==
  /\ phase = "plan" => pool = {} /\ \A b \in Branches : ~finding[b].done
  /\ phase \notin {"gate", "judged"} =>
       draft.by = "nobody" /\ draft.rows = {} /\ citations = {}
  /\ phase \in {"synthesizer", "gate", "judged"} /\ setting.mode = "map_reduce"
       => \A b \in Branches : finding[b].done
  /\ passed => phase = "judged"

\* What is out of date is in the pool only because a lane let it through.
PoolInv == \A d \in pool : page[d].stale => d \in readmitted

\* What a written report may hold, by who wrote it.
DraftInv ==
  /\ draft.by \notin {"records", "fallback"} => draft.rows = {}
  /\ draft.by = "records" => \A r \in draft.rows : RowSound(r)
  /\ draft.by = "fallback" =>
       /\ \A r \in draft.rows : r.unknown
       /\ \A r \in draft.rows : page[r.doc].stale => r.doc \in readmitted
       /\ passed /\ setting.asks => draft.rows = {}

LedgerInv ==
  /\ LedgerTypeOK /\ OrderInv /\ PoolInv /\ DraftInv
  /\ \A b \in Branches : FindingSound(b)
  /\ CitationsMatch /\ RowsCited

-----------------------------------------------------------------------------
(* What the operators return.                                              *)

\* What is left of a lane's hits are documents that are not out of date; what
\* it puts back are documents.
LEMMA LaneKeeps ==
  ASSUME NEW hits \in SUBSET Docs, NEW r \in LaneResults(hits)
  PROVE  /\ r.kept \subseteq {d \in Docs : ~page[d].stale}
         /\ r.back \subseteq Docs
<1>1. PICK kept \in HardFilter(hits) :
        \E back \in TakenBack(hits, kept), more \in SUBSET (hits \cap TopTier) :
          r = [kept |-> kept, back |-> back \cup more]
  BY DEF LaneResults
<1>2. kept \subseteq {d \in Docs : ~page[d].stale}
  BY DEF HardFilter
<1>3. \A back \in TakenBack(hits, kept) : back \subseteq Docs
  BY DEF TakenBack
<1> QED
  BY <1>1, <1>2, <1>3

\* The fallback numbers the documents of the pool, and only those.
LEMMA NumberedPool ==
  ASSUME LedgerTypeOK
  PROVE  /\ \A e \in Numbered : e.n \in Nat /\ e.doc \in pool
         /\ \A e1, e2 \in Numbered : e1.n = e2.n => e1.doc = e2.doc
<1> DEFINE Orders == [1 .. Cardinality(pool) -> pool]
           order == SetToSeq(pool)
<1>1. IsFiniteSet(pool)
  BY LedgerAssumption, FS_Subset DEF LedgerTypeOK
<1>2. Cardinality(pool) \in Nat
  BY <1>1, FS_CardinalityType
<1>3. ExistsBijection(1 .. Cardinality(pool), pool)
  BY <1>1, FS_CardinalityType
<1>4. \E f \in Orders : IsInjective(f)
  BY <1>3 DEF ExistsBijection, Bijection, Injection
<1>5. order \in Orders
  BY <1>4 DEF SetToSeq
<1>6. \A n \in DOMAIN order : n \in Nat /\ order[n] \in pool
  BY <1>2, <1>5
<1> HIDE DEF order
<1>7. Numbered = {[n |-> n, doc |-> order[n]] : n \in DOMAIN order}
  BY DEF Numbered, order
<1> QED
  BY <1>6, <1>7

\* Verification gives a row that is well typed and sound.
LEMMA ClaimSound ==
  ASSUME LedgerTypeOK, NEW b \in Branches, NEW d \in Docs,
         NEW asked \in BOOLEAN, NEW codes \in VerifyClaim(d, asked)
  PROVE  /\ ClaimRow(b, d, asked, codes) \in Rows
         /\ ClaimRow(b, d, asked, codes).id = ClaimId(b)
         /\ RowSound(ClaimRow(b, d, asked, codes))
<1> DEFINE row == ClaimRow(b, d, asked, codes)
<1>1. ClaimId(b) \in Nat
  BY DEF ClaimId, LedgerTypeOK, Settings
<1>2. Status(codes) \in {"verified", "constrained", "withheld"}
  BY DEF Status
<1>3. row = [id |-> ClaimId(b), doc |-> d, status |-> Status(codes),
             asked |-> asked, unknown |-> "open_status_unknown" \in codes]
  BY DEF ClaimRow
<1>4. /\ page[d].stale \in BOOLEAN
      /\ page[d].open \in {"open", "closed", "unknown"}
  BY DEF LedgerTypeOK, Pages
<1>5. ASSUME Status(codes) = "verified"
      PROVE  ~page[d].stale /\ (asked => page[d].open = "open")
  <2>1. codes = {}
    BY <1>5 DEF Status
  <2>2. StaleCode(d) = {} /\ OpenCode(d, asked) = {}
    BY <2>1 DEF VerifyClaim
  <2> QED
    BY <1>4, <2>2 DEF StaleCode, OpenCode
<1>6. row \in Rows
  BY <1>1, <1>2, <1>3 DEF Rows
<1>7. row.id = ClaimId(b) /\ row.doc = d /\ row.asked = asked
      /\ row.status = Status(codes)
  BY <1>3
<1> HIDE DEF row
<1> QED
  BY <1>5, <1>6, <1>7 DEF RowSound, row

-----------------------------------------------------------------------------
(* The steps.                                                              *)

\* What has been found stays sound while no branch adds to it.
LEMMA FindingsKept ==
  ASSUME \A b \in Branches : FindingSound(b),
         UNCHANGED <<page, setting, finding>>
  PROVE  (\A b \in Branches : FindingSound(b))'
BY DEF FindingSound, RowSound, ClaimId

\* So does what has been written.
LEMMA DraftKept ==
  ASSUME DraftInv, CitationsMatch, RowsCited, readmitted \subseteq readmitted',
         passed' => passed, UNCHANGED <<page, setting, draft, citations>>
  PROVE  (DraftInv /\ CitationsMatch /\ RowsCited)'
BY DEF DraftInv, CitationsMatch, RowsCited, RowSound

\* The plan.
LEMMA PlanStep == LedgerInv /\ LedgerPlan => LedgerInv'
<1> SUFFICES ASSUME LedgerInv, LedgerPlan PROVE LedgerInv'
  OBVIOUS
<1>1. /\ phase = "plan" /\ phase' = "tavily"
      /\ UNCHANGED <<pool, readmitted, finding, draft, citations, passed>>
      /\ page' \in [Docs -> Pages]
  BY DEF LedgerPlan
<1>2. setting' \in Settings
  <2>1. PICK mode \in {"map_reduce", "disabled"}, asks \in BOOLEAN,
             policy \in {"retry_once", "fail_closed"}, number \in Numbers :
          setting' = [mode |-> mode, policy |-> policy, asks |-> asks,
                      number |-> number]
    BY DEF LedgerPlan
  <2>2. number \in [Branches -> Nat]
    BY LedgerAssumption
  <2> QED
    BY <2>1, <2>2 DEF Settings
<1>3. /\ pool = {} /\ draft.by = "nobody" /\ draft.rows = {} /\ citations = {}
      /\ ~passed
      /\ \A b \in Branches : ~finding[b].done /\ finding[b].rows = {}
                             /\ finding[b].label = "none"
  BY <1>1 DEF LedgerInv, OrderInv, FindingSound
<1>4. LedgerTypeOK'
  BY <1>1, <1>2 DEF LedgerInv, LedgerTypeOK
<1>5. OrderInv' /\ PoolInv'
  BY <1>1, <1>3 DEF OrderInv, PoolInv
<1>6. (DraftInv /\ CitationsMatch /\ RowsCited)'
  BY <1>1, <1>3 DEF DraftInv, CitationsMatch, RowsCited
<1>7. (\A b \in Branches : FindingSound(b))'
  BY <1>1, <1>3 DEF FindingSound
<1> QED
  BY <1>4, <1>5, <1>6, <1>7 DEF LedgerInv

\* A retrieval lane, or the making of the shared corpus.
LEMMA RetrievalStep ==
  ASSUME LedgerInv, TavilyLane \/ DdgLane \/ FirecrawlLane \/ SharedPool
  PROVE  LedgerInv'
<1>1. /\ phase \in {"tavily", "ddg", "firecrawl", "pool"}
      /\ phase' \in {"ddg", "firecrawl", "pool", "branches", "synthesizer"}
      /\ phase' = "synthesizer" => setting.mode = "disabled"
      /\ UNCHANGED <<page, setting, finding, draft, citations, passed>>
  BY DEF TavilyLane, DdgLane, FirecrawlLane, SharedPool, SearchLane, Found
<1>2. ASSUME NEW kept, kept \subseteq {d \in Docs : ~page[d].stale},
             NEW back, back \subseteq Docs, Found(kept, back)
      PROVE  /\ pool' \subseteq Docs /\ readmitted' \subseteq Docs
             /\ readmitted \subseteq readmitted' /\ PoolInv'
  <2>1. /\ pool' = pool \cup kept \cup back
        /\ readmitted' = readmitted \cup {d \in back : page[d].stale}
        /\ page' = page
    BY <1>2 DEF Found
  <2> QED
    BY <1>2, <2>1 DEF LedgerInv, LedgerTypeOK, PoolInv
<1>3. /\ pool' \subseteq Docs /\ readmitted' \subseteq Docs
      /\ readmitted \subseteq readmitted' /\ PoolInv'
  <2>1. CASE TavilyLane \/ DdgLane
    <3>1. PICK hits \in SUBSET Docs, again \in SUBSET Docs :
            \E first \in LaneResults(hits), second \in LaneResults(again) :
              Found(first.kept \cup second.kept, first.back \cup second.back)
      BY <2>1 DEF TavilyLane, DdgLane, SearchLane
    <3>2. PICK first \in LaneResults(hits), second \in LaneResults(again) :
            Found(first.kept \cup second.kept, first.back \cup second.back)
      BY <3>1
    <3>3. /\ first.kept \subseteq {d \in Docs : ~page[d].stale}
          /\ first.back \subseteq Docs
      BY LaneKeeps
    <3>4. /\ second.kept \subseteq {d \in Docs : ~page[d].stale}
          /\ second.back \subseteq Docs
      BY LaneKeeps
    <3> HIDE DEF LedgerInv
    <3> QED
      BY <1>2, <3>2, <3>3, <3>4
  <2>2. CASE FirecrawlLane
    <3>1. PICK hits \in SUBSET Docs :
            \E kept \in HardFilter(hits) : Found(kept, {})
      BY <2>2 DEF FirecrawlLane
    <3>2. PICK kept \in HardFilter(hits) : Found(kept, {})
      BY <3>1
    <3>3. kept \subseteq {d \in Docs : ~page[d].stale}
      BY DEF HardFilter
    <3> QED
      BY <1>2, <3>2, <3>3
  <2>3. CASE SharedPool
    <3>1. pool' \subseteq pool /\ UNCHANGED <<page, readmitted>>
      BY <2>3 DEF SharedPool
    <3> QED
      BY <3>1 DEF LedgerInv, LedgerTypeOK, PoolInv
  <2> QED
    BY <2>1, <2>2, <2>3
<1>4. LedgerTypeOK'
  BY <1>1, <1>3 DEF LedgerInv, LedgerTypeOK
<1>5. OrderInv'
  BY <1>1 DEF LedgerInv, OrderInv
<1>6. (\A b \in Branches : FindingSound(b))'
  BY <1>1, FindingsKept DEF LedgerInv
<1>7. (DraftInv /\ CitationsMatch /\ RowsCited)'
  BY <1>1, <1>3, DraftKept DEF LedgerInv
<1> QED
  BY <1>3, <1>4, <1>5, <1>6, <1>7 DEF LedgerInv

\* What one branch adds, whichever way it ends.
LEMMA BranchAddsSound ==
  ASSUME LedgerInv, NEW b \in Branches, NEW label, NEW rows,
         BranchAdds(b, label, rows),
         label \in {"none", "no_relevant_docs", "claim_extraction_failed",
                    "llm_timeout_subresearch"},
         rows \subseteq Rows, label = "none" => rows # {},
         setting.policy = "fail_closed" /\ rows # {} =>
           label \in {"none", "llm_timeout_subresearch"},
         \A r \in rows : /\ RowSound(r)
                         /\ r.doc # NoDoc => r.id = ClaimId(b)
                         /\ \A q \in rows : q = r
  PROVE  LedgerInv'
<1>1. /\ phase = "branches"
      /\ UNCHANGED <<phase, page, setting, pool, readmitted, draft, citations,
                     passed>>
      /\ finding' = [finding EXCEPT
                       ![b] = [done |-> TRUE, label |-> label, rows |-> rows]]
  BY DEF BranchAdds
<1>2. finding \in [Branches -> Findings]
  BY DEF LedgerInv, LedgerTypeOK
<1>3. /\ finding'[b].done /\ finding'[b].label = label
      /\ finding'[b].rows = rows
  BY <1>1, <1>2
<1>4. \A c \in Branches : c # b => finding'[c] = finding[c]
  BY <1>1, <1>2
<1>5. [done |-> TRUE, label |-> label, rows |-> rows] \in Findings
  BY DEF Findings
<1>6. finding' \in [Branches -> Findings]
  BY <1>1, <1>2, <1>5
<1>7. LedgerTypeOK'
  BY <1>1, <1>6 DEF LedgerInv, LedgerTypeOK
<1>8. OrderInv' /\ PoolInv'
  BY <1>1 DEF LedgerInv, OrderInv, PoolInv
<1>9. ASSUME NEW c \in Branches PROVE FindingSound(c)'
  <2>1. \A r : RowSound(r)' <=> RowSound(r)
    BY <1>1 DEF RowSound
  <2>2. ClaimId(c)' = ClaimId(c)
    BY <1>1 DEF ClaimId
  <2>3. CASE c = b
    BY <1>1, <1>3, <2>1, <2>2, <2>3 DEF FindingSound
  <2>4. CASE c # b
    BY <1>1, <1>4, <2>1, <2>2, <2>4 DEF LedgerInv, FindingSound
  <2> QED
    BY <2>3, <2>4
<1>10. (DraftInv /\ CitationsMatch /\ RowsCited)'
  BY <1>1, DraftKept DEF LedgerInv
<1> QED
  BY <1>7, <1>8, <1>9, <1>10 DEF LedgerInv

\* A branch.
LEMMA BranchStep ==
  ASSUME LedgerInv, NEW b \in Branches,
         \/ BranchWithoutDocs(b) \/ BranchTimesOut(b)
         \/ BranchWithoutClaims(b) \/ BranchClaims(b)
  PROVE  LedgerInv'
<1>1. /\ PlaceholderRow \in Rows /\ RowSound(PlaceholderRow)
      /\ PlaceholderRow.doc = NoDoc
  BY DEF PlaceholderRow, Rows, RowSound
<1>2. FailedRows \subseteq {PlaceholderRow}
      /\ (setting.policy = "fail_closed" => FailedRows = {})
  BY DEF FailedRows
<1> HIDE DEF LedgerInv, PlaceholderRow, FailedRows
<1>3. CASE BranchWithoutDocs(b)
  <2>1. BranchAdds(b, "no_relevant_docs", FailedRows)
    BY <1>3 DEF BranchWithoutDocs
  <2> QED
    BY <1>1, <1>2, <2>1, BranchAddsSound
<1>4. CASE BranchTimesOut(b)
  <2>1. BranchAdds(b, "llm_timeout_subresearch", {PlaceholderRow})
    BY <1>4 DEF BranchTimesOut
  <2> QED
    BY <1>1, <2>1, BranchAddsSound
<1>5. CASE BranchWithoutClaims(b)
  <2>1. BranchAdds(b, "claim_extraction_failed", FailedRows)
    BY <1>5 DEF BranchWithoutClaims
  <2> QED
    BY <1>1, <1>2, <2>1, BranchAddsSound
<1>6. CASE BranchClaims(b)
  <2>1. PICK d \in Docs, asked \in BOOLEAN :
          \E codes \in VerifyClaim(d, asked) :
            BranchAdds(b, "none", {ClaimRow(b, d, asked, codes)})
    BY <1>6 DEF BranchClaims
  <2>2. PICK codes \in VerifyClaim(d, asked) :
          BranchAdds(b, "none", {ClaimRow(b, d, asked, codes)})
    BY <2>1
  <2>3. /\ ClaimRow(b, d, asked, codes) \in Rows
        /\ ClaimRow(b, d, asked, codes).id = ClaimId(b)
        /\ RowSound(ClaimRow(b, d, asked, codes))
    BY ClaimSound DEF LedgerInv
  <2> QED
    BY <2>2, <2>3, BranchAddsSound
<1> QED
  BY <1>3, <1>4, <1>5, <1>6

\* The branches are joined when all of them are done.
LEMMA JoinStep == ASSUME LedgerInv, BranchesJoin PROVE LedgerInv'
<1>1. /\ phase = "branches" /\ phase' = "synthesizer"
      /\ \A b \in Branches : finding[b].done
      /\ UNCHANGED <<page, setting, pool, readmitted, finding, draft,
                     citations, passed>>
  BY DEF BranchesJoin
<1>2. LedgerTypeOK' /\ OrderInv' /\ PoolInv'
  BY <1>1 DEF LedgerInv, LedgerTypeOK, OrderInv, PoolInv
<1>3. (\A b \in Branches : FindingSound(b))'
  BY <1>1, FindingsKept DEF LedgerInv
<1>4. (DraftInv /\ CitationsMatch /\ RowsCited)'
  BY <1>1, DraftKept DEF LedgerInv
<1> QED
  BY <1>2, <1>3, <1>4 DEF LedgerInv

\* Citations under which every document is found: those of different documents
\* share a number only if two subtopics do.
Matching(cites) ==
  \A c1, c2 \in cites :
    c1.id = c2.id /\ c1.doc # c2.doc =>
      \E b1, b2 \in Branches :
        b1 # b2 /\ setting.number[b1] = setting.number[b2]

\* What the synthesizer writes, whoever writes it.
LEMMA WriteSound ==
  ASSUME LedgerInv, phase = "synthesizer",
         NEW by \in {"fail_closed", "model", "records", "fallback"},
         NEW rows \in SUBSET Rows, NEW cites \in SUBSET [id : Nat, doc : Docs],
         Write(by, rows, cites), Matching(cites),
         \A r \in rows : r.doc # NoDoc => Cite(r.id, r.doc) \in cites,
         by \notin {"records", "fallback"} => rows = {},
         by = "records" => \A r \in rows : RowSound(r),
         by = "fallback" => \A r \in rows : r.unknown /\ r.doc \in pool
  PROVE  LedgerInv'
<1>1. /\ draft' = [by |-> by, rows |-> rows] /\ citations' = cites
      /\ phase' = "gate" /\ ~passed
      /\ UNCHANGED <<page, setting, pool, readmitted, finding, passed>>
  BY DEF Write, LedgerInv, OrderInv
<1>2. draft'.by = by /\ draft'.rows = rows /\ draft' \in Drafts
  BY <1>1 DEF Drafts
<1>3. LedgerTypeOK' /\ OrderInv' /\ PoolInv'
  BY <1>1, <1>2 DEF LedgerInv, LedgerTypeOK, OrderInv, PoolInv
<1>4. (\A b \in Branches : FindingSound(b))'
  BY <1>1, FindingsKept DEF LedgerInv
<1>5. \A r : RowSound(r)' <=> RowSound(r)
  BY <1>1 DEF RowSound
<1>6. DraftInv'
  BY <1>1, <1>2, <1>5 DEF DraftInv, LedgerInv, PoolInv
<1>7. CitationsMatch' /\ RowsCited'
  BY <1>1, <1>2 DEF CitationsMatch, RowsCited, Matching, Cite
<1> QED
  BY <1>3, <1>4, <1>6, <1>7 DEF LedgerInv

\* The rows of the fallback and their citations.
LEMMA FallbackSound ==
  ASSUME LedgerTypeOK
  PROVE  /\ FallbackRows \in SUBSET Rows
         /\ FallbackCitations \in SUBSET [id : Nat, doc : Docs]
         /\ Matching(FallbackCitations)
         /\ \A r \in FallbackRows :
              /\ Cite(r.id, r.doc) \in FallbackCitations
              /\ r.unknown /\ r.doc \in pool
<1>1. /\ \A e \in Numbered : e.n \in Nat /\ e.doc \in pool /\ e.doc \in Docs
      /\ \A e1, e2 \in Numbered : e1.n = e2.n => e1.doc = e2.doc
  BY NumberedPool DEF LedgerTypeOK
<1>2. setting.asks \in BOOLEAN
  BY DEF LedgerTypeOK, Settings
<1>3. ASSUME NEW r \in FallbackRows
      PROVE  /\ r \in Rows /\ r.unknown /\ r.doc \in pool
             /\ Cite(r.id, r.doc) \in FallbackCitations
  <2>1. PICK e \in Numbered :
          r = [id |-> e.n, doc |-> e.doc, asked |-> setting.asks,
               unknown |-> TRUE,
               status |-> IF e.doc \in TopTier THEN "verified"
                          ELSE "constrained"]
    BY DEF FallbackRows
  <2>2. r \in Rows /\ r.unknown /\ r.id = e.n /\ r.doc = e.doc
    BY <1>1, <1>2, <2>1 DEF Rows
  <2>3. Cite(e.n, e.doc) \in FallbackCitations
    BY DEF FallbackCitations
  <2> QED
    BY <1>1, <2>2, <2>3
<1>4. ASSUME NEW c \in FallbackCitations
      PROVE  \E e \in Numbered : c = [id |-> e.n, doc |-> e.doc]
  BY DEF FallbackCitations, Cite
<1>5. FallbackCitations \in SUBSET [id : Nat, doc : Docs]
  BY <1>1, <1>4
<1>6. Matching(FallbackCitations)
  BY <1>1, <1>4 DEF Matching
<1> QED
  BY <1>3, <1>5, <1>6

\* The citations the branches bring.
LEMMA MergedSound ==
  ASSUME LedgerInv
  PROVE  /\ ReportRows \in SUBSET Rows
         /\ MergedCitations \in SUBSET [id : Nat, doc : Docs]
         /\ Matching(MergedCitations)
         /\ \A r \in ReportRows :
              /\ RowSound(r)
              /\ r.doc # NoDoc => Cite(r.id, r.doc) \in MergedCitations
<1>1. \A r \in ReportRows : \E b \in Branches : r \in finding[b].rows
  BY DEF ReportRows
<1>2. ASSUME NEW b \in Branches, NEW r \in finding[b].rows
      PROVE  r \in Rows /\ RowSound(r)
             /\ (r.doc # NoDoc => r.id = ClaimId(b))
             /\ \A q \in finding[b].rows : q = r
  BY DEF LedgerInv, LedgerTypeOK, Findings, FindingSound
<1>3. ReportRows \in SUBSET Rows
  BY <1>1, <1>2
<1>4. ASSUME NEW c \in MergedCitations
      PROVE  \E r \in ReportRows :
               r.doc # NoDoc /\ c = [id |-> r.id, doc |-> r.doc]
  BY DEF MergedCitations, Cite
<1>5. MergedCitations \in SUBSET [id : Nat, doc : Docs]
  <2>1. \A r \in Rows : r.doc # NoDoc => r.id \in Nat /\ r.doc \in Docs
    BY DEF Rows
  <2> QED
    BY <1>3, <1>4, <2>1
<1>6. ASSUME NEW c1 \in MergedCitations, NEW c2 \in MergedCitations,
             c1.id = c2.id, c1.doc # c2.doc
      PROVE  \E b1, b2 \in Branches :
               b1 # b2 /\ setting.number[b1] = setting.number[b2]
  <2>1. PICK r1 \in ReportRows :
          r1.doc # NoDoc /\ c1 = [id |-> r1.id, doc |-> r1.doc]
    BY <1>4
  <2>2. PICK r2 \in ReportRows :
          r2.doc # NoDoc /\ c2 = [id |-> r2.id, doc |-> r2.doc]
    BY <1>4
  <2>3. r1.id = r2.id /\ r1.doc # r2.doc
    BY <1>6, <2>1, <2>2
  <2>4. PICK b1 \in Branches : r1 \in finding[b1].rows
    BY <1>1
  <2>5. PICK b2 \in Branches : r2 \in finding[b2].rows
    BY <1>1
  <2>6. ClaimId(b1) = ClaimId(b2)
    BY <1>2, <2>1, <2>2, <2>3, <2>4, <2>5
  <2>7. setting.number[b1] \in Nat /\ setting.number[b2] \in Nat
    BY DEF LedgerInv, LedgerTypeOK, Settings
  <2>8. setting.number[b1] = setting.number[b2]
    <3>1. \A m, n \in Nat : m * 100 + 1 = n * 100 + 1 => m = n
      OBVIOUS
    <3> QED
      BY <2>6, <2>7, <3>1, Zenon DEF ClaimId
  <2>9. b1 # b2
    BY <1>2, <2>3, <2>4, <2>5
  <2> QED
    BY <2>8, <2>9
<1>7. Matching(MergedCitations)
  BY <1>6 DEF Matching
<1>8. \A r \in ReportRows : RowSound(r)
  BY <1>1, <1>2
<1>9. \A r \in ReportRows :
        r.doc # NoDoc => Cite(r.id, r.doc) \in MergedCitations
  BY DEF MergedCitations
<1> QED
  BY <1>3, <1>5, <1>7, <1>8, <1>9

\* The synthesizer.
LEMMA SynthesisStep ==
  ASSUME LedgerInv, FailClosed \/ MergeReports \/ SinglePass
  PROVE  LedgerInv'
<1>1. phase = "synthesizer"
  BY DEF FailClosed, MergeReports, SinglePass
<1>2. /\ FallbackRows \in SUBSET Rows
      /\ FallbackCitations \in SUBSET [id : Nat, doc : Docs]
      /\ Matching(FallbackCitations)
      /\ \A r \in FallbackRows :
           /\ Cite(r.id, r.doc) \in FallbackCitations
           /\ r.unknown /\ r.doc \in pool
  BY FallbackSound DEF LedgerInv
<1>3. /\ ReportRows \in SUBSET Rows
      /\ MergedCitations \in SUBSET [id : Nat, doc : Docs]
      /\ Matching(MergedCitations)
      /\ \A r \in ReportRows :
           /\ RowSound(r)
           /\ r.doc # NoDoc => Cite(r.id, r.doc) \in MergedCitations
  BY MergedSound
<1> HIDE DEF LedgerInv
<1>4. CASE FailClosed
  <2>1. Write("fail_closed", {}, {})
    BY <1>4 DEF FailClosed
  <2>2. Matching({})
    BY DEF Matching
  <2> QED
    BY <1>1, <2>1, <2>2, WriteSound
<1>5. CASE Write("fallback", FallbackRows, FallbackCitations)
  BY <1>1, <1>2, <1>5, WriteSound
<1>6. CASE MergeReports
  <2> DEFINE cites == IF MergedCitations = {} THEN FallbackCitations
                      ELSE MergedCitations
  <2>1. \/ Write("model", {}, cites) \/ Write("records", ReportRows, cites)
        \/ Write("fallback", FallbackRows, FallbackCitations)
    BY <1>6 DEF MergeReports
  <2>2. cites \in SUBSET [id : Nat, doc : Docs] /\ Matching(cites)
    BY <1>2, <1>3
  <2>3. \A r \in ReportRows :
          RowSound(r) /\ (r.doc # NoDoc => Cite(r.id, r.doc) \in cites)
    BY <1>3
  <2> HIDE DEF cites
  <2>4. CASE Write("model", {}, cites)
    BY <1>1, <2>2, <2>4, WriteSound
  <2>5. CASE Write("records", ReportRows, cites)
    BY <1>1, <1>3, <2>2, <2>3, <2>5, WriteSound
  <2> QED
    BY <1>5, <2>1, <2>4, <2>5
<1>7. CASE SinglePass
  <2>1. CASE \E cites \in SUBSET FallbackCitations : Write("model", {}, cites)
    <3>1. PICK cites \in SUBSET FallbackCitations : Write("model", {}, cites)
      BY <2>1
    <3>2. Matching(cites) /\ cites \in SUBSET [id : Nat, doc : Docs]
      BY <1>2 DEF Matching
    <3> QED
      BY <1>1, <3>1, <3>2, WriteSound
  <2> QED
    BY <1>5, <1>7, <2>1 DEF SinglePass
<1> QED
  BY <1>4, <1>6, <1>7

\* The gate.
LEMMA JudgeStep == ASSUME LedgerInv, JudgeDraft PROVE LedgerInv'
<1>1. /\ phase = "gate" /\ phase' = "judged"
      /\ passed' \in BOOLEAN /\ (passed' => MayPass)
      /\ UNCHANGED <<page, setting, pool, readmitted, finding, draft,
                     citations>>
  BY DEF JudgeDraft
<1>2. LedgerTypeOK' /\ OrderInv' /\ PoolInv'
  BY <1>1 DEF LedgerInv, LedgerTypeOK, OrderInv, PoolInv
<1>3. (\A b \in Branches : FindingSound(b))'
  BY <1>1, FindingsKept DEF LedgerInv
<1>4. \A r : RowSound(r)' <=> RowSound(r)
  BY <1>1 DEF RowSound
<1>5. DraftInv'
  <2>1. passed' /\ setting.asks /\ draft.by = "fallback" =>
          \A r \in draft.rows : ~r.unknown
    BY <1>1 DEF MayPass, OpenStatusMet
  <2> QED
    BY <1>1, <1>4, <2>1 DEF LedgerInv, DraftInv
<1>6. CitationsMatch' /\ RowsCited'
  BY <1>1 DEF LedgerInv, CitationsMatch, RowsCited
<1> QED
  BY <1>2, <1>3, <1>5, <1>6 DEF LedgerInv

\* All of it holds of every reachable state.
LEMMA LedgerCorrect == LedgerSpec => []LedgerInv
<1>1. LedgerInit => LedgerInv
  <2> SUFFICES ASSUME LedgerInit PROVE LedgerInv
    OBVIOUS
  <2>1. /\ setting \in Settings /\ NoFinding \in Findings /\ NoDraft \in Drafts
        /\ page \in [Docs -> Pages]
    BY DEF LedgerInit, Settings, NoFinding, Findings, NoDraft, Drafts, Pages
  <2>2. LedgerTypeOK
    BY <2>1 DEF LedgerInit, LedgerTypeOK
  <2>3. OrderInv /\ PoolInv /\ DraftInv /\ CitationsMatch /\ RowsCited
    BY DEF LedgerInit, OrderInv, PoolInv, DraftInv, CitationsMatch, RowsCited,
       NoFinding, NoDraft
  <2>4. \A b \in Branches : FindingSound(b)
    BY DEF LedgerInit, FindingSound, NoFinding
  <2> QED
    BY <2>2, <2>3, <2>4 DEF LedgerInv
<1>2. LedgerInv /\ [LedgerNext]_ledgerVars => LedgerInv'
  <2> SUFFICES ASSUME LedgerInv, [LedgerNext]_ledgerVars PROVE LedgerInv'
    OBVIOUS
  <2>1. CASE UNCHANGED ledgerVars
    <3>1. UNCHANGED <<phase, page, setting, pool, readmitted, finding, draft,
                      citations, passed>>
      BY <2>1 DEF ledgerVars
    <3>2. LedgerTypeOK' /\ OrderInv' /\ PoolInv'
      BY <3>1 DEF LedgerInv, LedgerTypeOK, OrderInv, PoolInv
    <3>3. (\A b \in Branches : FindingSound(b))'
      BY <3>1, FindingsKept DEF LedgerInv
    <3>4. (DraftInv /\ CitationsMatch /\ RowsCited)'
      BY <3>1, DraftKept DEF LedgerInv
    <3> QED
      BY <3>2, <3>3, <3>4 DEF LedgerInv
  <2>2. CASE LedgerNext
    BY <2>2, PlanStep, RetrievalStep, BranchStep, JoinStep, SynthesisStep,
       JudgeStep DEF LedgerNext
  <2> QED
    BY <2>1, <2>2
<1> QED
  BY <1>1, <1>2, PTL DEF LedgerSpec

-----------------------------------------------------------------------------
(* The properties.                                                         *)

\* What the run keeps of its evidence is well typed.
THEOREM LedgerTypeCorrect == LedgerSpec => []LedgerTypeOK
<1>1. LedgerInv => LedgerTypeOK
  BY DEF LedgerInv
<1> QED
  BY <1>1, LedgerCorrect, PTL

\* Whatever is found and whatever the branches do, a report that the program
\* wrote presents as verified what is out of date only in the fallback, and
\* only where a lane took its filter back (verify_claim, doc_helpers.py).
THEOREM StaleAlwaysExplained == LedgerSpec => []StaleExplained
<1>1. LedgerInv => StaleExplained
  BY DEF LedgerInv, DraftInv, RowSound, StaleExplained, VerifiedRows
<1> QED
  BY <1>1, LedgerCorrect, PTL

\* A report the gate passed verifies nothing closed that it was asked about
\* (verify_claim and the gate of deepeval_node.py together).
THEOREM PassedIsOpen == LedgerSpec => []PassedMeansOpen
<1>1. LedgerInv => PassedMeansOpen
  BY DEF LedgerInv, DraftInv, RowSound, PassedMeansOpen, VerifiedRows
<1> QED
  BY <1>1, LedgerCorrect, PTL

\* However many branches share documents or numbers, no evidence is lost when
\* their reports are merged (synthesizer.py, dedupe_citations).
THEOREM CitationsAlwaysFaithful == LedgerSpec => []CitationsFaithful
<1>1. LedgerInv => CitationsFaithful
  BY DEF LedgerInv, CitationsFaithful
<1> QED
  BY <1>1, LedgerCorrect, PTL

\* The failed branches the gate counts are those without a placeholder, for
\* any number of branches (eval_gate.py, sub_research.py).
THEOREM FailedCountAlwaysExplained == LedgerSpec => []FailedCountExplained
<1>1. LedgerInv => FailedCountExplained
  <2> SUFFICES ASSUME LedgerInv, phase = "judged", setting.mode = "map_reduce"
               PROVE  FailedCountExplained
    BY DEF FailedCountExplained
  <2> DEFINE failed == {b \in Branches : finding[b].label # "none"}
             hidden == {b \in failed : finding[b].rows # {}}
  <2>1. \A b \in Branches : finding[b].done /\ FindingSound(b)
    BY DEF LedgerInv, OrderInv
  <2>2. failed \ hidden = Branches \ Reports
    BY <2>1 DEF FindingSound, Reports
  <2>3. IsFiniteSet(Branches) /\ Branches \cap Reports = Reports
    BY LedgerAssumption DEF Reports
  <2>4. /\ IsFiniteSet(Branches \ Reports)
        /\ Cardinality(Branches \ Reports)
             = Cardinality(Branches) - Cardinality(Reports)
    BY <2>3, FS_Difference
  <2>5. Cardinality(Branches \ Reports) \in Nat
    BY <2>4, FS_CardinalityType
  <2>6. SubtopicFailedCount = Cardinality(Branches \ Reports)
    BY <2>4, <2>5 DEF SubtopicFailedCount
  <2>7. setting.policy = "fail_closed" =>
          \A b \in hidden : finding[b].label = "llm_timeout_subresearch"
    BY <2>1 DEF FindingSound
  <2> QED
    BY <2>2, <2>6, <2>7 DEF FailedCountExplained
<1> QED
  BY <1>1, LedgerCorrect, PTL

=============================================================================
