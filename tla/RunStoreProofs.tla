---------------------------- MODULE RunStoreProofs ----------------------------
(***************************************************************************)
(* Proofs about what runs leave on disk, for any number of runs and with   *)
(* or without processes that die.                                          *)
(***************************************************************************)
EXTENDS RunStore, TLAPS

-----------------------------------------------------------------------------
(* Types.                                                                  *)

\* Every step keeps the variables well typed.
LEMMA TypeStep == TypeOK /\ [Next]_vars => TypeOK'
<1> SUFFICES ASSUME TypeOK, [Next]_vars PROVE TypeOK'
  OBVIOUS
<1> USE DEF TypeOK, Places, Stages, Kinds, GoTo
<1>1. ASSUME NEW r \in Runs, WriteArtifact(r) PROVE TypeOK'
  <2>1. pc' \in [Runs -> Places]
    BY <1>1 DEF WriteArtifact, NextKind
  <2>2. files' \subseteq Runs \X Kinds
    BY <1>1 DEF WriteArtifact
  <2> QED
    BY <1>1, <2>1, <2>2 DEF WriteArtifact
<1>2. ASSUME NEW r \in Runs, Age(r) PROVE TypeOK'
  BY <1>2 DEF Age
<1>3. ASSUME NEW r \in Runs, SweepOne(r) \/ SweepDone(r) PROVE TypeOK'
  BY <1>3 DEF SweepOne, SweepDone
<1>4. ASSUME NEW r \in Runs, ReadRegistry(r) PROVE TypeOK'
  <2>1. Merged(r, registry) \in Seq(Runs)
    BY <1>4 DEF Merged
  <2>2. raced' \in BOOLEAN
    BY <1>4 DEF ReadRegistry
  <2>3. snapshot' \in [Runs -> Seq(Runs)]
    BY <1>4, <2>1 DEF ReadRegistry
  <2> QED
    BY <1>4, <2>2, <2>3 DEF ReadRegistry
<1>5. ASSUME NEW r \in Runs, Truncate(r) PROVE TypeOK'
  BY <1>5 DEF Truncate
<1>6. ASSUME NEW r \in Runs, Write(r) PROVE TypeOK'
  <2>1. registry' \in Seq(Runs)
    BY <1>6 DEF Write
  <2> QED
    BY <1>6, <2>1 DEF Write
<1>7. ASSUME NEW r \in Runs, Crash(r) PROVE TypeOK'
  BY <1>7 DEF Crash
<1>8. ASSUME NEW r \in Runs, ResumeStart(r) PROVE TypeOK'
  BY <1>8 DEF ResumeStart
<1>9. CASE ResumeReport \/ ResumeCitations \/ ResumeEval
  <2>1. /\ reader'.at \in Stages /\ reader'.run = reader.run
        /\ reader'.cited \in BOOLEAN /\ reader.at # "idle"
        /\ reader' \in [at : Stages, run : Runs \cup {"none"}, cited : BOOLEAN]
    <3>1. CASE ResumeReport
      <4>1. reader' = [reader EXCEPT !.at = "citations"]
              \/ reader' = [reader EXCEPT !.at = "missing"]
        BY <3>1 DEF ResumeReport
      <4> QED
        BY <3>1, <4>1 DEF ResumeReport
    <3>2. CASE ResumeCitations
      <4>1. PICK c \in BOOLEAN : c = Have(reader.run, "citations")
        <5>1. \/ TRUE = (<<reader.run, "citations">> \in files)
              \/ FALSE = (<<reader.run, "citations">> \in files)
          OBVIOUS
        <5> QED
          BY <5>1 DEF Have
      <4>2. reader' = [reader EXCEPT !.at = "eval", !.cited = c]
        BY <3>2, <4>1 DEF ResumeCitations
      <4> QED
        BY <3>2, <4>2 DEF ResumeCitations
    <3>3. CASE ResumeEval
      <4>1. reader' = [reader EXCEPT !.at = "resumed"]
              \/ reader' = [reader EXCEPT !.at = "missing"]
        BY <3>3 DEF ResumeEval
      <4> QED
        BY <3>3, <4>1 DEF ResumeEval
    <3> QED
      BY <1>9, <3>1, <3>2, <3>3
  <2> QED
    BY <1>9, <2>1 DEF ResumeReport, ResumeCitations, ResumeEval
<1>11. CASE ResumeAgain
  BY <1>11 DEF ResumeAgain, Idle
<1>10. CASE UNCHANGED vars
  BY <1>10 DEF vars
<1> QED
  BY <1>1, <1>2, <1>3, <1>4, <1>5, <1>6, <1>7, <1>8, <1>9, <1>10,
     <1>11
  DEF Next, RunStep

\* The variables are well typed (the files, registry lines, snapshots and the
\* resume of core/run_registry.py and main.py).
THEOREM TypeCorrect == Spec => []TypeOK
<1>1. Init => TypeOK
  <2> SUFFICES ASSUME Init PROVE TypeOK
    OBVIOUS
  <2>1. <<>> \in Seq(Runs)
    OBVIOUS
  <2>2. pc \in [Runs -> Places] /\ snapshot \in [Runs -> Seq(Runs)]
    BY <2>1 DEF Init, Places, Kinds
  <2>3. /\ reader \in [at : Stages, run : Runs \cup {"none"}, cited : BOOLEAN]
        /\ reader.at = "idle"
    BY DEF Init, Idle, Stages
  <2> QED
    BY <2>1, <2>2, <2>3 DEF Init, TypeOK
<1> QED
  BY <1>1, TypeStep, PTL DEF Spec

-----------------------------------------------------------------------------
(* Resume.                                                                 *)

\* While a run writes its artifacts none of them is swept, and it writes
\* eval.json last.
WriteOrder(r) ==
  /\ pc[r] \in Kinds => r \notin aged
  /\ pc[r] = "eval" => <<r, "citations">> \in files
  /\ <<r, "eval">> \in files => /\ <<r, "citations">> \in files
                                /\ pc[r] \notin Kinds

ArtifactInv == \A r \in Runs : WriteOrder(r)

\* A resume that has begun is of a run that writes no more, and one that did
\* not find citations will not find eval.json.
ReaderInv ==
  /\ reader.at \in {"report", "citations", "eval"}
       => pc[reader.run] \notin Kinds
  /\ reader.at = "eval" /\ ~reader.cited
       => <<reader.run, "eval">> \notin files
  /\ reader.at = "resumed" => reader.cited

\* Every step keeps the order in which artifacts come and go.
LEMMA ArtifactStep ==
  TypeOK /\ ArtifactInv /\ [Next]_vars => ArtifactInv'
<1> SUFFICES ASSUME TypeOK, ArtifactInv, [Next]_vars, NEW s \in Runs
             PROVE  WriteOrder(s)'
  BY DEF ArtifactInv
<1> USE DEF TypeOK, ArtifactInv, WriteOrder, Kinds, GoTo
<1>1. ASSUME NEW r \in Runs, WriteArtifact(r) PROVE WriteOrder(s)'
  <2>1. CASE r # s
    BY <1>1, <2>1 DEF WriteArtifact
  <2>2. CASE r = s /\ UNCHANGED files
    BY <1>1, <2>2 DEF WriteArtifact, NextKind
  <2>3. CASE r = s /\ ~UNCHANGED files
    <3>1. /\ files' = files \cup {<<s, pc[s]>>}
          /\ pc'[s] = NextKind[pc[s]]
          /\ UNCHANGED aged
      BY <1>1, <2>3 DEF WriteArtifact
    <3>2. CASE pc[s] = "report"
      BY <1>1, <2>3, <3>1, <3>2 DEF NextKind, WriteArtifact
    <3>3. CASE pc[s] = "citations"
      BY <1>1, <2>3, <3>1, <3>3 DEF NextKind, WriteArtifact
    <3>4. CASE pc[s] = "eval"
      BY <1>1, <2>3, <3>1, <3>4 DEF NextKind, WriteArtifact
    <3> QED
      BY <1>1, <2>3, <3>2, <3>3, <3>4 DEF WriteArtifact
  <2> QED
    BY <2>1, <2>2, <2>3
<1>2. ASSUME NEW r \in Runs, Age(r) PROVE WriteOrder(s)'
  BY <1>2 DEF Age
<1>3. ASSUME NEW r \in Runs, SweepOne(r) PROVE WriteOrder(s)'
  <2>1. PICK f \in files : Expired(f) /\ files' = files \ {f}
    BY <1>3 DEF SweepOne
  <2>2. UNCHANGED <<pc, aged>>
    BY <1>3 DEF SweepOne
  <2>3. pc[s] = "eval" => f # <<s, "citations">>
    BY <2>1 DEF Expired
  <2>4. <<s, "eval">> \in files' => f # <<s, "citations">>
    <3>1. ASSUME <<s, "eval">> \in files, f = <<s, "citations">> PROVE FALSE
      BY <2>1, <3>1 DEF Expired
    <3> QED
      BY <2>1, <3>1
  <2>5. pc'[s] = "eval" => <<s, "citations">> \in files'
    BY <2>1, <2>2, <2>3
  <2>6. <<s, "eval">> \in files' => <<s, "citations">> \in files'
    BY <2>1, <2>4
  <2>7. <<s, "eval">> \in files' => pc'[s] \notin Kinds
    BY <2>1, <2>2
  <2> QED
    BY <2>2, <2>5, <2>6, <2>7
<1>4. ASSUME NEW r \in Runs,
             \/ SweepDone(r) \/ ReadRegistry(r) \/ Truncate(r) \/ Write(r)
             \/ Crash(r)
      PROVE  WriteOrder(s)'
  <2>1. UNCHANGED <<files, aged>> /\ (s # r => pc'[s] = pc[s])
    BY <1>4 DEF SweepDone, ReadRegistry, Truncate, Write, Crash
  <2>2. pc'[r] \in {"read", "truncate", "write", "done", "dead"}
    BY <1>4 DEF SweepDone, ReadRegistry, Truncate, Write, Crash
  <2> QED
    BY <2>1, <2>2
<1>5. CASE \/ \E r \in Runs : ResumeStart(r)
           \/ ResumeReport \/ ResumeCitations \/ ResumeEval \/ ResumeAgain
           \/ UNCHANGED vars
  BY <1>5 DEF ResumeStart, ResumeReport, ResumeCitations, ResumeEval,
     ResumeAgain, vars
<1> QED
  BY <1>1, <1>2, <1>3, <1>4, <1>5 DEF Next, RunStep

\* Every step keeps what a resume knows of its run.
LEMMA ReaderStep ==
  TypeOK /\ ArtifactInv /\ ReaderInv /\ [Next]_vars => ReaderInv'
<1> SUFFICES ASSUME TypeOK, ArtifactInv, ReaderInv, [Next]_vars
             PROVE  ReaderInv'
  OBVIOUS
<1> USE DEF TypeOK, ReaderInv, Kinds, GoTo
<1>1. ASSUME NEW r \in Runs, RunStep(r) PROVE ReaderInv'
  <2>1. UNCHANGED reader
    BY <1>1 DEF RunStep, WriteArtifact, Age, SweepOne, SweepDone,
       ReadRegistry, Truncate, Write, Crash
  <2>2. \A q \in Runs :
          pc[q] \notin Kinds =>
            /\ pc'[q] \notin Kinds
            /\ <<q, "eval">> \in files' => <<q, "eval">> \in files
    <3>1. CASE WriteArtifact(r)
      BY <3>1 DEF WriteArtifact
    <3>2. CASE Age(r) \/ SweepOne(r)
      BY <3>2 DEF Age, SweepOne
    <3>3. CASE \/ SweepDone(r) \/ ReadRegistry(r) \/ Truncate(r) \/ Write(r)
               \/ Crash(r)
      BY <3>3 DEF SweepDone, ReadRegistry, Truncate, Write, Crash
    <3> QED
      BY <1>1, <3>1, <3>2, <3>3 DEF RunStep
  <2>3. reader.at = "eval" /\ ~reader.cited
          => <<reader.run, "eval">> \notin files'
    BY <2>2
  <2> QED
    BY <2>1, <2>2, <2>3
<1>2. ASSUME NEW r \in Runs, ResumeStart(r) PROVE ReaderInv'
  BY <1>2 DEF ResumeStart, ArtifactInv, WriteOrder, Have
<1>3. CASE ResumeReport
  BY <1>3 DEF ResumeReport
<1>4. CASE ResumeCitations
  BY <1>4 DEF ResumeCitations, ArtifactInv, WriteOrder, Have
<1>5. CASE ResumeEval
  BY <1>5 DEF ResumeEval, Have
<1>6. CASE ResumeAgain
  <2>1. reader'.at = "idle"
    BY <1>6 DEF ResumeAgain, Idle
  <2> QED
    BY <2>1
<1>7. CASE UNCHANGED vars
  BY <1>7 DEF vars
<1> QED
  BY <1>1, <1>2, <1>3, <1>4, <1>5, <1>6, <1>7 DEF Next

\* A run that is resumed comes with its citations (load_result_from_artifacts
\* against finalize_node and cleanup_old_artifacts), for any number of writers,
\* sweepers and crashes.
THEOREM ResumesWhole == Spec => []ResumedWhole
<1>1. Init => ArtifactInv /\ ReaderInv
  BY DEF Init, ArtifactInv, WriteOrder, ReaderInv, Idle
<1>2. ReaderInv => ResumedWhole
  BY DEF ReaderInv, ResumedWhole
<1> QED
  BY <1>1, <1>2, TypeCorrect, ArtifactStep, ReaderStep, PTL DEF Spec

-----------------------------------------------------------------------------
(* The registry.                                                           *)

\* What is in either of two sequences is in their concatenation.
LEMMA InConcatenation ==
  ASSUME NEW S, NEW s \in Seq(S), NEW t \in Seq(S), NEW e,
         Contains(s, e) \/ Contains(t, e)
  PROVE  Contains(s \o t, e)
<1>1. CASE Contains(s, e)
  <2>1. PICK i \in 1..Len(s) : s[i] = e
    BY <1>1 DEF Contains
  <2>2. i \in 1..Len(s \o t) /\ (s \o t)[i] = e
    BY <2>1
  <2> QED
    BY <2>2 DEF Contains
<1>2. CASE Contains(t, e)
  <2>1. PICK i \in 1..Len(t) : t[i] = e
    BY <1>2 DEF Contains
  <2>2. Len(s) + i \in 1..Len(s \o t) /\ (s \o t)[Len(s) + i] = e
    BY <2>1
  <2> QED
    BY <2>2 DEF Contains
<1> QED
  BY <1>1, <1>2

InUpsert(r) == pc[r] \in {"truncate", "write"}

\* As long as upserts have neither overlapped nor been cut off there is at
\* most one, what it will write holds every record and its own, and the file
\* holds every record while it is not being rewritten.
RaceInv ==
  ~raced =>
    /\ \A r, s \in Runs : InUpsert(r) /\ InUpsert(s) => r = s
    /\ \A r \in Runs : InUpsert(r) =>
         \A q \in registered \cup {r} : Contains(snapshot[r], q)
    /\ (\A r \in Runs : pc[r] # "write") =>
         \A q \in registered : Contains(registry, q)

\* Every step keeps that.
LEMMA RaceStep == TypeOK /\ RaceInv /\ [Next]_vars => RaceInv'
<1> SUFFICES ASSUME TypeOK, RaceInv, [Next]_vars, ~raced' PROVE RaceInv'
  BY DEF RaceInv
<1> USE DEF InUpsert, GoTo
<1>0. ~raced
  BY DEF TypeOK, Next, RunStep, WriteArtifact, Age, SweepOne, SweepDone,
     ReadRegistry, Truncate, Write, Crash, ResumeStart, ResumeReport,
     ResumeCitations, ResumeEval, ResumeAgain, vars
<1>i. /\ \A r, s \in Runs : InUpsert(r) /\ InUpsert(s) => r = s
      /\ \A r \in Runs : InUpsert(r) =>
           \A q \in registered \cup {r} : Contains(snapshot[r], q)
      /\ (\A r \in Runs : pc[r] # "write") =>
           \A q \in registered : Contains(registry, q)
  BY <1>0 DEF RaceInv
<1>t. /\ pc \in [Runs -> Places] /\ registered \subseteq Runs
      /\ registry \in Seq(Runs) /\ snapshot \in [Runs -> Seq(Runs)]
  BY DEF TypeOK
<1>1. ASSUME NEW r \in Runs, ~InUpsert(r), ~InUpsert(r)',
             UNCHANGED <<registry, snapshot, registered>>,
             \A s \in Runs : s # r => pc'[s] = pc[s]
      PROVE  RaceInv'
  BY <1>i, <1>1 DEF RaceInv
<1>2. ASSUME NEW r \in Runs,
             WriteArtifact(r) \/ Age(r) \/ SweepOne(r) \/ SweepDone(r)
      PROVE  RaceInv'
  <2>1. ~InUpsert(r) /\ ~InUpsert(r)'
    BY <1>t, <1>2 DEF WriteArtifact, Age, SweepOne, SweepDone, Kinds, NextKind
  <2>2. /\ UNCHANGED <<registry, snapshot, registered>>
        /\ \A s \in Runs : s # r => pc'[s] = pc[s]
    BY <1>t, <1>2 DEF WriteArtifact, Age, SweepOne, SweepDone
  <2> QED
    BY <1>1, <2>1, <2>2
<1>3. ASSUME NEW r \in Runs, ReadRegistry(r) PROVE RaceInv'
  <2>1. \A s \in Runs : ~InUpsert(s)
    BY <1>0, <1>3 DEF ReadRegistry, Upserting
  <2>2. \A q \in registered \cup {r} : Contains(Merged(r, registry), q)
    <3>1. Contains(<<r>>, r)
      BY DEF Contains
    <3>2. \A q \in registered : Contains(registry, q)
      BY <1>i, <2>1
    <3> QED
      BY <1>t, <3>1, <3>2, InConcatenation, <<r>> \in Seq(Runs) DEF Merged
  <2>3. /\ pc'[r] = "truncate" /\ snapshot'[r] = Merged(r, registry)
        /\ UNCHANGED <<registry, registered>>
        /\ \A s \in Runs : s # r => pc'[s] = pc[s]
    BY <1>t, <1>3 DEF ReadRegistry
  <2> QED
    BY <1>i, <2>1, <2>2, <2>3 DEF RaceInv
<1>4. ASSUME NEW r \in Runs, Truncate(r) PROVE RaceInv'
  <2>1. /\ pc[r] = "truncate" /\ pc'[r] = "write"
        /\ UNCHANGED <<snapshot, registered>>
        /\ \A s \in Runs : s # r => pc'[s] = pc[s]
    BY <1>t, <1>4 DEF Truncate
  <2> QED
    BY <1>i, <2>1 DEF RaceInv
<1>5. ASSUME NEW r \in Runs, Write(r) PROVE RaceInv'
  <2>1. /\ pc[r] = "write" /\ pc'[r] = "done"
        /\ UNCHANGED snapshot /\ registered' = registered \cup {r}
        /\ \A s \in Runs : s # r => pc'[s] = pc[s]
    BY <1>t, <1>5 DEF Write
  <2>2. PICK behind \in Seq(Runs) : registry' = snapshot[r] \o behind
    <3> DEFINE n == Len(snapshot[r])
               tail == IF Len(registry) > n
                       THEN SubSeq(registry, n + 1, Len(registry)) ELSE <<>>
    <3>1. n \in Nat /\ Len(registry) \in Nat
      BY <1>t
    <3>2. tail \in Seq(Runs)
      BY <1>t, <3>1
    <3>3. registry' = snapshot[r] \o tail
      BY <1>5 DEF Write
    <3> QED
      BY <3>2, <3>3
  <2>3. \A q \in registered' : Contains(registry', q)
    BY <1>i, <1>t, <2>1, <2>2, InConcatenation
  <2> QED
    BY <1>i, <2>1, <2>3 DEF RaceInv
<1>6. ASSUME NEW r \in Runs, Crash(r) PROVE RaceInv'
  <2>1. /\ pc[r] # "write" /\ pc'[r] = "dead"
        /\ UNCHANGED <<registry, snapshot, registered>>
        /\ \A s \in Runs : s # r => pc'[s] = pc[s]
    BY <1>t, <1>6 DEF Crash
  <2> QED
    BY <1>i, <2>1 DEF RaceInv
<1>7. CASE \/ \E r \in Runs : ResumeStart(r)
           \/ ResumeReport \/ ResumeCitations \/ ResumeEval \/ ResumeAgain
           \/ UNCHANGED vars
  <2>1. UNCHANGED <<pc, registry, snapshot, registered>>
    BY <1>7 DEF ResumeStart, ResumeReport, ResumeCitations, ResumeEval,
       ResumeAgain, vars
  <2> QED
    BY <1>i, <2>1 DEF RaceInv
<1> QED
  BY <1>2, <1>3, <1>4, <1>5, <1>6, <1>7 DEF Next, RunStep

\* A record that has been registered is lost only when two upserts overlap or
\* a process dies between the two halves of write_text (RunRegistry.upsert).
THEOREM LosesOnlyInARace == Spec => []LostOnlyInARace
<1>1. Init => RaceInv
  BY DEF Init, RaceInv, InUpsert
<1>2. RaceInv => LostOnlyInARace
  BY DEF RaceInv, LostOnlyInARace, RegisteredStays
<1> QED
  BY <1>1, <1>2, TypeCorrect, RaceStep, PTL DEF Spec

=============================================================================
